---------------------------- MODULE DurableStore ----------------------------
(***************************************************************************)
(* What the CV store promises, without saying how: one configuration, of   *)
(* which one CV changes at a time, or all go back to their defaults. A     *)
(* change is saved before the next is made. A crash loses the change that  *)
(* is not saved yet, or, while it is being saved, everything. It never     *)
(* leaves a mixture.                                                       *)
(***************************************************************************)
CONSTANTS
    CVs, Values,
    Defaults,   \* the configuration of a factory reset
    Blank,      \* what is left when all is lost
    Contents    \* what may be saved at the beginning

VARIABLES
    saved,      \* what the next boot finds
    view,       \* what the program reads
    saving      \* the change is not safe yet

vars == <<saved, view, saving>>

Init == saved \in Contents /\ view = saved /\ saving = FALSE

Change ==
    /\ view = saved /\ ~ saving
    /\ \/ /\ view' \in [CVs -> Values]
          /\ \E cv \in CVs : \A other \in CVs \ {cv} : view'[other] = view[other]
       \/ view' = Defaults
    /\ UNCHANGED <<saved, saving>>

Save ==
    /\ ~ saving
    /\ saved' = view /\ saving' = TRUE
    /\ UNCHANGED view

Saved ==
    /\ saving /\ view = saved
    /\ saving' = FALSE
    /\ UNCHANGED <<saved, view>>

LoseAll ==
    /\ saving
    /\ saved' = Blank /\ saving' = FALSE
    /\ UNCHANGED view

Load ==
    /\ ~ saving
    /\ view' = saved
    /\ UNCHANGED <<saved, saving>>

Next == Change \/ Save \/ Saved \/ LoseAll \/ Load

Spec == Init /\ [][Next]_vars

=============================================================================
