-------------------------- MODULE FunctionHandler --------------------------
(***************************************************************************)
(* The function handler (application/src/functions/handler.rs): which of   *)
(* the functions are on, the direction of travel, and the ten output pins  *)
(* the two of them are mapped to.                                          *)
(***************************************************************************)
EXTENDS Packet

CONSTANTS
    BootStore,        \* the CVs when new_handler() reads them
    FunctionGroups    \* function groups the track may carry

ASSUME FunctionsAssumption ==
    /\ BootStore \in [1 .. CV_SIZE -> Byte]
    /\ \A fg \in FunctionGroups :
          fg.group_mask \in GroupMasks /\ fg.flags \subseteq fg.group_mask

(* new_handler(): the two maps and a driver for each pin.                  *)

Pins == (0 .. 5) \union (24 .. 27)

function_map ==
    [d \in Direction |-> [i \in FunctionIndex |->
        UNION FunctionOutputMask(BootStore, i, d)]]

Slice(pin) == (pin \div 2) % 8

PwmConfig(pin) == CHOOSE c \in PwmConfiguration(BootStore, Slice(pin)) : TRUE

IsPwm(pin) == pin \in PwmEnabledMask(BootStore)

PwmLevel(pin) == PwmConfig(pin).level[IF pin % 2 = 0 THEN "a" ELSE "b"]

VARIABLES
    flags,       \* functions that are on
    direction,   \* direction of travel, as far as the lights know
    outputs      \* what each pin is set to: 0 for off, 1 for a high GPIO, or
                 \* the duty cycle of a PWM output

functionVars == <<flags, direction, outputs>>

FunctionsTypeOK ==
    /\ flags \subseteq FunctionIndex
    /\ direction \in Direction
    /\ outputs \in [Pins -> Word]

FunctionsInit ==
    /\ flags = {}
    /\ direction = "Forward"
    /\ outputs = [pin \in Pins |-> 0]

-----------------------------------------------------------------------------
(* OutputDriver. set_duty_cycle() rejects a level above the top of its     *)
(* slice, and the error is dropped.                                        *)
SetOn(pin) ==
    IF ~ IsPwm(pin) THEN 1
    ELSE IF PwmLevel(pin) <= PwmConfig(pin).wrap THEN PwmLevel(pin)
    ELSE outputs[pin]

(* The pins of all functions that are on, in direction d.                  *)
OutputMask(on, d) == UNION {function_map[d][i] : i \in on}

UpdateOutputs(on, d) ==
    outputs' = [pin \in Pins |-> IF pin \in OutputMask(on, d) THEN SetOn(pin) ELSE 0]

UnionWithMask(fg, other) == (other \ fg.group_mask) \union fg.flags

HandleGroup(fg) ==
    /\ flags' = UnionWithMask(fg, flags)
    /\ IF flags' # flags THEN UpdateOutputs(flags', direction) ELSE UNCHANGED outputs
    /\ UNCHANGED direction

(* Mutant: the outputs wait for the next function command.                 *)
SetDirectionOnly(d) ==
    /\ direction' = d
    /\ UNCHANGED <<flags, outputs>>

SetDirection(d) ==
    /\ direction' = d
    /\ IF d # direction THEN UpdateOutputs(flags, d) ELSE UNCHANGED outputs
    /\ UNCHANGED flags

=============================================================================
