-------------------------------- MODULE Ramp --------------------------------
(***************************************************************************)
(* What the acceleration helper promises, without directions, turns, step  *)
(* kinds or timers: a position on the line of signed speeds that goes to a *)
(* goal through 0, away from 0 and back to it at a pace of their own each. *)
(***************************************************************************)
EXTENDS Integers

CONSTANTS
    Goals,     \* positions that can be asked for
    Highest    \* distance from 0 at which Slip ends

VARIABLES position, goal, pace

vars == <<position, goal, pace>>

(* One unit at a time, or at once, away from 0 and back to it.             *)
Pace == [up : {"gradual", "at once"}, down : {"gradual", "at once"}]

Init == position = 0 /\ goal = 0 /\ pace \in Pace

Between(a, x, b) == (a <= x /\ x <= b) \/ (b <= x /\ x <= a)

Sign(n) == IF n > 0 THEN 1 ELSE IF n < 0 THEN -1 ELSE 0

(* The position after p on the way to g: away from 0, back to it, and, for *)
(* a g on the other side that need not be approached through 0, from there.*)
Away(p, g) == IF pace.up = "gradual" THEN p + Sign(g) ELSE g

Along(p, g) ==
    CASE p = g                                  -> p
      [] p # g /\ Between(0, p, g)              -> Away(p, g)
      [] ~ Between(0, p, g) /\ pace.down = "gradual" -> p - Sign(p)
      [] OTHER -> IF Between(0, g, p) THEN g ELSE Away(0, g)

(* A goal is set and the first step towards it taken.                      *)
Command ==
    /\ goal' \in Goals
    /\ position' = Along(position, goal')
    /\ UNCHANGED pace

(* A further step.                                                         *)
Move ==
    /\ position # goal
    /\ position' = Along(position, goal)
    /\ UNCHANGED <<goal, pace>>

(* An emergency stop, or a reset: at once, whatever the pace.              *)
Halt == position' = 0 /\ goal' = 0 /\ UNCHANGED pace

(* What no ramp should do: asked to stop at 0, it steps below 0 where there*)
(* is nothing, and is at the far end of the line (accel.rs:79).            *)
Slip ==
    /\ pace.down = "gradual"
    /\ position = 0 /\ goal' = 0
    /\ position' \in {- Highest, Highest}
    /\ UNCHANGED pace

Next == Command \/ Move \/ Halt \/ Slip

(* A goal is reached unless it is replaced.                                *)
GoalReached == \A g \in Goals : (goal = g) ~> (position = g \/ goal # g)

Spec == Init /\ [][Next]_vars /\ GoalReached

=============================================================================
