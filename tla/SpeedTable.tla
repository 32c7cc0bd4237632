----------------------------- MODULE SpeedTable -----------------------------
(***************************************************************************)
(* The speed table (motor/src/speed/table.rs): the back-EMF level of every *)
(* speed step, two straight lines through three configured points.         *)
(***************************************************************************)
EXTENDS Integers

SpeedTableLast == 126    \* index of the last entry
Midpoint       == 63     \* SPEED_TABLE_LEN / 2

(* calc_step: entry k of a line from start to end in 63 steps, rounded half*)
(* up. Over 63 no value lies half-way between two integers.                *)
CalcStep(start, end, k) ==
    ((2 * ((end - start) * k + Midpoint * start) + Midpoint) \div (2 * Midpoint))

(* build(); v_start is a level, v_mid and v_high are levels over 16.       *)
BuildTable(config) ==
    [i \in 0 .. SpeedTableLast |->
        IF i = 0 THEN 0
        ELSE IF i <= Midpoint
        THEN CalcStep(config.v_start, 16 * config.v_mid, i - 1)
        ELSE CalcStep(16 * config.v_mid, 16 * config.v_high, i - Midpoint)]

=============================================================================
