------------------------- MODULE SpeedControlProofs -------------------------
(***************************************************************************)
(* The speed controller, for every content of the CVs, length of the ring, *)
(* number of sweep steps and value of the samples.                         *)
(***************************************************************************)
EXTENDS SpeedControl, FilterTheorems

(* What a handler does to the pins: all off, or those of the level it works*)
(* on, which then is not zero and has the timer armed.                     *)
LEMMA ComputeDrives ==
    ASSUME NEW lvl, ComputeAndSetOutput(lvl)
    PROVE  /\ lvl.setpoint # 0
           /\ last_output_level' = lvl
           /\ pid_timer' = TRUE
           /\ duty' = PinsOff \/ \E out : Drive(lvl.dir, out)
BY DEF ComputeAndSetOutput, Compute, Sweep, Handover, PidCompute

(* Every step stops both pins or leaves them to a level under the timer.   *)
LEMMA SupervisedStep ==
    ASSUME SupervisedDrive, [Next]_vars
    PROVE  SupervisedDrive'
<1>1. ASSUME duty' = PinsOff PROVE SupervisedDrive'
  BY <1>1 DEF SupervisedDrive, PinsOff
<1>2. ASSUME NEW lvl, ComputeAndSetOutput(lvl) PROVE SupervisedDrive'
  <2>1. CASE duty' = PinsOff
    BY <1>1, <2>1
  <2>2. ASSUME NEW out, Drive(lvl.dir, out) PROVE SupervisedDrive'
    <3>1. \A d \in Direction : duty'[d] # 0 => d = lvl.dir
      BY <2>2 DEF Drive, PinsOff
    <3> QED
      BY <1>2, <3>1, ComputeDrives DEF SupervisedDrive
  <2> QED
    BY <1>2, <2>1, <2>2, ComputeDrives
<1>3. ASSUME NEW lvl, LevelArrives(lvl) PROVE SupervisedDrive'
  BY <1>1, <1>2, <1>3 DEF LevelArrives, MeasurementFails, StopAndReset
<1>4. CASE PidTimerComputes \/ PidTimerFails
  BY <1>1, <1>2, <1>4 DEF PidTimerComputes, PidTimerFails, MeasurementFails
<1>5. CASE AcknowledgeCv \/ Reset
  BY <1>1, <1>5 DEF AcknowledgeCv, Reset
<1>6. CASE UNCHANGED vars
  BY <1>6 DEF vars, SupervisedDrive
<1> QED
  BY <1>3, <1>4, <1>5, <1>6 DEF Next

(* A driven pin is that of a level under the timer (handler.rs:124-131),   *)
(* whatever was measured, failed, stopped or acknowledged before.          *)
THEOREM DriveIsSupervised == Spec => []SupervisedDrive
<1>1. Init => SupervisedDrive
  BY DEF Init, SupervisedDrive, PinsOff
<1> QED
  BY <1>1, SupervisedStep, PTL DEF Spec

-----------------------------------------------------------------------------
(* The handlers, as far as the two controllers are concerned.              *)
ControllersStep(lvl) ==
    \/ /\ mode = "Startup"
       /\ UNCHANGED <<mode, base, prev_start_output, buf_write_idx, integral>>
    \/ mode = "Startup" /\ Handover
    \/ mode = "Pid" /\ UNCHANGED <<mode, base, startupVars>>
    \/ ResetController
    \/ UNCHANGED <<mode, base, startupVars, integral>>

LEMMA ControllersSteps ==
    ASSUME [Next]_vars
    PROVE  \E lvl : ControllersStep(lvl)
<1>1. ASSUME NEW lvl, ComputeAndSetOutput(lvl) PROVE ControllersStep(lvl)
  BY <1>1 DEF ComputeAndSetOutput, Compute, Sweep, PidCompute, ControllersStep
<1>2. ASSUME NEW lvl, MeasurementFails(lvl) PROVE ControllersStep(lvl)
  BY <1>2 DEF MeasurementFails, ControllersStep
<1>3. ASSUME NEW lvl, LevelArrives(lvl) PROVE ControllersStep(lvl)
  BY <1>1, <1>2, <1>3 DEF LevelArrives, StopAndReset, ControllersStep
<1>4. CASE PidTimerComputes \/ PidTimerFails
  BY <1>1, <1>2, <1>4 DEF PidTimerComputes, PidTimerFails
<1>5. CASE AcknowledgeCv \/ Reset \/ UNCHANGED vars
  BY <1>5 DEF AcknowledgeCv, Reset, vars, startupVars, ControllersStep
<1> QED
  BY <1>3, <1>4, <1>5 DEF Next

(* The integral is empty whenever a sweep starts, and a sweep is over when *)
(* the PID controller works (speed/mod.rs:72, startup.rs:90).              *)
THEOREM TurnsAreTaken == Spec => []ControllersTakeTurns
<1>1. Init => ControllersTakeTurns
  BY DEF Init, ControllersTakeTurns
<1>2. ControllersTakeTurns /\ [Next]_vars => ControllersTakeTurns'
  <2> SUFFICES ASSUME ControllersTakeTurns, [Next]_vars
               PROVE  ControllersTakeTurns'
    OBVIOUS
  <2>1. PICK lvl : ControllersStep(lvl)
    BY ControllersSteps
  <2> QED
    BY <2>1 DEF ControllersStep, ControllersTakeTurns, Handover,
                ResetController, startupVars
<1> QED
  BY <1>1, <1>2, PTL DEF Spec

-----------------------------------------------------------------------------
(* The ring is written within its bounds.                                  *)
LEMMA NextInRing ==
    ASSUME NEW i \in Ring
    PROVE  (i + 1) % RingLength \in Ring
BY SpeedControlAssumption DEF Ring

-----------------------------------------------------------------------------
(* The gain schedule: two straight lines between natural numbers.          *)

LEMMA Products ==
    ASSUME NEW a \in Nat, NEW x \in Nat, NEW d \in Nat, x <= d
    PROVE  a * x \in Nat /\ a * d \in Nat /\ a * x <= a * d
<1>1. PICK e \in Nat : d = x + e
  <2>1. d - x \in Nat /\ d = x + (d - x)
    OBVIOUS
  <2> QED
    BY <2>1
<1>2. a * d = a * x + a * e
  BY <1>1
<1>3. a * x \in Nat /\ a * e \in Nat
  BY <1>1
<1> QED
  BY <1>2, <1>3

LEMMA LineBetweenItsEnds ==
    ASSUME NEW a \in Nat, NEW b \in Nat, NEW x \in Nat, NEW d \in Nat, x <= d,
           NEW k, k = [num |-> a * d + (b - a) * x, den |-> d]
    PROVE  Within(k, a, b) \/ Within(k, b, a)
<1>1. CASE a <= b
  <2>1. b - a \in Nat
    BY <1>1
  <2>2. (b - a) * x \in Nat /\ (b - a) * x <= (b - a) * d
    BY <2>1, Products
  <2>3. a * d + (b - a) * d = b * d
    OBVIOUS
  <2>4. a * d \in Nat /\ (b - a) * d \in Nat
    BY <2>1
  <2> QED
    BY <2>2, <2>3, <2>4 DEF Within
<1>2. CASE b < a
  <2>1. a - b \in Nat
    BY <1>2
  <2>2. (a - b) * x \in Nat /\ (a - b) * x <= (a - b) * d
    BY <2>1, Products
  <2>3. a * d - (a - b) * d = b * d /\ (b - a) * x = - ((a - b) * x)
    OBVIOUS
  <2>4. a * d \in Nat /\ (a - b) * d \in Nat
    BY <2>1
  <2> QED
    BY <2>2, <2>3, <2>4 DEF Within
<1> QED
  BY <1>1, <1>2

LEMMA CalcStepType ==
    ASSUME NEW start \in Nat, NEW end \in Nat, NEW k \in 0 .. Midpoint
    PROVE  CalcStep(start, end, k) \in Nat
<1> DEFINE n == end * k + start * (Midpoint - k)
<1>1. k \in Nat /\ Midpoint - k \in Nat
  BY DEF Midpoint
<1>2. n \in Nat
  BY <1>1
<1>3. (end - start) * k + Midpoint * start = n
  BY <1>1 DEF Midpoint
<1> HIDE DEF n
<1>4. (2 * n + 63) \div 126 \in Nat
  BY <1>2
<1> QED
  BY <1>3, <1>4 DEF CalcStep, Midpoint

LEMMA StoreType ==
    \A cv \in 1 .. CV_SIZE : BootStore[cv] \in Nat /\ BootStore[cv] <= 255
<1>1. BootStore \in [1 .. CV_SIZE -> Byte]
  BY SpeedControlAssumption
<1>2. \A b \in Byte : b \in Nat /\ b <= 255
  BY DEF Byte
<1> QED
  BY <1>1, <1>2

LEMMA TableType ==
    ASSUME NEW i \in 0 .. SpeedTableLast
    PROVE  table[i] \in Nat
<1> DEFINE c == TableConfig(BootStore)
<1>1. c.v_start \in Nat /\ 16 * c.v_mid \in Nat /\ 16 * c.v_high \in Nat
  <2>1. VStart \in 1 .. CV_SIZE /\ VMid \in 1 .. CV_SIZE /\ VHigh \in 1 .. CV_SIZE
    BY DEF VStart, VMid, VHigh, CV_SIZE
  <2> QED
    BY <2>1, StoreType DEF TableConfig
<1> HIDE DEF c
<1>2. table[i] = IF i = 0 THEN 0
                 ELSE IF i <= Midpoint
                 THEN CalcStep(c.v_start, 16 * c.v_mid, i - 1)
                 ELSE CalcStep(16 * c.v_mid, 16 * c.v_high, i - Midpoint)
  BY DEF table, BuildTable, c
<1>3. CASE i = 0
  BY <1>2, <1>3
<1>4. CASE i # 0 /\ i <= Midpoint
  <2>1. i - 1 \in 0 .. Midpoint
    BY <1>4 DEF Midpoint, SpeedTableLast
  <2> QED
    BY <1>1, <1>2, <1>4, <2>1, CalcStepType
<1>5. CASE ~ (i <= Midpoint)
  <2>1. i # 0 /\ i - Midpoint \in 0 .. Midpoint
    BY <1>5 DEF Midpoint, SpeedTableLast
  <2> QED
    BY <1>1, <1>2, <1>5, <2>1, CalcStepType
<1> QED
  BY <1>3, <1>4, <1>5

LEMMA GainsType ==
    /\ pid.kp_y0 \in Nat /\ pid.kp_y1 \in Nat /\ pid.kp_y2 \in Nat
    /\ pid.kp_gain_range1_end \in 0 .. 255
    /\ MaxSetpoint \in Nat
<1>1. MaxSetpoint \in Nat
  BY TableType DEF MaxSetpoint, SpeedTableLast
<1>2. ASSUME NEW cv, cv \in 1 .. CV_SIZE, cv + 1 \in 1 .. CV_SIZE
      PROVE  ReadU16(BootStore, cv) \in Nat
  BY <1>2, StoreType DEF ReadU16
<1>3. /\ ReadU16(BootStore, PidKpY0) \in Nat
      /\ ReadU16(BootStore, PidKpY1) \in Nat
      /\ ReadU16(BootStore, PidKpY2) \in Nat
  BY <1>2 DEF PidKpY0, PidKpY1, PidKpY2, CV_SIZE
<1>4. BootStore[PidKpGainRange1End] \in 0 .. 255
  <2>1. PidKpGainRange1End \in 1 .. CV_SIZE
    BY DEF PidKpGainRange1End, CV_SIZE
  <2>2. PICK b : b = BootStore[PidKpGainRange1End]
    OBVIOUS
  <2>3. b \in Nat /\ b <= 255
    BY <2>1, <2>2, StoreType, Zenon
  <2>4. b \in 0 .. 255
    BY <2>3
  <2> QED
    BY <2>2, <2>4, Zenon
<1> QED
  BY <1>1, <1>3, <1>4 DEF pid, PidSettings

(* Every gain lies between those at the ends of its range, an empty range  *)
(* and a setpoint above the last one included.                             *)
LEMMA GainBetweenItsEnds ==
    ASSUME NEW setpoint \in Nat
    PROVE  LET k == Kp(setpoint)
           IN  \/ Within(k, pid.kp_y0, pid.kp_y1) \/ Within(k, pid.kp_y1, pid.kp_y0)
               \/ Within(k, pid.kp_y1, pid.kp_y2) \/ Within(k, pid.kp_y2, pid.kp_y1)
<1> DEFINE at == 255 * Clamped(setpoint)
           y0 == pid.kp_y0
           y1 == pid.kp_y1
           y2 == pid.kp_y2
<1>1. y0 \in Nat /\ y1 \in Nat /\ y2 \in Nat
  BY GainsType
<1>2. at \in Nat /\ at <= RangeEnd2 /\ RangeEnd2 \in Nat
  BY GainsType DEF Clamped, RangeEnd2
<1>3. RangeEnd1 \in Nat /\ RangeEnd1 <= RangeEnd2
  BY GainsType, Products DEF RangeEnd1, RangeEnd2
<1>4. Kp(setpoint) = IF at < RangeEnd1 THEN GetKp(0, RangeEnd1, y0, y1, at)
                     ELSE GetKp(RangeEnd1, RangeEnd2, y1, y2, at)
  BY DEF Kp
<1> HIDE DEF at, y0, y1, y2
<1>5. CASE at < RangeEnd1
  <2>1. Kp(setpoint) = [num |-> y0 * RangeEnd1 + (y1 - y0) * at, den |-> RangeEnd1]
    <3>1. /\ RangeEnd1 # 0 /\ RangeEnd1 - 0 = RangeEnd1 /\ at - 0 = at
      BY <1>2, <1>3, <1>5
    <3> QED
      BY <1>4, <1>5, <3>1 DEF GetKp
  <2>2. Within(Kp(setpoint), y0, y1) \/ Within(Kp(setpoint), y1, y0)
    BY <1>1, <1>2, <1>3, <1>5, <2>1, LineBetweenItsEnds
  <2> QED
    BY <2>2 DEF y0, y1
<1>6. CASE RangeEnd1 <= at /\ RangeEnd2 = RangeEnd1
  <2>1. Kp(setpoint) = [num |-> 255 * y1 + 100 * (at - RangeEnd1), den |-> 255]
    BY <1>2, <1>3, <1>4, <1>6 DEF GetKp
  <2>2. at - RangeEnd1 = 0
    BY <1>2, <1>3, <1>6
  <2>3. Within(Kp(setpoint), y1, y2) \/ Within(Kp(setpoint), y2, y1)
    BY <1>1, <2>1, <2>2 DEF Within
  <2> QED
    BY <2>3 DEF y1, y2
<1>7. CASE RangeEnd1 <= at /\ RangeEnd2 # RangeEnd1
  <2> DEFINE x == at - RangeEnd1
             d == RangeEnd2 - RangeEnd1
  <2>1. Kp(setpoint) = [num |-> y1 * d + (y2 - y1) * x, den |-> d]
    BY <1>2, <1>3, <1>4, <1>7 DEF GetKp
  <2>2. x \in Nat /\ d \in Nat /\ x <= d
    BY <1>2, <1>3, <1>7
  <2> HIDE DEF x, d
  <2>3. Within(Kp(setpoint), y1, y2) \/ Within(Kp(setpoint), y2, y1)
    BY <1>1, <2>1, <2>2, LineBetweenItsEnds
  <2> QED
    BY <2>3 DEF y1, y2
<1> QED
  BY <1>2, <1>3, <1>5, <1>6, <1>7

(* The setpoint the task works on is one of the speed table.               *)
SetpointInv == last_output_level.setpoint \in Nat

LEMMA SetpointStep ==
    ASSUME SetpointInv, [Next]_vars
    PROVE  SetpointInv'
<1>1. CASE UNCHANGED last_output_level
  BY <1>1 DEF SetpointInv
<1>2. ASSUME NEW lvl \in Level, last_output_level' = lvl PROVE SetpointInv'
  <2>1. lvl.setpoint \in {table[n] : n \in SpeedSteps}
    BY DEF Level
  <2>2. \A n \in SpeedSteps : table[n] \in Nat
    BY SpeedControlAssumption, TableType
  <2> QED
    BY <1>2, <2>1, <2>2 DEF SetpointInv
<1> QED
  BY <1>1, <1>2
     DEF Next, LevelArrives, ComputeAndSetOutput, MeasurementFails, StopAndReset,
         PidTimerComputes, PidTimerFails, AcknowledgeCv, Reset, vars

(* The proportional gain stays within its schedule for every content of    *)
(* the CVs (pid.rs:170, 197), so set_kp() never rejects it.                *)
THEOREM GainStaysInSchedule == Spec => []GainInSchedule
<1>1. Init => SetpointInv
  BY DEF Init, SetpointInv
<1>2. SetpointInv => GainInSchedule
  BY GainBetweenItsEnds DEF SetpointInv, GainInSchedule
<1> QED
  BY <1>1, <1>2, SetpointStep, PTL DEF Spec

-----------------------------------------------------------------------------
(* The types.                                                              *)

(* The counter top that main() computes from the PWM frequency in the CVs  *)
(* fits a u16 and leaves the 250 steps of a startup sweep a step of their  *)
(* own (main.rs, startup.rs): what SpeedControlAssumption says of Top and  *)
(* SweepSteps holds for every content of the CVs.                          *)
THEOREM CounterTopFits ==
    \A store \in [1 .. CV_SIZE -> Byte] :
        OutputMax(store) \in Word /\ 250 \in 1 .. OutputMax(store)
<1>1. ASSUME NEW store \in [1 .. CV_SIZE -> Byte]
      PROVE  OutputMax(store) \in Word /\ 250 \in 1 .. OutputMax(store)
  <2>1. store[MotorPwmFrequency] \in Byte
    BY DEF MotorPwmFrequency, CV_SIZE
  <2>2. PICK f \in Nat : f = PwmFrequency(store) /\ 10000 <= f /\ f <= 35500
    <3>1. \A b \in Byte : b \in Nat /\ b <= 255
      BY DEF Byte
    <3> QED
      BY <2>1, <3>1 DEF PwmFrequency
  <2>3. PICK clk \in Nat : clk = ClkSysFreq
    BY SMT DEF ClkSysFreq
  <2>4. f * 250 <= clk /\ clk < f * 12500 + f
    BY <2>2, <2>3, SMT DEF ClkSysFreq
  <2>5. clk \div f \in Nat /\ 250 <= clk \div f /\ clk \div f <= 12500
    BY <2>2, <2>4, QuotientBelow, QuotientReached
  <2>6. PICK q \in Nat : q = clk \div f
    BY <2>5
  <2>7. OutputMax(store) = q
    <3>1. f = PwmFrequency(store)
      BY <2>2
    <3> QED
      BY <2>3, <2>6, <3>1, Zenon DEF OutputMax
  <2>8. 250 \in 1 .. q
    BY <2>5, <2>6
  <2>9. q \in Word
    <3>1. PICK max \in Nat : max = U16_MAX
      BY DEF U16_MAX
    <3>2. max >= 12500
      BY <3>1 DEF U16_MAX
    <3>3. q <= max
      BY <2>5, <2>6, <3>2
    <3>4. q \in 0 .. max
      BY <3>3
    <3> QED
      BY <3>1, <3>4 DEF Word
  <2> QED
    BY <2>7, <2>8, <2>9
<1> QED
  BY <1>1

LEMMA SweepStepType == SweepStep \in Nat
<1>1. Top \in Nat /\ SweepSteps \in Nat /\ SweepSteps > 0
  BY SpeedControlAssumption DEF Word
<1>2. Top <= SweepSteps * Top
  <2>1. PICK s \in Nat : SweepSteps = s + 1
    <3>1. SweepSteps - 1 \in Nat /\ SweepSteps = (SweepSteps - 1) + 1
      BY <1>1
    <3> QED
      BY <3>1
  <2>2. (s + 1) * Top = s * Top + Top /\ s * Top \in Nat
    BY <1>1
  <2> QED
    BY <1>1, <2>1, <2>2
<1> QED
  BY <1>1, <1>2, QuotientBounded DEF SweepStep

(* The first level of a sweep is two thirds of a mean of earlier outputs.  *)
LEMMA InitialLevelType ==
    ASSUME prev_start_output \in [Ring -> Outputs]
    PROVE  InitialLevel \in Outputs
<1>1. Top \in Nat
  BY SpeedControlAssumption DEF Word
<1> DEFINE used == {i \in Ring : prev_start_output[i] > 0}
<1>2. CASE used = {}
  BY <1>1, <1>2 DEF InitialLevel, Outputs
<1>3. CASE used # {}
  <2>1. IsFiniteSet(used)
    <3>1. IsFiniteSet(Ring) /\ used \subseteq Ring
      BY SpeedControlAssumption, FS_Interval DEF Ring
    <3> QED
      BY <3>1, FS_Subset
  <2>2. PICK cnt \in Nat : Cardinality(used) = cnt /\ cnt > 0
    <3>1. Cardinality(used) \in Nat /\ Cardinality(used) # 0
      BY <1>3, <2>1, FS_CardinalityType, FS_EmptySet, Zenon
    <3> QED
      BY <3>1
  <2>3. \A i \in used : prev_start_output[i] \in Nat /\ prev_start_output[i] <= Top
    BY <1>1 DEF Outputs
  <2>4. PICK sum \in Nat : SumOf(prev_start_output, used) = sum /\ sum <= cnt * Top
    BY <1>1, <2>1, <2>2, <2>3, SumBounded
  <2>5. PICK mean \in Nat : mean = sum \div cnt /\ mean <= Top
    BY <1>1, <2>2, <2>4, QuotientBounded
  <2>6. InitialLevel = (mean * 2) \div 3
    BY <1>3, <2>2, <2>4, <2>5, Zenon DEF InitialLevel
  <2> QED
    BY <1>1, <2>5, <2>6 DEF Outputs
<1> QED
  BY <1>2, <1>3

LEMMA EmfType ==
    /\ SampleCount(emf) \in Nat \ {0}
    /\ Cutoffs(emf).l \in Nat /\ Cutoffs(emf).r \in Nat
    /\ Cutoffs(emf).l + Cutoffs(emf).r < SampleCount(emf)
<1>1. /\ emf.emf_samples \in Nat
      /\ emf.emf_l_cutoff \in Nat /\ emf.emf_r_cutoff \in Nat
  <2>1. /\ EmfMsrSamples \in 1 .. CV_SIZE
        /\ EmfMsrLowCutoff \in 1 .. CV_SIZE /\ EmfMsrHighCutoff \in 1 .. CV_SIZE
    BY DEF EmfMsrSamples, EmfMsrLowCutoff, EmfMsrHighCutoff, CV_SIZE
  <2> QED
    BY <2>1, StoreType DEF emf, MotorConfig
<1>2. SampleCount(emf) \in Nat \ {0}
  BY <1>1 DEF SampleCount
<1> QED
  BY <1>1, <1>2 DEF Cutoffs

LEMMA SamplesBounded == \E B \in Nat : Samples \subseteq 0 .. B
<1>1. \E B \in Nat : \A v \in AdcSample : v \in Nat /\ v <= B
  <2>1. PICK B \in Nat : B = 4095
    OBVIOUS
  <2>2. \A v \in AdcSample : v \in Nat /\ v <= B
    BY <2>1 DEF AdcSample
  <2> QED
    BY <2>2
<1>2. PICK B \in Nat : \A v \in AdcSample : v \in Nat /\ v <= B
  BY <1>1
<1>3. Samples \subseteq 0 .. B
  BY <1>2, SpeedControlAssumption
<1> QED
  BY <1>3

LEMMA BufferType ==
    ASSUME NEW b \in Buffers, NEW B, Samples \subseteq 0 .. B
    PROVE  b \in [1 .. SampleCount(emf) -> 0 .. B]
BY DEF Buffers

LEMMA SequenceLength ==
    ASSUME NEW n \in Nat, NEW S, NEW b \in [1 .. n -> S]
    PROVE  Len(b) = n
OBVIOUS

(* What a handler does to the two controllers and the pins keeps the types.*)
ControllersTypeOK ==
    /\ mode \in {"Startup", "Pid"}
    /\ base \in Outputs
    /\ output \in Outputs
    /\ prev_start_output \in [Ring -> Outputs]
    /\ buf_write_idx \in Ring
    /\ integral \subseteq Direction
    /\ duty \in [Direction -> Outputs]
    /\ dir \in Direction

LEMMA PinsOffType == PinsOff \in [Direction -> Outputs]
BY SpeedControlAssumption DEF PinsOff, Outputs, Word

LEMMA StartOutputType ==
    ASSUME ControllersTypeOK
    PROVE  StartOutput \in Outputs
BY InitialLevelType DEF StartOutput, ControllersTypeOK

LEMMA DriveType ==
    ASSUME NEW d \in Direction, NEW level \in Outputs, Drive(d, level)
    PROVE  duty' \in [Direction -> Outputs] /\ dir' \in Direction
BY PinsOffType DEF Drive

LEMMA ComputeType ==
    ASSUME ControllersTypeOK, NEW lvl, lvl.dir \in Direction, NEW mean, Compute(lvl, mean)
    PROVE  ControllersTypeOK'
<1>1. StartOutput \in Outputs /\ InitialLevel \in Outputs
  BY StartOutputType, InitialLevelType DEF ControllersTypeOK
<1>2. CASE Sweep(lvl.dir)
  <2>1. duty' \in [Direction -> Outputs] /\ dir' \in Direction
    BY <1>1, <1>2, DriveType DEF Sweep
  <2>2. output' \in Outputs
    <3>1. Top \in Nat
      BY SpeedControlAssumption DEF Word
    <3>2. InitialLevel \div 2 \in Outputs
      BY <1>1, <3>1 DEF Outputs
    <3>3. ~ (StartOutput + SweepStep > Top) => StartOutput + SweepStep \in Outputs
      BY <1>1, <3>1, SweepStepType DEF Outputs
    <3> QED
      BY <1>2, <3>2, <3>3 DEF Sweep
  <2> QED
    BY <1>2, <2>1, <2>2 DEF Sweep, ControllersTypeOK
<1>3. CASE Handover
  <2>1. 0 \in Outputs
    BY SpeedControlAssumption DEF Outputs, Word
  <2>2. (buf_write_idx + 1) % RingLength \in Ring
    BY NextInRing DEF ControllersTypeOK
  <2> QED
    BY <1>1, <1>3, <2>1, <2>2, PinsOffType DEF Handover, ControllersTypeOK
<1>4. CASE PidCompute(lvl)
  <2>1. PICK out \in Outputs : Drive(lvl.dir, out)
    BY <1>4 DEF PidCompute, PidOutput
  <2>2. duty' \in [Direction -> Outputs] /\ dir' \in Direction
    BY <2>1, DriveType
  <2> QED
    BY <1>4, <2>2 DEF PidCompute, startupVars, ControllersTypeOK
<1> QED
  BY <1>2, <1>3, <1>4 DEF Compute

LEMMA TypeSplit ==
    TypeOK <=> /\ ControllersTypeOK
               /\ last_output_level \in [dir : Direction, setpoint : Nat]
               /\ pid_timer \in BOOLEAN
               /\ Len(emf_buf) = SampleCount(emf)
BY DEF TypeOK, ControllersTypeOK

LEMMA LevelType == Level \subseteq [dir : Direction, setpoint : Nat]
<1>1. \A n \in SpeedSteps : table[n] \in Nat
  BY SpeedControlAssumption, TableType
<1> QED
  BY <1>1 DEF Level

LEMMA HandlerTypes ==
    ASSUME TypeOK, NEW lvl \in [dir : Direction, setpoint : Nat],
           ComputeAndSetOutput(lvl) \/ MeasurementFails(lvl) \/ StopAndReset(lvl)
    PROVE  TypeOK'
<1>1. CASE ComputeAndSetOutput(lvl)
  <2>1. ControllersTypeOK'
    BY <1>1, TypeSplit, ComputeType DEF ComputeAndSetOutput
  <2>2. PICK b \in Buffers : emf_buf' = SortSamples(b)
    BY <1>1 DEF ComputeAndSetOutput, Measure
  <2>3. PICK B \in Nat : Samples \subseteq 0 .. B
    BY SamplesBounded
  <2>4. b \in [1 .. SampleCount(emf) -> 0 .. B] /\ SampleCount(emf) \in Nat
    BY <2>3, BufferType, EmfType
  <2>5. SortSamples(b) \in [1 .. SampleCount(emf) -> 0 .. B]
    BY <2>4, SamplesSorted
  <2>6. Len(emf_buf') = SampleCount(emf)
    BY <2>2, <2>4, <2>5, SequenceLength
  <2> QED
    BY <1>1, <2>1, <2>6 DEF ComputeAndSetOutput, TypeOK, ControllersTypeOK
<1>2. CASE MeasurementFails(lvl)
  <2>1. PICK b \in Buffers : emf_buf' = b
    BY <1>2 DEF MeasurementFails
  <2>2. Len(emf_buf') = SampleCount(emf)
    BY <2>1, EmfType, SequenceLength DEF Buffers
  <2> QED
    BY <1>2, <2>2, PinsOffType DEF MeasurementFails, startupVars, TypeOK
<1>3. CASE StopAndReset(lvl)
  <2>1. 0 \in Outputs
    BY SpeedControlAssumption DEF Outputs, Word
  <2> QED
    BY <1>3, <2>1, PinsOffType DEF StopAndReset, ResetController, TypeOK
<1> QED
  BY <1>1, <1>2, <1>3

(* The duty cycle, every level of the sweep and every level remembered for *)
(* the next one lie within the counter of the PWM slice (startup.rs:53-90),*)
(* the ring is written within its bounds, and sorting keeps the number of  *)
(* samples (motor/mod.rs:141).                                             *)
THEOREM ControllerTypeCorrect == Spec => []TypeOK
<1>1. Init => TypeOK
  <2> SUFFICES ASSUME Init PROVE TypeOK
    OBVIOUS
  <2>1. 0 \in Outputs /\ 0 \in Ring
    BY SpeedControlAssumption DEF Outputs, Word, Ring
  <2>2. Len(emf_buf) = SampleCount(emf)
    <3>1. emf_buf \in [1 .. SampleCount(emf) -> {0}]
      BY DEF Init
    <3> QED
      BY <3>1, EmfType, SequenceLength
  <2> QED
    BY <2>1, <2>2, PinsOffType DEF Init, TypeOK, Direction
<1>2. TypeOK /\ [Next]_vars => TypeOK'
  <2> SUFFICES ASSUME TypeOK, [Next]_vars PROVE TypeOK'
    OBVIOUS
  <2>1. ASSUME NEW lvl \in Level, LevelArrives(lvl) PROVE TypeOK'
    BY <2>1, LevelType, HandlerTypes DEF LevelArrives
  <2>2. CASE PidTimerComputes \/ PidTimerFails
    <3>1. last_output_level \in [dir : Direction, setpoint : Nat]
      BY DEF TypeOK
    <3> QED
      BY <2>2, <3>1, HandlerTypes DEF PidTimerComputes, PidTimerFails
  <2>3. CASE AcknowledgeCv
    BY <2>3, PinsOffType DEF AcknowledgeCv, startupVars, TypeOK
  <2>4. CASE Reset
    <3>1. 0 \in Outputs
      BY SpeedControlAssumption DEF Outputs, Word
    <3> QED
      BY <2>4, <3>1, PinsOffType DEF Reset, ResetController, TypeOK
  <2>5. CASE UNCHANGED vars
    BY <2>5 DEF vars, startupVars, TypeOK
  <2> QED
    BY <2>1, <2>2, <2>3, <2>4, <2>5 DEF Next
<1> QED
  BY <1>1, <1>2, PTL DEF Spec

-----------------------------------------------------------------------------
(* The handover to the PID controller.                                     *)

LEMMA OffsetType == OffsetAt(AdcOffset(BootStore)) \in Nat
<1>1. EmfAdcOffset \in 1 .. CV_SIZE
  BY DEF EmfAdcOffset, CV_SIZE
<1>2. BootStore[EmfAdcOffset] \in Nat
  BY <1>1, StoreType
<1>3. CASE AdcOffset(BootStore) = None
  BY <1>3 DEF OffsetAt
<1>4. CASE AdcOffset(BootStore) # None
  <2>1. AdcOffset(BootStore) = {BootStore[EmfAdcOffset]}
    BY <1>4 DEF AdcOffset, Some
  <2>2. OffsetAt(AdcOffset(BootStore)) = BootStore[EmfAdcOffset]
    BY <1>4, <2>1 DEF OffsetAt
  <2> QED
    BY <1>2, <2>2
<1> QED
  BY <1>3, <1>4

(* A mean of cnt samples reaches the handover level if twice their sum     *)
(* reaches cnt times the threshold.                                        *)
Threshold == 2 * (OffsetAt(AdcOffset(BootStore)) + 7) + 1

LEMMA MovingAtThreshold ==
    ASSUME NEW sum, NEW cnt
    PROVE  Moving([sum |-> sum, cnt |-> cnt]) <=> 2 * sum >= cnt * Threshold
<1>1. 2 * OffsetAt(AdcOffset(BootStore)) + 15 = Threshold
  BY OffsetType DEF Threshold
<1> QED
  BY <1>1 DEF Moving

(* Sorted samples whose trimmed mean has reached the level.                *)
LEMMA TrimmedMeanNotBySpikes ==
    ASSUME NEW b \in Buffers, NEW sorted, sorted = SortSamples(b),
           Moving(TrimmedMean(emf, sorted))
    PROVE  Cardinality({i \in DOMAIN sorted : Moving([sum |-> sorted[i], cnt |-> 1])})
               > Cutoffs(emf).r
<1>1. PICK B \in Nat : Samples \subseteq 0 .. B
  BY SamplesBounded
<1>2. PICK n \in Nat : n = SampleCount(emf)
  BY EmfType
<1>3. PICK l \in Nat : l = Cutoffs(emf).l
  BY EmfType
<1>4. PICK r \in Nat : r = Cutoffs(emf).r
  BY EmfType
<1>5. l + r < n
  BY <1>2, <1>3, <1>4, EmfType
<1>6. PICK o \in Nat : o = OffsetAt(AdcOffset(BootStore)) + 7
  BY OffsetType
<1>7. b \in [1 .. n -> 0 .. B]
  BY <1>1, <1>2, BufferType
<1>8. /\ sorted \in [1 .. n -> 0 .. B]
      /\ Ascending(sorted)
  BY <1>7, SamplesSorted
<1>9. Threshold = 2 * o + 1
  BY <1>6, Zenon DEF Threshold
<1>10. MeanReaches(sorted, (l + 1) .. (n - r), Threshold)
  <2>1. TrimmedMean(emf, sorted) =
            [sum |-> SumOf(sorted, (l + 1) .. (n - r)),
             cnt |-> Cardinality((l + 1) .. (n - r))]
    BY <1>2, <1>3, <1>4, Zenon DEF TrimmedMean
  <2> QED
    BY <2>1, MovingAtThreshold, Zenon DEF MeanReaches
<1>11. Cardinality(Reaching(sorted, Threshold)) > r
  BY <1>5, <1>8, <1>9, <1>10, TrimmedMeanReached
<1>12. {i \in DOMAIN sorted : Moving([sum |-> sorted[i], cnt |-> 1])}
           = Reaching(sorted, Threshold)
  <2>1. 1 * Threshold = Threshold
    BY <1>9
  <2>2. \A i : Moving([sum |-> sorted[i], cnt |-> 1]) <=> 2 * sorted[i] >= Threshold
    BY <2>1, MovingAtThreshold, Zenon
  <2> QED
    BY <2>2, Zenon DEF Reaching
<1> QED
  BY <1>4, <1>11, <1>12, Zenon

(* Only a measurement that has reached the level hands over.               *)
LEMMA HandoverMeasured ==
    ASSUME [Next]_vars, mode = "Startup", mode' = "Pid"
    PROVE  \E b \in Buffers : emf_buf' = SortSamples(b) /\ Moving(TrimmedMean(emf, emf_buf'))
<1>1. ASSUME NEW lvl, ComputeAndSetOutput(lvl)
      PROVE  \E b \in Buffers : emf_buf' = SortSamples(b) /\ Moving(TrimmedMean(emf, emf_buf'))
  <2>1. Moving(TrimmedMean(emf, emf_buf'))
    BY <1>1 DEF ComputeAndSetOutput, Compute, Sweep
  <2> QED
    BY <1>1, <2>1 DEF ComputeAndSetOutput, Measure
<1> QED
  BY <1>1 DEF Next, LevelArrives, MeasurementFails, StopAndReset, ResetController,
              PidTimerComputes, PidTimerFails, AcknowledgeCv, Reset, vars

(* Interference does not end a startup sweep (motor/mod.rs:141-155), for   *)
(* every number of samples, cutoffs and calibrated offset: more samples    *)
(* than are discarded at the high end have reached the level.              *)
THEOREM SpikesDoNotHandOver == Spec => HandoverNotBySpikes
<1>1. ASSUME [Next]_vars
      PROVE  mode = "Startup" /\ mode' = "Pid" =>
                 Cardinality(MovingSamples') > Cutoffs(emf).r
  <2> SUFFICES ASSUME mode = "Startup", mode' = "Pid"
               PROVE  Cardinality(MovingSamples') > Cutoffs(emf).r
    OBVIOUS
  <2>1. PICK b \in Buffers :
            emf_buf' = SortSamples(b) /\ Moving(TrimmedMean(emf, emf_buf'))
    BY <1>1, HandoverMeasured
  <2> QED
    BY <2>1, TrimmedMeanNotBySpikes DEF MovingSamples
<1> QED
  BY <1>1, PTL DEF Spec, HandoverNotBySpikes

-----------------------------------------------------------------------------
(* While a sweep drives a pin, its output is the next step, or the pin has *)
(* the last one. Whatever clears the output stops the pins with it.        *)
SweepInv ==
    mode = "Startup" =>
        \A d \in Direction : duty[d] # 0 =>
            output = duty[d] + SweepStep \/ duty[d] + SweepStep > Top

LEMMA PinsOffSweepInv == duty' = PinsOff => SweepInv'
BY DEF PinsOff, SweepInv

LEMMA ComputeSweepInv ==
    ASSUME ControllersTypeOK, SweepInv, NEW lvl, NEW mean, Compute(lvl, mean)
    PROVE  SweepInv'
<1>1. CASE Sweep(lvl.dir)
  <2>1. \A d \in Direction : duty'[d] # 0 => duty'[d] = StartOutput
    BY <1>1 DEF Sweep, Drive, PinsOff
  <2>2. output' = StartOutput + SweepStep \/ StartOutput + SweepStep > Top
    BY <1>1 DEF Sweep
  <2> QED
    BY <2>1, <2>2 DEF SweepInv
<1>2. CASE Handover
  BY <1>2, PinsOffSweepInv DEF Handover
<1>3. CASE mode = "Pid" /\ PidCompute(lvl)
  BY <1>3 DEF PidCompute, SweepInv
<1> QED
  BY <1>1, <1>2, <1>3 DEF Compute

LEMMA SweepStepInv ==
    ASSUME TypeOK, SweepInv, [Next]_vars
    PROVE  SweepInv'
<1>1. ControllersTypeOK
  BY TypeSplit
<1>2. ASSUME NEW lvl, ComputeAndSetOutput(lvl) PROVE SweepInv'
  BY <1>1, <1>2, ComputeSweepInv DEF ComputeAndSetOutput
<1>3. ASSUME NEW lvl, LevelArrives(lvl) PROVE SweepInv'
  BY <1>2, <1>3, PinsOffSweepInv DEF LevelArrives, MeasurementFails, StopAndReset
<1>4. CASE PidTimerComputes \/ PidTimerFails
  BY <1>2, <1>4, PinsOffSweepInv DEF PidTimerComputes, PidTimerFails, MeasurementFails
<1>5. CASE AcknowledgeCv \/ Reset
  BY <1>5, PinsOffSweepInv DEF AcknowledgeCv, Reset
<1>6. CASE UNCHANGED vars
  BY <1>6 DEF vars, startupVars, SweepInv
<1> QED
  BY <1>3, <1>4, <1>5, <1>6 DEF Next

(* What is handed over is the step after the one that drives the motor     *)
(* (startup.rs:72-86), for every sweep, ring and order of the handlers;    *)
(* only the last step below the top is followed by another.                *)
THEOREM NextStepIsHandedOver == Spec => HandoverFollowsDrive
<1>1. Init => SweepInv
  BY DEF Init, SweepInv, PinsOff
<1>2. TypeOK /\ SweepInv /\ [Next]_vars => SweepInv'
  BY SweepStepInv
<1>3. TypeOK /\ SweepInv /\ [Next]_vars =>
        (mode = "Startup" /\ mode' = "Pid" =>
            \A d \in Direction : duty[d] # 0 =>
                base' = duty[d] + SweepStep \/ duty[d] + SweepStep > Top)
  <2> SUFFICES ASSUME TypeOK, SweepInv, [Next]_vars, mode = "Startup", mode' = "Pid",
                      NEW d \in Direction, duty[d] # 0, ~ duty[d] + SweepStep > Top
               PROVE  base' = duty[d] + SweepStep
    OBVIOUS
  <2>1. PICK lvl : ControllersStep(lvl)
    BY ControllersSteps
  <2>2. base' = StartOutput
    BY <2>1 DEF ControllersStep, Handover, ResetController, startupVars
  <2>3. output = duty[d] + SweepStep
    BY DEF SweepInv
  <2>4. duty[d] + SweepStep # 0
    <3>1. duty[d] \in Outputs /\ Top \in Nat
      BY SpeedControlAssumption DEF TypeOK, Word
    <3> QED
      BY <3>1, SweepStepType DEF Outputs
  <2> QED
    BY <2>2, <2>3, <2>4 DEF StartOutput
<1> QED
  BY <1>1, <1>2, <1>3, ControllerTypeCorrect, PTL DEF Spec, HandoverFollowsDrive

=============================================================================
