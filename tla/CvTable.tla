------------------------------ MODULE CvTable ------------------------------
(***************************************************************************)
(* The configuration variables by number and what a factory reset puts in  *)
(* them (dcc/src/cv/mod.rs). DefaultValues gives every CV its value; the   *)
(* blocks below are the parts of the table that are not zero, and those    *)
(* that are zero and mean something.                                       *)
(***************************************************************************)
EXTENDS Integers

CV_SIZE == 1024

PrimaryAddress            == 1
VStart                    == 2
AccelerationRate          == 3
DecelerationRate          == 4
VHigh                     == 5
VMid                      == 6
ManufacturerVersionNumber == 7
ManufacturerId            == 8
MotorPwmFrequency         == 9
ExtendedAddressMsb        == 17
ExtendedAddressLsb        == 18
ConsistAddress            == 19
DecoderConfiguration      == 29
PidFf                     == 47
PidFilterTc               == 48
PidSampleTime             == 49
PidKi                     == 50
PidKd                     == 51
PidKpY0                   == 54
PidKpY1                   == 56
PidKpY2                   == 58
PidKpGainRange1End        == 60
EmfMsrSamples             == 61
EmfMsrDelay               == 62
EmfMsrLowCutoff           == 63
EmfMsrHighCutoff          == 64
EnablePwmOutputMask       == 112
EmfAdcOffset              == 172
MotorPwmDivider           == 174
SpeedStepPeriod           == 175

Byte == 0 .. 255

U16_MAX == 65535
Word    == 0 .. U16_MAX

-----------------------------------------------------------------------------
(* DEFAULT_VALUES. Every value that is not zero is in one of these blocks. *)

BasicDefaults           == <<3, 8, 0, 0, 100, 63, 129, 13, 150, 1, 255, 4>>
ExtendedAddressDefaults == <<195, 232>>
CvIndexDefaults         == <<16, 0>>
ControllerDefaults      == <<230, 10, 5, 25, 50, 100, 100, 7, 208, 0, 250, 0, 150, 13>>
MeasurementDefaults     == <<100, 100, 15, 15>>
ProductDefaults         == <<1, 11, 0, 0, 0>>
CalibrationDefaults     == <<255, 127, 1, 7>>

(* No slice is in PWM mode and no function has an output.                  *)
PwmCVs         == 112 .. 171
FunctionMapCVs == 257 .. 512

(* Not used by this decoder, or used by the C firmware only.               *)
UnusedCVs ==
    (13 .. 16) \union (19 .. 30) \union (33 .. 46) \union (65 .. 106)
    \union (176 .. 256) \union (513 .. CV_SIZE)

DefaultValues ==
    [cv \in 1 .. CV_SIZE |->
        CASE cv \in 1 .. 12     -> BasicDefaults[cv]
          [] cv \in 17 .. 18    -> ExtendedAddressDefaults[cv - 16]
          [] cv \in 31 .. 32    -> CvIndexDefaults[cv - 30]
          [] cv \in 47 .. 60    -> ControllerDefaults[cv - 46]
          [] cv \in 61 .. 64    -> MeasurementDefaults[cv - 60]
          [] cv \in 107 .. 111  -> ProductDefaults[cv - 106]
          [] cv \in 172 .. 175  -> CalibrationDefaults[cv - 171]
          [] cv \in PwmCVs \union FunctionMapCVs \union UnusedCVs -> 0]

=============================================================================
