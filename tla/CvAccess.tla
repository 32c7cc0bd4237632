------------------------------ MODULE CvAccess ------------------------------
(***************************************************************************)
(* What the decoder makes of the bytes in its CVs: the typed accessors of  *)
(* StoreExt (dcc/src/cv/store.rs) and the configurations main() and the    *)
(* function handler build from them at boot. Fractions are kept as their   *)
(* numerator over the divisor the code uses; a 32-bit mask is the set of   *)
(* the bits that are 1.                                                    *)
(***************************************************************************)
EXTENDS CvTable

ClkSysFreq == 125000000    \* clk_sys_freq() of the default clock set-up

-----------------------------------------------------------------------------
(* CvValue::from_store: the bytes are big endian.                          *)

Bit(byte, b) == (byte \div 2^b) % 2

ReadU16(store, cv) == store[cv] * 256 + store[cv + 1]

ReadMask(store, cv) ==
    {b \in 0 .. 31 : Bit(store[cv + 3 - b \div 8], b % 8) = 1}

-----------------------------------------------------------------------------

ExtendedAddress(msb, lsb) == (msb % 64) * 256 + lsb

(* StoreExt::addr: CV29 bit 5 selects the extended address.                *)
Addr(store) ==
    IF Bit(store[DecoderConfiguration], 5) = 1
    THEN ExtendedAddress(store[ExtendedAddressMsb], store[ExtendedAddressLsb])
    ELSE store[PrimaryAddress]

None == {}
Some(x) == {x}

(* 255 in CV172 stands for no offset.                                      *)
AdcOffset(store) ==
    IF store[EmfAdcOffset] = 255 THEN None ELSE Some(store[EmfAdcOffset])

PwmFrequency(store) == store[MotorPwmFrequency] * 100 + 10000

OutputMax(store) == ClkSysFreq \div PwmFrequency(store)

MotorConfig(store) ==
    [pwm_max_output        |-> OutputMax(store),
     pwm_clk_divider       |-> store[MotorPwmDivider],
     emf_measurement_delay |-> store[EmfMsrDelay],
     emf_samples           |-> store[EmfMsrSamples],
     emf_l_cutoff          |-> store[EmfMsrLowCutoff],
     emf_r_cutoff          |-> store[EmfMsrHighCutoff]]

TableConfig(store) ==
    [v_start |-> store[VStart], v_mid |-> store[VMid], v_high |-> store[VHigh]]

(* ki in tenths, kd in 1/10000, each kp in 1/100, the end of the first     *)
(* gain range and the feed-forward factor in 1/255; times in ms.           *)
PidSettings(store) ==
    [sample_time        |-> store[PidSampleTime],
     filter_tc          |-> store[PidFilterTc],
     ki                 |-> store[PidKi],
     kd                 |-> store[PidKd],
     kp_y0              |-> ReadU16(store, PidKpY0),
     kp_y1              |-> ReadU16(store, PidKpY1),
     kp_y2              |-> ReadU16(store, PidKpY2),
     kp_gain_range1_end |-> store[PidKpGainRange1End],
     pid_ff             |-> store[PidFf]]

AccelConfig(store) ==
    [accel_rate |-> store[AccelerationRate],
     decel_rate |-> store[DecelerationRate],
     loop_delay |-> store[SpeedStepPeriod]]

-----------------------------------------------------------------------------
(* Function outputs.                                                       *)

FunctionIndex == 0 .. 31

FunctionMapBase(i, direction) ==
    257 + i * 8 + (IF direction = "Forward" THEN 0 ELSE 4)

(* function_output_mask()                                                  *)
FunctionOutputMask(store, i, direction) ==
    IF i \in FunctionIndex
    THEN Some(ReadMask(store, FunctionMapBase(i, direction)))
    ELSE None

PwmEnabledMask(store) == ReadMask(store, EnablePwmOutputMask)

PwmSliceBase(slice) == 116 + slice * 7

(* saturating_add(1) keeps the divider of an erased slice at 255.          *)
PwmDivider(byte) == IF byte = 255 THEN 255 ELSE byte + 1

(* pwm_configuration()                                                     *)
PwmConfiguration(store, slice) ==
    IF slice < 8
    THEN LET base == PwmSliceBase(slice)
         IN  Some([wrap    |-> ReadU16(store, base),
                   divider |-> PwmDivider(store[base + 2]),
                   level   |-> [a |-> ReadU16(store, base + 3),
                                b |-> ReadU16(store, base + 5)]])
    ELSE None

=============================================================================
