----------------------------- MODULE EmfFilter ------------------------------
(***************************************************************************)
(* How back-EMF samples are condensed: the trimmed mean of a measurement   *)
(* (RpMotorController::measure) and the filtered mean of the calibration   *)
(* at boot (math/src/lib.rs, measure_adc_offset). Samples are a sequence.  *)
(***************************************************************************)
EXTENDS Integers, Sequences, FiniteSetsExt

AdcSample == 0 .. 4095    \* a conversion of the 12-bit converter

SumOf(data, S) == SumFunctionOnSet(data, S)

-----------------------------------------------------------------------------
(* A measurement.                                                          *)

(* CV61 is a byte, so only its lower bound matters.                        *)
SampleCount(config) == IF config.emf_samples < 1 THEN 1 ELSE config.emf_samples

(* Cutoffs that would discard every sample are ignored.                    *)
Cutoffs(config) ==
    IF config.emf_l_cutoff + config.emf_r_cutoff < SampleCount(config)
    THEN [l |-> config.emf_l_cutoff, r |-> config.emf_r_cutoff]
    ELSE [l |-> 0, r |-> 0]

(* sort_unstable(): entry i is the least sample that i samples do not      *)
(* exceed. The buffer stays sorted after the measurement.                  *)
SortSamples(buf) ==
    [i \in DOMAIN buf |->
        Min({v \in Range(buf) : Cardinality({j \in DOMAIN buf : buf[j] <= v}) >= i})]

(* The mean as the fraction the code divides out.                          *)
TrimmedMean(config, sorted) ==
    LET kept == (Cutoffs(config).l + 1) .. (SampleCount(config) - Cutoffs(config).r)
    IN  [sum |-> SumOf(sorted, kept), cnt |-> Cardinality(kept)]

-----------------------------------------------------------------------------
(* filtered_mean(): the mean of what lies within k standard deviations of  *)
(* the mean. Both sides of the comparison are squared and multiplied by    *)
(* Len(data) - 1.                                                          *)
FilteredMean(data, k) ==
    LET mean   == SumOf(data, DOMAIN data) \div Len(data)
        square == [i \in DOMAIN data |-> (data[i] - mean) * (data[i] - mean)]
        kept   == {i \in DOMAIN data :
                      square[i] * (Len(data) - 1) <= k * k * SumOf(square, DOMAIN data)}
        cnt    == Cardinality(kept)
    IN  IF data = <<>> THEN {}
        ELSE IF Len(data) = 1 THEN {mean}
        ELSE IF cnt = 0 THEN {}
        ELSE {(2 * SumOf(data, kept) + cnt) \div (2 * cnt)}

OrZero(mean) == IF mean = {} THEN 0 ELSE CHOOSE m \in mean : TRUE

(* measure_adc_offset(): the mean of the offsets of both directions.       *)
MeasureAdcOffset(rev, fwd) ==
    (OrZero(FilteredMean(fwd, 2)) + OrZero(FilteredMean(rev, 2))) \div 2

(* main(): what CV172 gets, 255 being reserved for no offset.              *)
CalibratedOffset(rev, fwd) ==
    LET offset == MeasureAdcOffset(rev, fwd)
    IN  IF offset > 254 THEN 254 ELSE offset

=============================================================================
