------------------------------ MODULE XmapGain ------------------------------
(***************************************************************************)
(* The gain of one xMAP channel (devices/xmap/xmap_psl.c): acquisition     *)
(* values that are computed from each other, the preamplifier gain that    *)
(* lives both in the acquisition values and in the Detector, and the DSP   *)
(* parameters that are computed from them all.                             *)
(*                                                                         *)
(* xiaSetAcquisitionValues runs a value's set function, which may change   *)
(* other values, the Detector and the hardware before psl__UpdateGain      *)
(* finds that the gain is out of range or a parameter cannot be written;   *)
(* only the value that was asked for is then rolled back.  The code's      *)
(* comment says that the user "should try and set the value again after an *)
(* error": "stale", which is not part of the code, keeps the names that    *)
(* wait for it, because their last set failed or because they were not set *)
(* since xiaStartSystem booted the DSP.                                    *)
(*                                                                         *)
(* Abstractions.  The code multiplies and divides positive doubles: each   *)
(* is here its logarithm, with the factors that are constants left out, so *)
(* that GAINDAC, which the code computes in decibels, is the gain itself.  *)
(* Rounding to the DSP's integers is left out, and so is the value that    *)
(* the set functions of the thresholds round and hand back.  The filter    *)
(* lengths are the slow filter's.                                          *)
(***************************************************************************)
EXTENDS Integers, Sequences, FiniteSets

CONSTANTS Initial,     \* the values the channel is set up with
          Booted,      \* the DSP parameters as the DSP boots
          Thresholds,  \* the threshold values, as psl__UpdateGain sets them
          Order,       \* the names in the channel's defaults list, in order
          Values,      \* Values[n]: what the application may set n to
          Deltas,      \* the factors it may calibrate the gain by
          MinGain, MaxGain,  \* what the variable gain amplifier can do
          Faults,      \* may reading or writing a DSP parameter fail?
          MaxValue,    \* bound: how far calibration and stale setups move one
          MaxStale     \* bound: stale names when another value is set

Threshold == {Thresholds[k] : k \in 1..Len(Thresholds)}
Composite == {"dynamic_range", "calibration_energy", "adc_percent_rule"}
Name == Threshold \cup Composite
          \cup {"peaking_time", "mca_bin_width", "preamp_gain"}

\* The parameters psl__UpdateGain writes, in its order: THRESHOLD, BASETHRESH
\* and SLOWTHRESH go by the names of their acquisition values.
GainParams == <<"GAINDAC", "BINSCALE", "ESCALE">> \o Thresholds
Param == Threshold \cup {"SLOWLEN", "GAINDAC", "BINSCALE", "ESCALE"}

ASSUME ThresholdAssumption ==
    /\ Thresholds \in Seq(STRING)
    /\ Threshold \cap (Composite \cup {"peaking_time", "mca_bin_width",
         "preamp_gain", "SLOWLEN", "GAINDAC", "BINSCALE", "ESCALE"}) = {}
ASSUME OrderAssumption == Order \in Seq(Name)
ASSUME ValueAssumption == Values \in [Name -> SUBSET Int] /\ Deltas \subseteq Int
ASSUME InitialAssumption ==
    /\ Initial \in [Name -> Int]
    /\ Initial["dynamic_range"] + Initial["adc_percent_rule"]
         = Initial["calibration_energy"]
    /\ -Initial["dynamic_range"] - Initial["preamp_gain"] \in MinGain..MaxGain
ASSUME LimitAssumption == /\ MinGain \in Int /\ MaxGain \in Int
                          /\ Booted \in [Param -> Int]
                          /\ Booted["GAINDAC"] \in MinGain..MaxGain
                          /\ Faults \in BOOLEAN
                          /\ MaxValue \in Nat /\ MaxStale \in Nat

VARIABLES val,     \* the entries of the channel's XiaDefaults
          det,     \* Detector.gain[] of the channel
          hw,      \* the DSP parameters
          rest,    \* what pslUserSetup has still to set
          status,  \* what the last set returned
          stale    \* the names that must be set again

vars == <<val, det, hw, rest, status, stale>>

TypeOK ==
    /\ val \in [Name -> Int]
    /\ det \in Int
    /\ hw \in [Param -> Int]
    /\ hw["GAINDAC"] \in MinGain..MaxGain
    /\ rest \in Seq(Name)
    /\ status \in {"ok", "error"}
    /\ stale \subseteq Name

-----------------------------------------------------------------------------
(* psl__UpdateGain. *)

\* psl__GetEVPerADC.
EVPerADC(v) == v["calibration_energy"] - v["adc_percent_rule"]

\* psl__CalculateGain: what the amplifier has to do, with Detector gain d.
TotalGain(v, d) == v["adc_percent_rule"] - v["calibration_energy"] - d

OutOfRange(v, d) == TotalGain(v, d) < MinGain \/ TotalGain(v, d) > MaxGain

\* What the parameter of a threshold has to be: psl__SetTThresh,
\* psl__SetBThresh and psl__SetEThresh.
ThresholdValue(v, n) == v[n] - EVPerADC(v)

\* The parameters as acquisition values v and Detector gain d demand them, at
\* the SLOWLEN of h.
Computed(v, d, h) ==
    [p \in Param |-> CASE p = "GAINDAC" -> TotalGain(v, d)
                       [] p = "BINSCALE" -> v["mca_bin_width"] - EVPerADC(v)
                       [] p \in Threshold -> ThresholdValue(v, p)
                       [] OTHER -> h["SLOWLEN"]]

\* The first n parameters have been written.
Written(v, d, h, n) ==
    [p \in Param |-> IF \E k \in 1..n : GainParams[k] = p
                       THEN Computed(v, d, h)[p] ELSE h[p]]

\* How psl__UpdateGain may end: it succeeds or not, and what is in the DSP.
Outcome(ok, h) == [ok |-> ok, hw |-> h]

UpdateGain(v, d, h) ==
    IF OutOfRange(v, d) THEN {Outcome(FALSE, h)}
    ELSE {Outcome(TRUE, Computed(v, d, h))}
           \cup {Outcome(FALSE, Written(v, d, h, n)) :
                   n \in IF Faults THEN 0..(Len(GainParams) - 1) ELSE {}}

-----------------------------------------------------------------------------
(* The set functions. *)

\* Mutant: the calibration energy leaves the ADC percent rule alone.
MutPrepared(n, x) ==
    CASE n = "calibration_energy" -> [val EXCEPT ![n] = x]
      [] n = "adc_percent_rule" ->
           [val EXCEPT ![n] = x, !["dynamic_range"] = val["calibration_energy"] - x]
      [] n = "dynamic_range" ->
           [val EXCEPT !["adc_percent_rule"] = val["calibration_energy"] - x]
      [] n = "mca_bin_width" -> [val EXCEPT ![n] = x]
      [] OTHER -> val

\* The values as the set function of n leaves them before the gain is updated.
Prepared(n, x) ==
    CASE n = "calibration_energy" ->
           [val EXCEPT ![n] = x, !["adc_percent_rule"] = x - val["dynamic_range"]]
      [] n = "adc_percent_rule" ->
           [val EXCEPT ![n] = x, !["dynamic_range"] = val["calibration_energy"] - x]
      [] n = "dynamic_range" ->
           [val EXCEPT !["adc_percent_rule"] = val["calibration_energy"] - x]
      [] n = "mca_bin_width" -> [val EXCEPT ![n] = x]
      [] OTHER -> val

\* psl__SetPreampGain puts the gain into the Detector first.
DetectorAfter(n, x) == IF n = "preamp_gain" THEN x ELSE det

\* A set function of a threshold writes the one parameter.
SetThreshold(n, x) ==
    {Outcome(TRUE, [hw EXCEPT ![n] = x - EVPerADC(val)])}
      \cup IF Faults THEN {Outcome(FALSE, hw)} ELSE {}

\* psl__SetPeakingTime: no firmware for the peaking time or a filter that is
\* too long is an error before SLOWLEN is written; the gain is updated after,
\* and SLOWLEN is then read back.
SetPeakingTime(x) ==
    LET updated == UpdateGain(val, det, [hw EXCEPT !["SLOWLEN"] = x])
    IN  {Outcome(FALSE, hw)} \cup updated
          \cup {Outcome(FALSE, o.hw) : o \in IF Faults THEN updated ELSE {}}

\* What the set function of n may do to the DSP.
SetFunction(n, x) ==
    CASE n \in Threshold -> SetThreshold(n, x)
      [] n = "peaking_time" -> SetPeakingTime(x)
      [] OTHER -> UpdateGain(Prepared(n, x), DetectorAfter(n, x), hw)

\* Mutant: the value to roll back to was not read.
MutSettled(n, x, ok) == [Prepared(n, x) EXCEPT ![n] = IF ok THEN x ELSE 0]

\* pslSetAcquisitionValues: the value, or the value it had.
Settled(n, x, ok) == [Prepared(n, x) EXCEPT ![n] = IF ok THEN x ELSE val[n]]

StaleAfter(n, ok) == IF ok THEN stale \ {n} ELSE stale \cup {n}

\* The set function of n is run with x, and returns.
Set(n, x) ==
    \E o \in SetFunction(n, x) :
        /\ hw' = o.hw
        /\ det' = DetectorAfter(n, x)
        /\ val' = Settled(n, x, o.ok)
        /\ status' = IF o.ok THEN "ok" ELSE "error"
        /\ stale' = StaleAfter(n, o.ok)

-----------------------------------------------------------------------------
\* xiaStartSystem has booted the DSP of a channel with consistent values, and
\* pslUserSetup is about to set them.
Init ==
    /\ val = Initial
    /\ det = Initial["preamp_gain"]
    /\ hw = Booted
    /\ rest = Order /\ status = "ok" /\ stale = Name

\* xiaSetAcquisitionValues, when nothing else is being done.
SetValue(n, x) ==
    /\ rest = <<>>
    /\ n \in stale \/ Cardinality(stale) < MaxStale                 \* bound
    /\ Set(n, x)
    /\ UNCHANGED rest

\* pslGainCalibrate scales the thresholds in the defaults.
Scaled(delta) == [n \in Name |-> IF n \in Threshold THEN val[n] + delta ELSE val[n]]

\* xiaGainCalibrate: the thresholds stay scaled when the gain cannot be set.
GainCalibrate(delta) ==
    /\ rest = <<>>
    /\ "preamp_gain" \in stale \/ Cardinality(stale) < MaxStale     \* bound
    /\ \A n \in Threshold : Scaled(delta)[n] \in -MaxValue..MaxValue   \* bound
    /\ det' = val["preamp_gain"] - delta
    /\ \E o \in UpdateGain(Scaled(delta), val["preamp_gain"] - delta, hw) :
         /\ hw' = o.hw
         /\ val' = IF o.ok
                     THEN [Scaled(delta) EXCEPT !["preamp_gain"] = @ - delta]
                     ELSE Scaled(delta)
         /\ status' = IF o.ok THEN "ok" ELSE "error"
         /\ stale' = StaleAfter("preamp_gain", o.ok)
    /\ UNCHANGED rest

\* pslUserSetup: the Detector's gain is taken over (psl__SynchPreampGain), and
\* every entry of the list is to be set again.
UserSetup ==
    /\ rest = <<>>
    /\ \A n \in Name : val[n] \in -MaxValue..MaxValue                 \* bound
    /\ val' = [val EXCEPT !["preamp_gain"] = det]
    /\ rest' = Order
    /\ UNCHANGED <<det, status>>

\* xiaStartSystem boots the DSP first.
StartSystem == UserSetup /\ hw' = Booted /\ stale' = Name

\* xiaRemoveAcquisitionValues of a value that is not modelled here.
RemoveOther == UserSetup /\ UNCHANGED <<hw, stale>>

\* One entry: an error ends the setup.
SetEntry ==
    /\ rest # <<>>
    /\ Set(Head(rest), val[Head(rest)])
    /\ rest' = IF status' = "ok" THEN Tail(rest) ELSE <<>>

Next ==
    \/ \E n \in Name : \E x \in Values[n] : SetValue(n, x)
    \/ \E delta \in Deltas : GainCalibrate(delta)
    \/ StartSystem \/ RemoveOther \/ SetEntry

Spec == Init /\ [][Next]_vars

-----------------------------------------------------------------------------
(* Properties. *)

\* "If you modify the default values for the calibration energy or the ADC
\* percent rule, be sure to update the dynamic range value as well."
RangeFollowsRule ==
    val["dynamic_range"] + val["adc_percent_rule"] = val["calibration_energy"]

\* The acquisition values, the Detector and the hardware agree.
Consistent ==
    /\ RangeFollowsRule
    /\ val["preamp_gain"] = det
    /\ val["peaking_time"] = hw["SLOWLEN"]
    /\ hw = Computed(val, det, hw)

\* Whatever failed, and in whatever order: once each value whose set failed, or
\* that the boot of the DSP lost, has been set with success, the channel is
\* consistent, as the comment on the roll back in pslSetAcquisitionValues hopes.
SettingAgainHeals == stale = {} => Consistent

\* Setting a channel up again (pslUserSetup, in xiaStartSystem or after a
\* removal) changes no acquisition value and no preamplifier gain when they
\* agreed, in whatever order the values are in the list, and also when it
\* fails half way.
SetupKeepsValues ==
    [][rest' # rest /\ RangeFollowsRule /\ val["preamp_gain"] = det
         => UNCHANGED <<val, det>>]_vars
=============================================================================
