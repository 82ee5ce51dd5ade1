------------------------------ MODULE GainValues ------------------------------
(***************************************************************************)
(* The acquisition values that say how a channel amplifies and what it     *)
(* discriminates, and those that stand for one DSP parameter each, in the  *)
(* Mercury, Mercury OEM, STJ and Saturn.  (The gain of the xMAP: XmapGain.)*)
(*                                                                         *)
(* Every product computes its gain from several values and from the        *)
(* preamplifier gain of the Detector, in another way: the Mercury channel  *)
(* by channel, the Mercury OEM in steps of a switch, the STJ for a bank of *)
(* channels at once with a digital part for each, the Saturn twice with a  *)
(* short run at the end.  A module is a record as in AcqValues, with       *)
(*   oem     psl__IsMercuryOem                                             *)
(*   first   the detChan of its first channel                              *)
(*   det     Detector.gain, by preamplifier; channel c has preamplifier c  *)
(*   stray   what the memory before Detector.gain holds                    *)
(*   tasks   the bits set in the parameter RUNTASKS of the Saturn          *)
(*                                                                         *)
(* Positive doubles that are multiplied and divided are their logarithms,  *)
(* as in XmapGain, with the factors that do not change (the filter lengths *)
(* too) left out and FullScale added where a gain results.  Rounding to a  *)
(* parameter's integer is left out; the ranges and clamps are kept.        *)
(***************************************************************************)
EXTENDS AcqValues, FiniteSets

CONSTANTS Boards,        \* modules: [product, oem, first, chans]
          Topics,        \* sets of names used together
          Values,        \* what the application asks for, by name
          Start,         \* the values before the first call
          Deltas,        \* factors to calibrate by
          Calibrations,  \* what the DSP may find out about itself, not 0
          FullScale,     \* the constant factors of a gain
          MaxGain,       \* gains are 0..MaxGain
          MaxDigital,    \* digital gains are 0..MaxDigital
          MaxThreshold,  \* the largest threshold parameter, where it is limited
          MaxFaults,     \* accesses that fail
          MaxCalls       \* calls after the start

Calibrated == <<"gain_slope", "calibrated_dac", "calibrated_gain", "calibrated_checksum">>

\* The defaults of a product, in their order.
NamesOf == [
    mercury |-> <<"dynamic_range", "calibration_energy", "mca_bin_width",
        "trigger_threshold", "baseline_threshold", "energy_threshold", "preamp_gain",
        "delta_temp", "temp_correction", "trigger_output", "livetime_output">>
        \o Calibrated \o
        <<"input_attenuation", "input_termination", "rc_time_constant", "rc_time",
        "trace_trigger_type", "trace_trigger_position", "adc_offset", "offset_dac",
        "baseline_factor", "RAWPARAM">>,
    stj |-> <<"dynamic_range", "preamp_gain", "calibration_energy", "mca_bin_width",
        "trigger_threshold", "energy_threshold", "trace_trigger_enable",
        "trace_trigger_type", "trace_trigger_position", "bias_scan_start_offset",
        "bias_scan_steps", "bias_scan_step_size", "bias_scan_wait_time",
        "bias_dac_set_zero", "bias_dac_zero", "bias_set_dac", "bias_dac_enable",
        "pmt_trigger_mode", "pmt_dynode_threshold", "pmt_dynode_sum_threshold",
        "pmt_multiplicity_length", "pmt_multiplicity_requirement", "RAWPARAM">>,
    saturn |-> <<"mca_bin_width", "energy_threshold", "adc_percent_rule",
        "calibration_energy", "trigger_threshold", "enable_gate", "enable_baseline_cut",
        "preamp_gain", "baseline_cut", "baseline_filter_length", "baseline_threshold",
        "RAWPARAM">>]

Names == UNION {ToSet(NamesOf[p]) : p \in DOMAIN NamesOf}

\* The parameter a value stands for, where it stands for one.
ParamOf == [
    trigger_threshold |-> "THRESHOLD", baseline_threshold |-> "BASETHRESH",
    energy_threshold |-> "SLOWTHRESH", delta_temp |-> "DELTATEMP",
    temp_correction |-> "TEMPCORRECTION", trigger_output |-> "TRIGOUTPUT",
    livetime_output |-> "LIVEOUTPUT", calibrated_gain |-> "GAIN",
    calibrated_dac |-> "DAC", calibrated_checksum |-> "GAINCALCHECK",
    gain_slope |-> "DGDACDGAIN", input_termination |-> "INPUTTERM",
    rc_time_constant |-> "TAUCTRL", trace_trigger_type |-> "TRACETRIG",
    trace_trigger_position |-> "TRACEPRETRIG", adc_offset |-> "SETOFFADC",
    offset_dac |-> "SETODAC", baseline_factor |-> "BFACTOR",
    trace_trigger_enable |-> "TRIGENA", bias_scan_start_offset |-> "STJDACSTART",
    bias_scan_steps |-> "STJDACNUM", bias_scan_step_size |-> "STJDACSTEP",
    bias_scan_wait_time |-> "ANLGWAIT", bias_dac_set_zero |-> "SETSTJZERO",
    bias_dac_zero |-> "STJZERO", bias_set_dac |-> "SETSTJDAC",
    pmt_trigger_mode |-> "TRIGMODE", pmt_dynode_threshold |-> "DYNTHRESH",
    pmt_dynode_sum_threshold |-> "DYNSUMTHRESH", pmt_multiplicity_length |-> "MULTLEN",
    pmt_multiplicity_requirement |-> "MULTREQ", baseline_cut |-> "BLCUT",
    baseline_filter_length |-> "BLFILTER", RAWPARAM |-> "RAWPARAM"]

Params(product) ==
    {ParamOf[n] : n \in ToSet(NamesOf[product]) \cap DOMAIN ParamOf} \cup
    {"GAINDAC", "BINSCALE", "BINFACT1", "ESCALE", "SWGAIN", "MCAGAIN", "MCAGAINEXP",
     "BANKADCGAIN", "BANKCHANENA", "SETGDAC", "RESTOREGAIN", "INPUTATTEN", "RCTAU",
     "RCTAUFRAC"}

VARIABLES m,      \* the module
          topic,  \* the names this behaviour is about
          sound,  \* the hardware did what the values say before the last call
          last,   \* the last call: [op, name, value, chans, ok]
          calls   \* how many there were

vars == <<m, topic, sound, last, calls>>

-----------------------------------------------------------------------------
(* Parts. *)

\* A value beyond a bound is refused, else it becomes a parameter.
Bounded(k, c, p, bound) ==
    IF k.value \notin bound THEN Refused(k) ELSE SetParameter(k, c, p, Word(k.value))

\* A parameter all channels of an STJ share.
SetShared(k, p, x) ==
    Access(k, [k EXCEPT !.par = [c \in DOMAIN @ |-> [@[c] EXCEPT ![p] = x]]])

\* The code reads parameters; they may not come.
Read(k) == Access(k, k)

Clamp(x, lo, hi) == IF x < lo THEN lo ELSE IF x > hi THEN hi ELSE x

\* A setter that does nothing.
Nothing(k) == Done(k)

-----------------------------------------------------------------------------
(* The Mercury: gain. *)

\* The switched gain of the OEM, from the defaults alone.
SwitchedGain(k, c) ==
    Clamp(FullScale - k.val[c]["dynamic_range"] - k.val[c]["preamp_gain"]
            - k.val[c]["input_attenuation"], 0, MaxGain)

\* psl_CalculateEvPerADC
OemEVPerADC(k, c) ==
    FullScale - SwitchedGain(k, c) + k.val[c]["input_attenuation"]
      - k.val[c]["preamp_gain"]

\* psl__GetEVPerADC
MercuryGetEVPerADC(k, c) ==
    IF k.oem THEN OemEVPerADC(k, c) ELSE k.val[c]["dynamic_range"]

\* What the amplifier has to do, with the gain of the Detector.
MercuryGain(k, c) == FullScale - k.val[c]["dynamic_range"] - k.det[c]

\* psl__UpdateVariableGain
MercuryUpdateVariableGain(k, c) ==
    Then(Read(k), LAMBDA a :
         IF MercuryGain(a, c) \notin 0..MaxGain THEN Refused(a)
         ELSE Writes(a, c, <<<<"GAINDAC", MercuryGain(a, c)>>,
                             <<"BINSCALE", a.val[c]["mca_bin_width"] - MercuryGetEVPerADC(a, c)>>,
                             <<"ESCALE", 0>>>>))

\* A gain as exponent and mantissa.
Split(x) == <<<<"MCAGAINEXP", x \div 2>>, <<"MCAGAIN", x % 2>>>>

\* psl__UpdateSwitchedGain
MercuryUpdateSwitchedGain(k, c) ==
    Writes(k, c, <<<<"SWGAIN", SwitchedGain(k, c)>>>> \o
                 Reverse(Split(OemEVPerADC(k, c) - k.val[c]["mca_bin_width"])))

\* What the DSP does when settings are applied: it keeps a calibration it is
\* told to restore, and makes one of its own otherwise.
MercuryApplied(k, c) ==
    LET kept == [k EXCEPT !.par[c]["SETGDAC"] = k.par[c]["GAINDAC"],
                          !.par[c]["RESTOREGAIN"] = 0] IN
    IF k.par[c]["TEMPCORRECTION"] = 0 \/ k.par[c]["RESTOREGAIN"] = 1 THEN {kept}
    ELSE {[kept EXCEPT !.par[c] = [p \in DOMAIN @ |->
               IF \E i \in 1..4 : ParamOf[Calibrated[i]] = p THEN x ELSE @[p]]]
            : x \in Calibrations}

\* psl__Apply: starts the control task and stops it.
MercuryApply(k, c) ==
    Then(UNION {Access(k, a) : a \in MercuryApplied(k, c)}, LAMBDA b : Read(b))

\* psl__SyncTempCalibrationValues: of a module with one channel.
MercurySyncTempCalibrationValues(k, c) ==
    IF Cardinality(DOMAIN k.val) > 1 THEN Nothing(k)
    ELSE Then(Read(k), LAMBDA a :
         IF a.par[c]["TEMPCORRECTION"] = 0 THEN Done(a)
         ELSE Then(MercuryApply(a, c), LAMBDA e :
              InTurn(e, Calibrated, LAMBDA b, n : Then(Read(b), LAMBDA d :
                     Done(PslSetDefault(d, c, n, d.par[c][ParamOf[n]]))))))

\* psl__UpdateGain
MercuryUpdateGain(k, c) ==
    Then(IF k.oem THEN MercuryUpdateSwitchedGain(k, c) ELSE MercuryUpdateVariableGain(k, c),
         LAMBDA a : MercurySyncTempCalibrationValues(a, c))

\* A threshold in units of the ADC.
MercuryThreshold(k, c, n, v) ==
    SetParameter(k, c, ParamOf[n], v - MercuryGetEVPerADC(k, c))

MercurySetTThresh(k, c, v) == MercuryThreshold(k, c, "trigger_threshold", v)
MercurySetBThresh(k, c, v) == MercuryThreshold(k, c, "baseline_threshold", v)
MercurySetEThresh(k, c, v) == MercuryThreshold(k, c, "energy_threshold", v)

\* Mutant: the baseline threshold is left out.
MutUpdateThresholds(k, c) ==
    Then(MercurySetTThresh(k, c, k.val[c]["trigger_threshold"]), LAMBDA a :
         MercurySetEThresh(a, c, a.val[c]["energy_threshold"]))

\* psl__UpdateThresholds
MercuryUpdateThresholds(k, c) ==
    Then(MercurySetTThresh(k, c, k.val[c]["trigger_threshold"]), LAMBDA a :
    Then(MercurySetBThresh(a, c, a.val[c]["baseline_threshold"]), LAMBDA b :
         MercurySetEThresh(b, c, b.val[c]["energy_threshold"])))

\* The entry is changed before the gain is.
MercurySetDynamicRng(k, c) ==
    Then(MercuryUpdateGain(PslSetDefault(k, c, "dynamic_range", k.value), c), LAMBDA a :
         MercuryUpdateThresholds(a, c))
MercurySetCalibEV(k, c) ==
    MercuryUpdateGain(PslSetDefault(k, c, "calibration_energy", k.value), c)
MercurySetMCABinWidth(k, c) ==
    MercuryUpdateGain(PslSetDefault(k, c, "mca_bin_width", k.value), c)

\* The Detector and the entry are changed before the gain is.
MercurySetPreampGain(k, c) ==
    LET known == PslSetDefault([k EXCEPT !.det[c] = k.value], c, "preamp_gain", k.value) IN
    Then(MercuryUpdateGain(known, c), LAMBDA a : MercuryUpdateThresholds(a, c))

\* The DSP changes the gain with the temperature.
Corrected(k, c) ==
    k.product = "mercury" /\ Cardinality(DOMAIN k.val) = 1 /\ k.par[c]["TEMPCORRECTION"] # 0

\* Mutant: only the spectrum is scaled.
MutGainCalibrate(k, c, delta) ==
    LET to == k.val[c]["preamp_gain"] - delta IN
    Then(MercurySetPreampGain([k EXCEPT !.value = to], c), LAMBDA a :
         Done(PslSetDefault(a, c, "preamp_gain", to)))

\* pslGainCalibrate: what the temperature correction has made of the gain is
\* folded in, and the thresholds follow the spectrum.
MercuryGainCalibrate(k, c, delta) ==
    LET to == k.val[c]["preamp_gain"] - delta
                + (IF Corrected(k, c) THEN k.par[c]["GAINDAC"] - k.par[c]["SETGDAC"] ELSE 0)
        Scaled(a) == [a EXCEPT !.val[c]["trigger_threshold"] = @ + delta,
                               !.val[c]["baseline_threshold"] = @ + delta,
                               !.val[c]["energy_threshold"] = @ + delta,
                               !.value = to] IN
    Then(IF Cardinality(DOMAIN k.val) = 1 THEN Read(k) ELSE Done(k), LAMBDA a :
    Then(MercurySetPreampGain(Scaled(a), c), LAMBDA b :
         Done(PslSetDefault(b, c, "preamp_gain", to))))

-----------------------------------------------------------------------------
(* The Mercury: what belongs to the OEM, the temperature, and the rest. *)

\* A value only the OEM has is remembered by the others.
OfOem(k, outs) == IF k.oem THEN outs ELSE Nothing(k)

\* psl__SetInputAttenuation: the gain is computed before the entry changes.
MercurySetInputAttenuation(k, c) ==
    OfOem(k, Then(Bounded(k, c, "INPUTATTEN", 0..2), LAMBDA a :
             Then(MercuryUpdateGain(a, c), LAMBDA b : MercuryUpdateThresholds(b, c))))
MercurySetInputTermination(k, c) ==
    OfOem(k, Then(Bounded(k, c, "INPUTTERM", 0..2), LAMBDA a : MercuryUpdateGain(a, c)))

MercurySetRcTimeContstant(k, c) == OfOem(k, Bounded(k, c, "TAUCTRL", 0..7))

\* How many parts of RCTAUFRAC make one of RCTAU.
RcParts == 65536

MercurySetRcTime(k, c) ==
    OfOem(k, Writes(k, c, <<<<"RCTAU", k.value \div RcParts>>,
                            <<"RCTAUFRAC", k.value % RcParts>>>>))

MercurySetTriggerType(k, c) == OfOem(k, Bounded(k, c, "TRACETRIG", 0..255))
MercurySetTriggerPosition(k, c) == OfOem(k, Bounded(k, c, "TRACEPRETRIG", 0..255))

\* The bound itself is let in, and becomes 0.
MercurySetAdcOffset(k, c) == OfOem(k, Bounded(k, c, "SETOFFADC", 0..65536))
MercurySetOffsetDac(k, c) == OfOem(k, Bounded(k, c, "SETODAC", 0..65536))

MercurySetBaselineFactor(k, c) ==
    OfOem(k, Then(Bounded(k, c, "BFACTOR", 0..1), LAMBDA a :
                  Done(PslSetDefault(a, c, "baseline_factor", k.value))))

\* psl__AdjustOffsets: the DSP looks for the DAC value that gives the offset.
MercuryAdjustOffsets(k, c, offset) ==
    IF ~k.oem \/ offset \notin 0..65536 THEN Refused(k)
    ELSE Then(SetParameter(k, c, "SETOFFADC", Word(offset)), LAMBDA a :
         Then(UNION {Access(a, [a EXCEPT !.par[c]["SETODAC"] = x]) : x \in Calibrations},
              LAMBDA b :
         Then(Read(b), LAMBDA d :
         LET e == PslSetDefault(d, c, "adc_offset", offset) IN
         Then(Read(e), LAMBDA f : Done(PslSetDefault(f, c, "offset_dac",
                                                     f.par[c]["SETODAC"]))))))

\* psl__CalibrateRcTime: the DSP looks for the decay time, and reports it when
\* asked (psl__GetRcTime).
MercuryCalibrateRcTime(k, c) ==
    OfOem(k, Then(UNION {Access(k, [k EXCEPT !.par[c]["RCTAU"] = x]) : x \in Calibrations},
                  LAMBDA a : Read(a)))

\* A module with several channels has no temperature correction.
OfOneChannel(k, outs) == IF Cardinality(DOMAIN k.val) > 1 THEN Nothing(k) ELSE outs

\* In sixteenths of a degree.
MercurySetDeltaTemp(k, c) ==
    OfOneChannel(k, SetParameter(k, c, "DELTATEMP", Word(16 * k.value)))

\* psl__ApplyTempCalibrationValues: a calibration that is complete goes to the DSP.
MercuryApplyTempCalibrationValues(k, c) ==
    IF \E i \in 1..4 : k.val[c][Calibrated[i]] \in {0, NoEntry} THEN Nothing(k)
    ELSE Then(Writes(k, c,
                  [i \in 1..5 |->
                      IF i = 5 THEN <<"RESTOREGAIN", 1>>
                      ELSE LET n == <<"calibrated_gain", "calibrated_dac", "gain_slope",
                                      "calibrated_checksum">>[i] IN
                           <<ParamOf[n], k.val[c][n]>>]),
              LAMBDA a : MercuryApply(a, c))

MercurySetTempCorrection(k, c) ==
    OfOneChannel(k,
        Then(Bounded(k, c, "TEMPCORRECTION", 0..2), LAMBDA a :
             IF k.value = 0 THEN Done(a)
             ELSE Then(MercuryApplyTempCalibrationValues(a, c), LAMBDA b :
                       MercurySyncTempCalibrationValues(b, c))))

MercurySetTriggerOutput(k, c) == Bounded(k, c, "TRIGOUTPUT", 0..3)
MercurySetLivetimeOuput(k, c) == Bounded(k, c, "LIVEOUTPUT", 0..4)

\* Calibrations are not the application's to set: these only change the entry.
MercurySetCalibratedGain(k) == Nothing(k)
MercurySetCalibratedDac(k) == Nothing(k)
MercurySetGainSlope(k) == Nothing(k)
MercurySetCalibratedChecksum(k) == Nothing(k)

\* psl__UpdateRawParamAcqValue: a name in capitals is a parameter.
UpdateRawParamAcqValue(k, c) ==
    SetParameter(PslSetDefault(k, c, "RAWPARAM", k.value), c, "RAWPARAM", Word(k.value))
MercuryUpdateRawParamAcqValue(k, c) == UpdateRawParamAcqValue(k, c)

\* Getting a value that the DSP knows better brings the entry up to date.
ReadBack(k, c, n, x) == Then(Read(k), LAMBDA a : Done(PslSetDefault(a, c, n, x)))

MercuryGetCalibratedGain(k, c) == ReadBack(k, c, "calibrated_gain", k.par[c]["GAIN"])
MercuryGetCalibratedDac(k, c) == ReadBack(k, c, "calibrated_dac", k.par[c]["DAC"])
MercuryGetGainSlope(k, c) == ReadBack(k, c, "gain_slope", k.par[c]["DGDACDGAIN"])
MercuryGetCalibratedChecksum(k, c) ==
    ReadBack(k, c, "calibrated_checksum", k.par[c]["GAINCALCHECK"])
MercuryGetInputAttenuation(k, c) ==
    OfOem(k, ReadBack(k, c, "input_attenuation", k.par[c]["INPUTATTEN"]))
MercuryGetInputTermination(k, c) ==
    OfOem(k, ReadBack(k, c, "input_termination", k.par[c]["INPUTTERM"]))
MercuryGetRcTime(k, c) ==
    OfOem(k, ReadBack(k, c, "rc_time",
                      k.par[c]["RCTAU"] * RcParts + k.par[c]["RCTAUFRAC"]))

\* pslGetAcquisitionValues
MercuryGetAcquisitionValues(k, c, n) ==
    CASE n = "calibrated_gain" -> MercuryGetCalibratedGain(k, c)
      [] n = "calibrated_dac" -> MercuryGetCalibratedDac(k, c)
      [] n = "gain_slope" -> MercuryGetGainSlope(k, c)
      [] n = "calibrated_checksum" -> MercuryGetCalibratedChecksum(k, c)
      [] n = "input_attenuation" -> MercuryGetInputAttenuation(k, c)
      [] n = "input_termination" -> MercuryGetInputTermination(k, c)
      [] n = "rc_time" -> MercuryGetRcTime(k, c)
      [] OTHER -> Nothing(k)

-----------------------------------------------------------------------------
(* The STJ. *)

\* A channel of the bank without a detector reads what is in front of the array.
PreampGainOf(k, c) == IF c \in DOMAIN k.val THEN k.det[c] ELSE k.stray

\* The mean of the bank's gains, which lies between them.
StjAnalogGain(k, c) ==
    LET gain(i) == FullScale - k.val[c]["dynamic_range"] - PreampGainOf(k, i) IN
    (gain(0) + gain(1)) \div 2

StjSetDigitalGain(k, c, gain) ==
    IF gain \notin 0..MaxDigital THEN Refused(k) ELSE Writes(k, c, Split(gain))

\* psl__CalculateGain: of the whole bank, by the values of the one channel; the
\* digital parts are set.
StjCalculateGain(k, c) ==
    IF StjAnalogGain(k, c) \notin 0..MaxGain THEN Refused(k)
    ELSE InTurn(k, SetToSortSeq(DOMAIN k.val, <), LAMBDA a, i :
             StjSetDigitalGain(a, i, FullScale - a.det[i] - StjAnalogGain(a, c)
                                       - a.val[c]["mca_bin_width"]))

\* A threshold by the preamplifier gain that is remembered and the gain that is
\* set; what is handed back may be less than what was asked for.
StjFactor(k, c) == k.val[c]["preamp_gain"] + k.par[c]["BANKADCGAIN"] - FullScale
StjThreshold(k, c, n, v) ==
    LET word == Clamp(v + StjFactor(k, c), -FullScale, MaxThreshold) IN
    Then(Read(k), LAMBDA a :
    Then(SetParameter(a, c, ParamOf[n], word), LAMBDA b :
         Done([b EXCEPT !.value = word - StjFactor(k, c)])))

StjSetTThresh(k, c, v) == StjThreshold(k, c, "trigger_threshold", v)
StjSetEThresh(k, c, v) == StjThreshold(k, c, "energy_threshold", v)

\* psl__UpdateGain: the thresholds of this channel follow, and are remembered.
StjUpdateGain(k, c) ==
    LET remembered(outs, n) ==
            Then(outs, LAMBDA a :
                 Done([PslSetDefault(a, c, n, a.value) EXCEPT !.value = k.value])) IN
    Then(StjCalculateGain(k, c), LAMBDA a :
    Then(SetShared(a, "BANKADCGAIN", StjAnalogGain(a, c)), LAMBDA b :
    Then(remembered(StjSetTThresh(b, c, b.val[c]["trigger_threshold"]),
                    "trigger_threshold"), LAMBDA d :
         remembered(StjSetEThresh(d, c, d.val[c]["energy_threshold"]),
                    "energy_threshold"))))

StjSetDynamicRng(k, c) ==
    StjUpdateGain(PslSetDefault(k, c, "dynamic_range", k.value), c)
StjSetCalibEV(k, c) ==
    StjUpdateGain(PslSetDefault(k, c, "calibration_energy", k.value), c)
StjSetMCABinWidth(k, c) ==
    StjUpdateGain(PslSetDefault(k, c, "mca_bin_width", k.value), c)

\* The Detector is changed before the gain is, the entry after.
StjSetPreampGain(k, c) == StjUpdateGain([k EXCEPT !.det[c] = k.value], c)

StjGainCalibrate(k, c, delta) ==
    LET to == k.val[c]["preamp_gain"] - delta IN
    Then(StjSetPreampGain([k EXCEPT !.value = to], c), LAMBDA a :
         Done(PslSetDefault(a, c, "preamp_gain", to)))

\* psl__ScaleDigitalGain: indexes the Detector with the detChan.
StjScaleDigitalGain(k, c, delta) ==
    LET to == k.det[k.first + c] - delta
        known == PslSetDefault([k EXCEPT !.det[k.first + c] = to], c, "preamp_gain", to) IN
    Then(Read(known), LAMBDA a :
         StjSetDigitalGain(a, c, 2 * a.par[c]["MCAGAINEXP"] + a.par[c]["MCAGAIN"] + delta))

StjSetTraceTriggerEnable(k, c) == Bounded(k, c, "TRIGENA", 0..1)
StjSetTraceTriggerType(k, c) == Bounded(k, c, "TRACETRIG", 0..255)
StjSetTraceTriggerPosition(k, c) == Bounded(k, c, "TRACEPRETRIG", 0..255)

\* Bias voltages in steps of the DAC.
DacRange == -8192..8191

StjSetBiasScanStartOffset(k, c) == Bounded(k, c, "STJDACSTART", DacRange)
StjSetBiasScanStepSize(k, c) == Bounded(k, c, "STJDACSTEP", DacRange \ {0})
StjSetBiasDacZero(k, c) == Bounded(k, c, "STJZERO", DacRange)
StjSetBiasDacSetZero(k, c) == Bounded(k, c, "SETSTJZERO", DacRange)
StjSetBiasSetDac(k, c) == Bounded(k, c, "SETSTJDAC", DacRange)

\* The range is that of what is left after the conversion to a word.
StjSetBiasScanSteps(k, c) ==
    IF Word(k.value) > 8192 THEN Refused(k)
    ELSE SetParameter(k, c, "STJDACNUM", Word(k.value))
StjSetBiasScanWaitTime(k, c) == SetParameter(k, c, "ANLGWAIT", Word(k.value))

\* One bit of a parameter of the bank.
StjSetBiasDacEnable(k, c) ==
    LET word == k.par[c]["BANKCHANENA"]
        set == (word \div 2^c) % 2 = 1
        new == IF (k.value # 0) = set THEN word
               ELSE IF set THEN word - 2^c ELSE word + 2^c IN
    Then(Read(k), LAMBDA a :
         IF new = word THEN Done(a) ELSE SetShared(a, "BANKCHANENA", new))

\* Only the upper end is looked at.
BoundedAbove(k, c, p, limit) ==
    IF k.value > limit THEN Refused(k) ELSE SetParameter(k, c, p, Word(k.value))

StjSetSetPmtTriggerMode(k, c) == Bounded(k, c, "TRIGMODE", 0..1)
StjSetPmtDynodeThreshold(k, c) == BoundedAbove(k, c, "DYNTHRESH", 32767)
StjSetPmtDynodeSumThreshold(k, c) == BoundedAbove(k, c, "DYNSUMTHRESH", 65536)
StjSetPmtMultiLen(k, c) == BoundedAbove(k, c, "MULTLEN", 16384)
StjSetPmtMultiReq(k, c) == BoundedAbove(k, c, "MULTREQ", 32)

\* The sign is extended.
Signed(x) == IF x >= 32768 THEN x - 65536 ELSE x
StjGetBiasDacZero(k, c) == ReadBack(k, c, "bias_dac_zero", Signed(k.par[c]["STJZERO"]))
StjGetBiasDacSetZero(k, c) ==
    ReadBack(k, c, "bias_dac_set_zero", Signed(k.par[c]["SETSTJZERO"]))

StjGetAcquisitionValues(k, c, n) ==
    CASE n = "bias_dac_zero" -> StjGetBiasDacZero(k, c)
      [] n = "bias_dac_set_zero" -> StjGetBiasDacSetZero(k, c)
      [] OTHER -> Nothing(k)

StjUpdateRawParamAcqValue(k, c) == UpdateRawParamAcqValue(k, c)

-----------------------------------------------------------------------------
(* The Saturn. *)

\* psl__GetEVPerADC
SaturnGetEVPerADC(k, c) == k.val[c]["calibration_energy"] - k.val[c]["adc_percent_rule"]

\* pslDoTriggerThreshold
SaturnDoTriggerThreshold(k, c, v) ==
    LET word == v - SaturnGetEVPerADC(k, c) IN
    IF word > MaxThreshold THEN Refused(k)
    ELSE Then(SetParameter(k, c, "THRESHOLD", word), LAMBDA a :
              Done(PslSetDefault(a, c, "trigger_threshold", v)))

\* pslDoEnergyThreshold
SaturnDoEnergyThreshold(k, c, v) ==
    Then(Read(k), LAMBDA a :
    Then(SetParameter(a, c, "SLOWTHRESH", v - SaturnGetEVPerADC(a, c)), LAMBDA b :
         Done(PslSetDefault(b, c, "energy_threshold", v))))

\* psl__SetRunTasks: one bit of the parameter RUNTASKS.
SaturnSetRunTasks(k, bit, on) ==
    Then(Read(k), LAMBDA a :
         Access(a, [a EXCEPT !.tasks = IF on THEN @ \cup {bit} ELSE @ \ {bit}]))

\* No baseline threshold: the DSP chooses it.
AutoThreshold == 0

\* psl__SetBThresh
SaturnSetBThresh(k, c, v) ==
    Then(SaturnSetRunTasks(k, "DISABLE_AUTOT", v # AutoThreshold), LAMBDA a :
    Then(Read(a), LAMBDA b :
    Then(SetParameter(b, c, "BASETHRESH",
                      IF v = AutoThreshold THEN 0 ELSE v - SaturnGetEVPerADC(b, c)),
         LAMBDA d : Done(PslSetDefault(d, c, "baseline_threshold", v)))))

\* pslCalculateGain: what the amplifier has to do; BINFACT1 is written.
SaturnGain(k, c, preamp) ==
    FullScale + k.val[c]["adc_percent_rule"] - k.val[c]["calibration_energy"] - preamp
SaturnCalculateGain(k, c, preamp) ==
    IF SaturnGain(k, c, preamp) \notin 0..MaxGain THEN Refused(k)
    ELSE SetParameter(k, c, "BINFACT1", k.val[c]["mca_bin_width"] - SaturnGetEVPerADC(k, c))

\* pslQuickRun: a run is started and waited for; it may take too long.
SaturnQuickRun(k) == Then(Read(k), LAMBDA a : Read(a))

\* pslDoGainSetting: the gain, the thresholds, and the gain again.
SaturnDoGainSetting(k, c, preamp) ==
    LET Gain(a) == Then(SaturnCalculateGain(a, c, preamp), LAMBDA b :
                        SetParameter(b, c, "GAINDAC", SaturnGain(b, c, preamp))) IN
    Then(Read(k), LAMBDA a :
    Then(Gain(a), LAMBDA b :
    Then(SaturnDoTriggerThreshold(b, c, b.val[c]["trigger_threshold"]), LAMBDA d :
    Then(SaturnDoEnergyThreshold(d, c, d.val[c]["energy_threshold"]), LAMBDA e :
    Then(Gain(e), LAMBDA f : SaturnQuickRun(f))))))

\* Mutant: nothing to do when the entry says so already.
MutDoADCPercentRule(k, c) ==
    IF k.val[c]["adc_percent_rule"] = k.value THEN Done(k)
    ELSE SaturnDoGainSetting(PslSetDefault(k, c, "adc_percent_rule", k.value), c, k.det[c])

\* The entry is changed before the gain is, and stays.
SaturnDoADCPercentRule(k, c) ==
    SaturnDoGainSetting(PslSetDefault(k, c, "adc_percent_rule", k.value), c, k.det[c])
SaturnDoCalibrationEnergy(k, c) ==
    SaturnDoGainSetting(PslSetDefault(k, c, "calibration_energy", k.value), c, k.det[c])
SaturnDoMCABinWidth(k, c) ==
    SaturnDoGainSetting(PslSetDefault(k, c, "mca_bin_width", k.value), c, k.det[c])

\* Mutant: the Detector is changed before the gain is found in range.
MutDoPreampGain(k, c) ==
    Then(SaturnDoGainSetting([k EXCEPT !.det[c] = k.value], c, k.value), LAMBDA a :
         Done(PslSetDefault(a, c, "preamp_gain", k.value)))

\* Detector and entry are changed after the gain is.
SaturnDoPreampGain(k, c) ==
    Then(SaturnDoGainSetting(k, c, k.value), LAMBDA a :
         Done(PslSetDefault([a EXCEPT !.det[c] = k.value], c, "preamp_gain", k.value)))

SaturnGainCalibrate(k, c, delta) ==
    SaturnDoPreampGain([k EXCEPT !.value = k.val[c]["preamp_gain"] - delta], c)

\* psl__AdjustPercentRule: nothing is reset when the gain cannot be set.
SaturnAdjustPercentRule(k, c, delta) ==
    SaturnDoGainSetting(PslSetDefault(k, c, "adc_percent_rule",
                                      k.val[c]["adc_percent_rule"] + delta),
                        c, k.val[c]["preamp_gain"])

\* pslDoEnableGate: read when a run starts.
SaturnDoEnableGate(k, c) == Done(PslSetDefault(k, c, "enable_gate", k.value))

SaturnDoEnableBaselineCut(k, c) ==
    Then(SaturnSetRunTasks(k, "BASELINE_CUT", k.value = 1), LAMBDA a :
         Done(PslSetDefault(a, c, "enable_baseline_cut", k.value)))

\* A value that is written as it is converted, and remembered as it was.
Remembered(k, c, n, word) ==
    Then(SetParameter(k, c, ParamOf[n], word), LAMBDA a : Done(PslSetDefault(a, c, n, k.value)))

\* In percent of 32768.
CutWord(v) == (32768 * v) \div 100
SaturnDoBaselineCut(k, c) == Remembered(k, c, "baseline_cut", Word(CutWord(k.value)))

\* The length is brought into its range, but not in the entry.
LengthWord(v) == 32768 \div Clamp(v, 1, 32768)
SaturnDoBaselineFilterLength(k, c) ==
    Remembered(k, c, "baseline_filter_length", LengthWord(k.value))

\* pslDoParam
SaturnDoParam(k, c) ==
    SetParameter(PslSetDefault(k, c, "RAWPARAM", k.value), c, "RAWPARAM", Word(k.value))

SaturnSynchPreampGain(k, c) == PslSetDefault(k, c, "preamp_gain", k.det[c])
MercurySynchPreampGain(k, c) == PslSetDefault(k, c, "preamp_gain", k.det[c])
StjSynchPreampGain(k, c) == PslSetDefault(k, c, "preamp_gain", k.det[c])

-----------------------------------------------------------------------------
(* The acquisition values of each product, by name. *)

MercurySetter(k, c, n) ==
    CASE n = "dynamic_range" -> MercurySetDynamicRng(k, c)
      [] n = "calibration_energy" -> MercurySetCalibEV(k, c)
      [] n = "mca_bin_width" -> MercurySetMCABinWidth(k, c)
      [] n = "trigger_threshold" -> MercurySetTThresh(k, c, k.value)
      [] n = "baseline_threshold" -> MercurySetBThresh(k, c, k.value)
      [] n = "energy_threshold" -> MercurySetEThresh(k, c, k.value)
      [] n = "preamp_gain" -> MercurySetPreampGain(k, c)
      [] n = "delta_temp" -> MercurySetDeltaTemp(k, c)
      [] n = "temp_correction" -> MercurySetTempCorrection(k, c)
      [] n = "trigger_output" -> MercurySetTriggerOutput(k, c)
      [] n = "livetime_output" -> MercurySetLivetimeOuput(k, c)
      [] n = "calibrated_gain" -> MercurySetCalibratedGain(k)
      [] n = "calibrated_dac" -> MercurySetCalibratedDac(k)
      [] n = "gain_slope" -> MercurySetGainSlope(k)
      [] n = "calibrated_checksum" -> MercurySetCalibratedChecksum(k)
      [] n = "input_attenuation" -> MercurySetInputAttenuation(k, c)
      [] n = "input_termination" -> MercurySetInputTermination(k, c)
      [] n = "rc_time_constant" -> MercurySetRcTimeContstant(k, c)
      [] n = "rc_time" -> MercurySetRcTime(k, c)
      [] n = "trace_trigger_type" -> MercurySetTriggerType(k, c)
      [] n = "trace_trigger_position" -> MercurySetTriggerPosition(k, c)
      [] n = "adc_offset" -> MercurySetAdcOffset(k, c)
      [] n = "offset_dac" -> MercurySetOffsetDac(k, c)
      [] n = "baseline_factor" -> MercurySetBaselineFactor(k, c)
      [] n = "RAWPARAM" -> MercuryUpdateRawParamAcqValue(k, c)

StjSetter(k, c, n) ==
    CASE n = "dynamic_range" -> StjSetDynamicRng(k, c)
      [] n = "preamp_gain" -> StjSetPreampGain(k, c)
      [] n = "calibration_energy" -> StjSetCalibEV(k, c)
      [] n = "mca_bin_width" -> StjSetMCABinWidth(k, c)
      [] n = "trigger_threshold" -> StjSetTThresh(k, c, k.value)
      [] n = "energy_threshold" -> StjSetEThresh(k, c, k.value)
      [] n = "trace_trigger_enable" -> StjSetTraceTriggerEnable(k, c)
      [] n = "trace_trigger_type" -> StjSetTraceTriggerType(k, c)
      [] n = "trace_trigger_position" -> StjSetTraceTriggerPosition(k, c)
      [] n = "bias_scan_start_offset" -> StjSetBiasScanStartOffset(k, c)
      [] n = "bias_scan_steps" -> StjSetBiasScanSteps(k, c)
      [] n = "bias_scan_step_size" -> StjSetBiasScanStepSize(k, c)
      [] n = "bias_scan_wait_time" -> StjSetBiasScanWaitTime(k, c)
      [] n = "bias_dac_set_zero" -> StjSetBiasDacSetZero(k, c)
      [] n = "bias_dac_zero" -> StjSetBiasDacZero(k, c)
      [] n = "bias_set_dac" -> StjSetBiasSetDac(k, c)
      [] n = "bias_dac_enable" -> StjSetBiasDacEnable(k, c)
      [] n = "pmt_trigger_mode" -> StjSetSetPmtTriggerMode(k, c)
      [] n = "pmt_dynode_threshold" -> StjSetPmtDynodeThreshold(k, c)
      [] n = "pmt_dynode_sum_threshold" -> StjSetPmtDynodeSumThreshold(k, c)
      [] n = "pmt_multiplicity_length" -> StjSetPmtMultiLen(k, c)
      [] n = "pmt_multiplicity_requirement" -> StjSetPmtMultiReq(k, c)
      [] n = "RAWPARAM" -> StjUpdateRawParamAcqValue(k, c)

SaturnSetter(k, c, n) ==
    CASE n = "mca_bin_width" -> SaturnDoMCABinWidth(k, c)
      [] n = "energy_threshold" -> SaturnDoEnergyThreshold(k, c, k.value)
      [] n = "adc_percent_rule" -> SaturnDoADCPercentRule(k, c)
      [] n = "calibration_energy" -> SaturnDoCalibrationEnergy(k, c)
      [] n = "trigger_threshold" -> SaturnDoTriggerThreshold(k, c, k.value)
      [] n = "enable_gate" -> SaturnDoEnableGate(k, c)
      [] n = "enable_baseline_cut" -> SaturnDoEnableBaselineCut(k, c)
      [] n = "preamp_gain" -> SaturnDoPreampGain(k, c)
      [] n = "baseline_cut" -> SaturnDoBaselineCut(k, c)
      [] n = "baseline_filter_length" -> SaturnDoBaselineFilterLength(k, c)
      [] n = "baseline_threshold" -> SaturnSetBThresh(k, c, k.value)
      [] n = "RAWPARAM" -> SaturnDoParam(k, c)

SetFN(k, c, n) ==
    CASE k.product = "mercury" -> MercurySetter(k, c, n)
      [] k.product = "stj" -> StjSetter(k, c, n)
      [] k.product = "saturn" -> SaturnSetter(k, c, n)

\* Mutant: the last entry is left out.
MutUserSetup(k, c) ==
    InTurn(PslSetDefault(k, c, "preamp_gain", k.det[c]),
           Front(SelectSeq(NamesOf[k.product], LAMBDA n : n \notin ToSet(Calibrated))),
           LAMBDA a, n : SetEntry(a, c, n, SetFN(Asked(a, a.val[c][n]), c, n)))

\* pslUserSetup: the preamplifier gain is the Detector's, and every entry is set
\* in its order, but not a calibration.
UserSetup(k, c) ==
    InTurn(PslSetDefault(k, c, "preamp_gain", k.det[c]),
           SelectSeq(NamesOf[k.product], LAMBDA n : n \notin ToSet(Calibrated)),
           LAMBDA a, n : SetEntry(a, c, n, SetFN(Asked(a, a.val[c][n]), c, n)))

MercuryUserSetup(k, c) == UserSetup(MercurySynchPreampGain(k, c), c)
StjUserSetup(k, c) == UserSetup(StjSynchPreampGain(k, c), c)

\* The Saturn runs briefly before and after.
SaturnUserSetup(k, c) ==
    Then(Read(SaturnSynchPreampGain(k, c)), LAMBDA a :
    Then(UserSetup(a, c), LAMBDA b : SaturnQuickRun(b)))

\* pslModuleSetup: the settings of the Mercury's and STJ's DSP are applied.
MercuryModuleSetup(k, c) == MercuryApply(k, c)
StjModuleSetup(k, c) == Then(Read(k), LAMBDA a : Read(a))
SaturnModuleSetup(k) == Nothing(k)

-----------------------------------------------------------------------------
(* Starting the system, and the calls. *)

\* The DSP program starts with its own values.
Downloaded(k) ==
    [k EXCEPT !.tasks = {}, !.par = [c \in DOMAIN k.val |-> [p \in Params(k.product) |-> 0]]]

ModuleSetup(k, c) ==
    CASE k.product = "mercury" -> MercuryModuleSetup(k, c)
      [] k.product = "stj" -> StjModuleSetup(k, c)
      [] k.product = "saturn" -> SaturnModuleSetup(k)

\* xiaStartSystem: firmware, then every channel set up, and the module.
StartSystem(k) ==
    LET cs == SetToSortSeq(DOMAIN k.val, <) IN
    Then(InTurn(Downloaded(k), cs, LAMBDA a, c :
             CASE k.product = "mercury" -> MercuryUserSetup(a, c)
               [] k.product = "stj" -> StjUserSetup(a, c)
               [] k.product = "saturn" -> SaturnUserSetup(a, c)),
         LAMBDA b : ModuleSetup(b, cs[1]))

\* xiaSetAcquisitionValues with the name n on the channels ds.
Called(k, ds, n, v) ==
    InTurn(k, ds, LAMBDA a, c :
        LET e == Entered(a, c, n, v) IN
        PslSetAcquisitionValues(e, c, n, SetFN(Asked(e, v), c, n)))

\* xiaGetAcquisitionValues
Gotten(k, c, n) ==
    CASE k.product = "mercury" -> MercuryGetAcquisitionValues(k, c, n)
      [] k.product = "stj" -> StjGetAcquisitionValues(k, c, n)
      [] OTHER -> Nothing(k)

\* pslGainOperation
GainOperations == [mercury |-> {"calibrate"}, stj |-> {"calibrate"},
                   saturn |-> {"calibrate", "adjust_percent_rule"}]

\* xiaGainOperation, and the special run that calibrates the digital gain.
Operated(k, ds, op, delta) ==
    LET outs(a, c) ==
            CASE op = "adjust_percent_rule" -> SaturnAdjustPercentRule(a, c, delta)
              [] op = "calibrate_digital_gain" -> StjScaleDigitalGain(a, c, delta)
              [] k.product = "mercury" -> MercuryGainCalibrate(a, c, delta)
              [] k.product = "stj" -> StjGainCalibrate(a, c, delta)
              [] OTHER -> SaturnGainCalibrate(a, c, delta) IN
    {[o EXCEPT !.m.value = 0] : o \in InTurn(k, ds, outs)}

\* A module before its first start.
Blank(b, stray) ==
    Downloaded([product |-> b.product, oem |-> b.oem, first |-> b.first, value |-> 0,
                budget |-> 0, stray |-> stray, tasks |-> {}, par |-> <<>>,
                det |-> [i \in 0..2 |-> Start["preamp_gain"]],
                val |-> [c \in b.chans |-> [n \in ToSet(NamesOf[b.product]) |-> Start[n]]]])

Record(op, n, v, ds, ok) == [op |-> op, name |-> n, value |-> v, chans |-> ds, ok |-> ok]

\* It matters where a bank of an STJ has a channel that is not used.
Strays(b) ==
    IF b.product = "stj" /\ Cardinality(b.chans) = 1 THEN Values["preamp_gain"] ELSE {0}

\* A module that has just been started.
Init ==
    /\ topic \in Topics
    /\ \E b \in Boards : \E stray \in Strays(b) : \E o \in StartSystem(Blank(b, stray)) :
              o.ok /\ m = [o.m EXCEPT !.budget = MaxFaults]
    /\ last = Record("start", "none", 0, <<>>, TRUE)
    /\ calls = 0 /\ sound = FALSE

-----------------------------------------------------------------------------
(* What the hardware does is what the defaults say. *)

GainNames == {"dynamic_range", "preamp_gain", "mca_bin_width", "calibration_energy",
              "adc_percent_rule"}
Thresholds == {"trigger_threshold", "energy_threshold", "baseline_threshold"}

Gained(k, c) ==
    LET p == k.par[c]
        digital == 2 * p["MCAGAINEXP"] + p["MCAGAIN"]
        bin == k.val[c]["mca_bin_width"] IN
    CASE k.oem -> p["SWGAIN"] = SwitchedGain(k, c) /\ digital = OemEVPerADC(k, c) - bin
      [] k.product = "stj" ->
            /\ p["BANKADCGAIN"] = StjAnalogGain(k, c)
            /\ digital = FullScale - k.det[c] - StjAnalogGain(k, c) - bin
      [] k.product = "saturn" ->
            /\ p["GAINDAC"] = SaturnGain(k, c, k.det[c])
            /\ p["BINFACT1"] = bin - SaturnGetEVPerADC(k, c)
      [] OTHER -> /\ p["GAINDAC"] = MercuryGain(k, c)
                  /\ p["BINSCALE"] = bin - MercuryGetEVPerADC(k, c)

ThresholdWord(k, c, v) ==
    CASE k.product = "mercury" -> v - MercuryGetEVPerADC(k, c)
      [] k.product = "stj" -> v + StjFactor(k, c)
      [] k.product = "saturn" -> IF v = AutoThreshold THEN 0 ELSE v - SaturnGetEVPerADC(k, c)

\* Names a module does not listen to.
Unheard(k, n) ==
    \/ n \in ToSet(Calibrated) \cup {"enable_gate"}
    \/ ~k.oem /\ k.product = "mercury" /\
         n \in {"input_attenuation", "input_termination", "rc_time_constant", "rc_time",
                "trace_trigger_type", "trace_trigger_position", "adc_offset",
                "offset_dac", "baseline_factor"}
    \/ Cardinality(DOMAIN k.val) > 1 /\ n \in {"delta_temp", "temp_correction"}

Held(k, c, n) ==
    LET v == k.val[c][n] IN
    CASE v = NoEntry \/ Unheard(k, n) -> TRUE
      [] n \in GainNames -> Gained(k, c) /\ (n = "preamp_gain" => k.det[c] = v)
      [] n \in Thresholds -> k.par[c][ParamOf[n]] = ThresholdWord(k, c, v)
      [] n = "input_attenuation" -> k.par[c]["INPUTATTEN"] = v /\ Gained(k, c)
      [] n = "rc_time" -> k.par[c]["RCTAU"] * RcParts + k.par[c]["RCTAUFRAC"] = v
      [] n = "delta_temp" -> k.par[c]["DELTATEMP"] = Word(16 * v)
      [] n = "enable_baseline_cut" -> "BASELINE_CUT" \in k.tasks <=> v = 1
      [] n = "bias_dac_enable" -> (k.par[c]["BANKCHANENA"] \div 2^c) % 2 = 1 <=> v # 0
      [] n = "baseline_cut" -> k.par[c]["BLCUT"] = Word(CutWord(v))
      [] n = "baseline_filter_length" -> k.par[c]["BLFILTER"] = LengthWord(v)
      [] OTHER -> k.par[c][ParamOf[n]] = Word(v)

\* The channels of an STJ, whose bank has one gain, ask for the same.
BankAgrees(k) ==
    k.product = "stj" => \A c, d \in DOMAIN k.val, n \in {"dynamic_range", "mca_bin_width"} :
                             k.val[c][n] = k.val[d][n]

AllHeld(k) ==
    BankAgrees(k) /\ \A c \in DOMAIN k.val, n \in ToSet(NamesOf[k.product]) : Held(k, c, n)

-----------------------------------------------------------------------------
(* The behaviours. *)

Known(k) == topic \cap ToSet(NamesOf[k.product])

\* A call is made.
Call == calls < MaxCalls /\ calls' = calls + 1 /\ sound' = AllHeld(m) /\ UNCHANGED topic

SetValue(ds, n, v) ==
    /\ Call
    /\ \E o \in Called(m, ds, n, v) :
          m' = o.m /\ last' = Record("set", n, v, ds, o.ok)

GetValue(c, n) ==
    /\ Call
    /\ \E o \in Gotten(m, c, n) :
          m' = o.m /\ last' = Record("get", n, 0, <<c>>, o.ok)

GainOperation(ds, op, delta) ==
    /\ Call
    /\ op \in GainOperations[m.product]
         \cup (IF m.product = "stj" THEN {"calibrate_digital_gain"} ELSE {})
    /\ \E o \in Operated(m, ds, op, delta) :
          m' = o.m /\ last' = Record(op, "none", delta, ds, o.ok)

\* Special runs of the Mercury OEM.
AdjustOffsets(c, offset) ==
    /\ Call /\ m.product = "mercury"
    /\ \E o \in MercuryAdjustOffsets(m, c, offset) :
          m' = o.m /\ last' = Record("adjust_offsets", "none", offset, <<c>>, o.ok)
CalibrateRcTime(c) ==
    /\ Call /\ m.product = "mercury"
    /\ \E o \in MercuryCalibrateRcTime(m, c) :
          m' = o.m /\ last' = Record("calibrate_rc_time", "none", 0, <<c>>, o.ok)

\* The DSP of a Mercury with one channel follows the temperature.
Drift(c, by) ==
    /\ Call /\ m.product = "mercury" /\ m.par[c]["TEMPCORRECTION"] # 0
    /\ m' = [m EXCEPT !.par[c]["SETGDAC"] = m.par[c]["GAINDAC"] + by]
    /\ last' = Record("drift", "none", by, <<c>>, TRUE)

\* Without faults.
Sound(k) == [k EXCEPT !.budget = 0]

\* xiaStartSystem again.
Restart ==
    /\ Call
    /\ \E o \in StartSystem(Sound(m)) :
          /\ m' = [o.m EXCEPT !.budget = m.budget]
          /\ last' = Record("start", "none", 0, <<>>, o.ok)

All == SetToSortSeq(DOMAIN m.val, <)      \* detChan -1

Next ==
    \/ \E n \in Known(m) : \E v \in Values[n] :
          \/ \E c \in DOMAIN m.val : SetValue(<<c>>, n, v)
          \/ SetValue(All, n, v)
    \/ \E n \in Known(m), c \in DOMAIN m.val : GetValue(c, n)
    \/ \E op \in topic, delta \in Deltas :
          \/ \E c \in DOMAIN m.val : GainOperation(<<c>>, op, delta)
          \/ GainOperation(All, op, delta)
    \/ "adjust_offsets" \in topic /\
          \E c \in DOMAIN m.val, x \in Values["adc_offset"] : AdjustOffsets(c, x)
    \/ "calibrate_rc_time" \in topic /\ \E c \in DOMAIN m.val : CalibrateRcTime(c)
    \/ "drift" \in topic /\ \E c \in DOMAIN m.val, by \in Deltas : Drift(c, by)
    \/ Restart

Spec == Init /\ [][Next]_vars

-----------------------------------------------------------------------------
(* Properties. *)

\* What a call with success leaves behind, by the code: the thresholds of an
\* STJ, computed from the gain that was remembered before, or of a channel that
\* did not ask; an STJ bank whose digital gains alone were calibrated, or whose
\* channels disagree; the baseline threshold of the Saturn; the attenuation of
\* the Mercury OEM, which takes effect with the next change of the gain.
LeftBehind(k, call, n) ==
    \/ k.product = "stj" /\ n \in Thresholds
         /\ (call.name \in GainNames \/ call.op \in {"calibrate", "calibrate_digital_gain"})
    \/ k.product = "stj" /\ n \in GainNames /\ call.op = "calibrate_digital_gain"
    \/ n \in GainNames \cup Thresholds /\ ~BankAgrees(k)
    \/ k.product = "saturn" /\ n = "baseline_threshold"
         /\ (call.name \in {"adc_percent_rule", "calibration_energy"}
               \/ call.op = "adjust_percent_rule")
    \/ k.oem /\ call.name = "input_attenuation"
         /\ n \in GainNames \cup Thresholds \cup {"input_attenuation"}
    \/ call.op = "calibrate_rc_time" /\ n = "rc_time"

\* A value that is set with success is what the hardware has, also when an
\* earlier call failed half way; and a call that failed and is made again with
\* success repairs all of it.  With temperature correction, a change of the gain
\* reports the calibration that the DSP has made with it.
SuccessHolds ==
    [][/\ last'.ok /\ last'.op = "set" /\ ~LeftBehind(m', last', last'.name) =>
            \/ m'.product = "stj" /\ ~BankAgrees(m')
            \/ \A c \in ToSet(last'.chans) : Held(m', c, last'.name)
       /\ /\ last'.ok /\ last'.op \in {"set", "calibrate"}
          /\ last = [last' EXCEPT !.ok = FALSE] /\ sound
          => \A c \in DOMAIN m.val, n \in ToSet(NamesOf[m.product]) :
                LeftBehind(m', last', n) \/ Held(m', c, n)
       /\ /\ last'.ok /\ last'.op = "set" /\ m.product = "mercury"
          /\ last'.name \in GainNames \cup {"temp_correction"}
          => \A c \in ToSet(last'.chans), i \in 1..4 :
                ~Corrected(m', c)
                \/ m'.val[c][Calibrated[i]] = m'.par[c][ParamOf[Calibrated[i]]]]_vars

\* A call with success leaves what the other names stand for as it was, on every
\* channel: the thresholds follow the gain.
OthersKept ==
    [][last'.ok /\ m'.budget = m.budget =>
        \A c \in DOMAIN m.val, n \in ToSet(NamesOf[m.product]) :
            \/ LeftBehind(m', last', n)
            \/ Held(m, c, n) => Held(m', c, n)]_vars

\* The Detector and the defaults agree on the preamplifier gain after every
\* success, in the Saturn after every call.  (The STJ calibrates a digital gain
\* with the detChan for an index.)
DetectorAgrees ==
    [][/\ last'.ok \/ m.product = "saturn"
       /\ last'.op = "calibrate_digital_gain" => m.first = 0
       => \A c \in DOMAIN m.val :
             m.det[c] = m.val[c]["preamp_gain"] => m'.det[c] = m'.val[c]["preamp_gain"]]_vars

\* Calibrating the gain changes the gain by the factor asked for, whatever the
\* temperature has done to it, and the thresholds of the Mercury with it.
CalibrationScales ==
    [][/\ last'.ok /\ last'.op = "calibrate" /\ ~m.oem /\ m.product # "stj" /\ AllHeld(m)
       => \A c \in ToSet(last'.chans) :
             /\ m'.par[c]["GAINDAC"] = last'.value +
                    (IF Corrected(m, c) THEN m.par[c]["SETGDAC"] ELSE m.par[c]["GAINDAC"])
             /\ m.product = "mercury" => \A n \in Thresholds :
                    m'.par[c][ParamOf[n]] = m.par[c][ParamOf[n]] + last'.value]_vars

\* The module is started again from the values it reports: the start succeeds,
\* they hold, and the gains are the same.
RestartHolds ==
    AllHeld(m) =>
        \A o \in StartSystem(Sound(m)) :
            /\ o.ok
            /\ \A c \in DOMAIN m.val :
                  /\ \A n \in ToSet(NamesOf[m.product]) \ ToSet(Calibrated) :
                         Held(o.m, c, n) /\ o.m.val[c][n] = m.val[c][n]
                  /\ \A p \in {"GAINDAC", "SWGAIN", "BANKADCGAIN"} :
                         o.m.par[c][p] = m.par[c][p]

\* The comment in psl__AdjustPercentRule of the Saturn: when the gain cannot be
\* set, it is reset to the previous value.
AdjustReverts ==
    [][last'.op = "adjust_percent_rule" /\ ~last'.ok =>
        \A c \in DOMAIN m.val : m'.val[c]["adc_percent_rule"] = m.val[c]["adc_percent_rule"]]_vars
=============================================================================
