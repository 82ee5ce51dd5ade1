----------------------------- MODULE UdxpValues -----------------------------
(***************************************************************************)
(* The acquisition values of a microDXP: a cache over its registers.       *)
(*                                                                         *)
(* Other products compute their registers from the values; a microDXP      *)
(* keeps its settings on the board, in sets of parameters (parset, genset) *)
(* for each FiPPI configuration, and the host reads a value when it is     *)
(* asked for one it does not know.  An entry of the defaults is "unknown"  *)
(* (AV_STATE_UNKNOWN), "synced" (AV_STATE_SYNCD) or "absent" (not in the   *)
(* list).  Every setter must forget the entries that its command changes   *)
(* behind the host's back (INVALIDATE).                                    *)
(*                                                                         *)
(* A board is a record k:                                                  *)
(*   par      its registers, as commands read and write them               *)
(*   parsets, gensets  its flash memory, by <<fippi, parset>> and genset   *)
(*   entry, val  state and data of each entry of the defaults              *)
(*   got, value  what the last get returned; the double passed to a set    *)
(*   super, vega  dxp_is_supermicro, dxp_is_vega; a standard one is neither *)
(*   switched     GAINMODE: the gain is a switch's and a digital one        *)
(*   room, words  what a run data length and the run data it is for said   *)
(*   budget   commands that may still fail                                 *)
(*                                                                         *)
(* Times are in quarters of the base clock's tick: clock_speed is given as *)
(* a period.  Gains are logarithms in half steps of the amplifier.         *)
(***************************************************************************)
EXTENDS Outcomes, FiniteSets

CONSTANTS Topics,      \* sets of names used together
          Values,      \* what the application asks for, by name
          FlashValue(_, _, _), \* a parameter in the flash of a <<FiPPI, set>>
          MaxSlow,     \* MAX_FILTER_PARAM
          MaxTimer,    \* MAX_FILTER_TIMER
          MaxFast,     \* the longest fast filter of a super microDXP, with its gap
          StandardFast, \* and of a standard one
          MaxGain,     \* MAX_GAINBASE, GAIN_LINEAR_MAX, in half steps
          MaxTrim,     \* GAIN_TRIM_LINEAR_MAX
          MaxThreshold, MaxBins, MaxBinWidth, MaxScas, MaxPreset, MaxInterval,
          MaxTau, MaxWait, MaxVolts, BaselineScale,
          MaxFaults,   \* commands that fail
          MaxCalls     \* calls of the application

FilterParams == {"SLOWLEN", "SLOWGAP", "PEAKINT", "PEAKSAM", "FASTLEN", "FASTGAP",
                 "MAXWIDTH", "PEAKMODE", "BFACTOR", "BLFILTER"}
EnergyParams == {"THRESHT", "THRESHB", "THRESHE", "GAINTWEAK"}
SpectrumParams == {"GAINBASE", "SWGAIN", "DGAINBASE", "BINWIDTH", "MCALEN", "NUMSCA", "SCA0LO", "SCA1HI"}
GlobalParams == {"PARSET", "GENSET", "FIPPI", "CLOCK", "RUNTASKS", "FIPCONTROL",
                 "POLARITY", "CODEVAR", "RESETINT", "TAURC", "PRESET", "PRESETLEN",
                 "TRACETRIG", "TRACEPRETRIG", "TRACEWAIT", "SCATIMEON", "SCATIMEOFF",
                 "VOLTS"}
Params == FilterParams \cup EnergyParams \cup SpectrumParams \cup GlobalParams

\* The names of the acqVals table in their order, and the limits of two SCAs,
\* which the application adds to the list.
Names == <<"parset", "genset", "clock_speed", "energy_gap_time", "trigger_peak_time",
           "trigger_gap_time", "baseline_length", "trigger_threshold",
           "baseline_threshold", "energy_threshold", "number_mca_channels",
           "mca_bin_width", "fippi", "bytes_per_bin", "adc_trace_wait", "gain_trim",
           "gain", "polarity", "preamp_value", "fipcontrol", "runtasks",
           "peak_interval", "peak_sample", "max_width", "peak_mode",
           "baseline_factor", "peaking_time", "peakint_offset", "peaksam_offset",
           "trace_trigger_type", "trace_trigger_position", "number_of_scas",
           "sca_time_on", "sca_time_off", "auto_adjust_offset", "preset_type",
           "preset_value", "high_voltage", "sca0_lo", "sca1_hi">>

NameSet == ToSet(Names)

\* AV_MEM_R_PAR
ParsetMembers == NameSet \ {"genset", "clock_speed", "number_mca_channels",
    "mca_bin_width", "fippi", "bytes_per_bin", "adc_trace_wait", "gain", "polarity",
    "preamp_value", "fipcontrol", "runtasks", "sca0_lo", "sca1_hi"}

\* What the registers of the filters may hold in the flash memory, and what the
\* microprocessor keeps them within.
RegisterValues(p) ==
    CASE p = "CLOCK" -> 0..3
      [] p \in {"PARSET", "GENSET", "FIPPI"} -> {0, 1}
      [] p = "BFACTOR" -> 0..6
      [] p \in {"SLOWLEN", "SLOWGAP"} -> 0..MaxSlow
      [] p \in {"PEAKINT", "PEAKSAM"} -> 0..MaxTimer
      [] p = "BLFILTER" -> Nat \ {0}
      [] OTHER -> Int

\* Offsets are the times that may be negative.
Offsets == {"peakint_offset", "peaksam_offset"}

ASSUME LimitsAssumption ==
    /\ {MaxTimer, MaxFast, StandardFast, MaxGain, MaxTrim, MaxThreshold, MaxBins, MaxBinWidth,
        MaxScas, MaxPreset, MaxInterval, MaxTau, MaxWait, MaxVolts, BaselineScale, MaxFaults,
        MaxCalls} \subseteq Nat
    /\ MaxSlow \in Nat \ {0, 1, 2}
    /\ MaxSlow + MaxTimer < 65536

ASSUME ValuesAssumption == \A t \in Topics :
    /\ t \subseteq NameSet
    /\ \A n \in t : Values[n] \subseteq (IF n \in Offsets THEN Int ELSE Nat)
    /\ "genset" \in t => Values["genset"] \subseteq {0, 1}
    /\ "baseline_length" \in t => 0 \notin Values["baseline_length"]

ASSUME FlashAssumption == \A f \in {0, 1}, s \in {0, 1}, p \in Params :
    FlashValue(f, s, p) \in RegisterValues(p)

VARIABLES k,        \* the board and its defaults
          topic,    \* the names of this behaviour
          outdated, \* entries the code is known to leave behind
          upset,    \* a call failed half way, or the clock was set between two
                    \* speeds
          last,     \* the last call: [op, name, ok]
          calls     \* how many there were

vars == <<k, topic, outdated, upset, last, calls>>

-----------------------------------------------------------------------------
(* Commands.  One that fails may have been executed: the answer was lost.   *)

Command(b, n) == Done(n) \cup
    (IF b.budget = 0 THEN {}
     ELSE Refused([b EXCEPT !.budget = @ - 1]) \cup Refused([n EXCEPT !.budget = b.budget - 1]))

\* A command that sets a register, one that reads it.
Write(b, p, x) == Command(b, [b EXCEPT !.par[p] = x])
Read(b, p) == Command(b, [b EXCEPT !.got = b.par[p]])

\* pslSetParameter, pslGetParameter
UdxpSetParameter(b, p, x) == Write(b, p, x)
UdxpGetParameter(b, p) == Read(b, p)

\* pslSetFilterParam, pslGetFilterParam: the same by number.
UdxpSetFilterParam(b, p, x) == Write(b, p, x)
UdxpGetFilterParam(b, p) == Read(b, p)

\* What was got, worked on.
Got(outs, F(_)) == Then(outs, LAMBDA a : Done([a EXCEPT !.got = F(@)]))

\* A set ends with the value it has made of the request.
Valued(b, v) == Done([b EXCEPT !.value = v])

-----------------------------------------------------------------------------
(* The cache. *)

\* pslInvalidate
Invalidate(b, n) ==
    IF b.entry[n] = "absent" THEN Refused(b)
    ELSE Done([b EXCEPT !.entry[n] = "unknown"])

\* INVALIDATE of the names of ns that S holds, up to the first that is not there.
ForgetThose(b, ns, S) ==
    LET missing == {i \in DOMAIN ns : ns[i] \in S /\ b.entry[ns[i]] = "absent"}
        reached == {ns[i] : i \in {j \in DOMAIN ns : \A g \in missing : j < g}}
        left == [b EXCEPT !.entry = [n \in DOMAIN b.entry |->
                     IF n \in reached \cap S THEN "unknown" ELSE b.entry[n]]]
    IN IF missing = {} THEN Done(left) ELSE Refused(left)
Forget(b, ns) == ForgetThose(b, ns, ToSet(ns))

\* pslInvalidateAll(AV_MEM_PARSET)
UdxpInvalidateAll(b) == ForgetThose(b, Names, ParsetMembers)

\* pslGetAcquisitionValues
UdxpGetAcquisitionValues(b, n, outs) ==
    IF b.entry[n] = "synced" THEN Done([b EXCEPT !.got = b.val[n]])
    ELSE Then(outs, LAMBDA a :
         Done(IF a.entry[n] = "absent" THEN a
              ELSE [a EXCEPT !.entry[n] = "synced", !.val[n] = a.got]))

\* pslGetDefault: the entry's data, whatever its state.
UdxpGetDefault(b, n) ==
    IF b.entry[n] = "absent" THEN Refused(b) ELSE Done([b EXCEPT !.got = b.val[n]])

-----------------------------------------------------------------------------
(* Times. *)

\* ROUND(x / t)
Rounded(x, t) == IF x < 0 THEN -((2 * (-x) + t) \div (2 * t)) ELSE (2 * x + t) \div (2 * t)

Word(x) == x % 65536
Larger(a, b) == IF a > b THEN a ELSE b
Smaller(a, b) == IF a < b THEN a ELSE b

\* 2^i
PowerOfTwo(i) == <<1, 2, 4, 8, 16, 32, 64, 128>>[i + 1]

\* The period of the clock divided by 2^i.
Period(i) == 4 * PowerOfTwo(i)

\* DECIMATION of a FiPPI configuration.
Decimation(b) == 2 * b.par["FIPPI"]

UdxpGetClockSpd(b) == Got(Read(b, "CLOCK"), Period)
Clock(b) == UdxpGetAcquisitionValues(b, "clock_speed", UdxpGetClockSpd(b))

\* The clock's tick in a filter: the cached period, the board's decimation.
UdxpGetClockTick(b) ==
    Then(Clock(b), LAMBDA a :
         Command(a, [a EXCEPT !.got = @ * PowerOfTwo(Decimation(a))]))

\* The divider whose speed is nearest in logarithm; the code refuses others.
Dividers(period) ==
    {i \in 0..3 : /\ Period(i) * Period(i) <= 2 * period * period
                  /\ period * period < 2 * Period(i) * Period(i)}

\* The entry keeps the speed asked for.
UdxpSetClockSpd(b, v) ==
    IF Dividers(v) = {} THEN Refused(b)
    ELSE Then(Write(b, "CLOCK", CHOOSE i \in Dividers(v) : TRUE), LAMBDA a :
         Then(Forget(a, <<"energy_gap_time", "trigger_peak_time", "trigger_gap_time",
                          "peak_interval">>), LAMBDA c : Valued(c, v)))

-----------------------------------------------------------------------------
(* The sets of parameters. *)

\* The parameters a parset and a genset hold.
ParsetParams(b) == FilterParams \cup (IF b.super THEN EnergyParams ELSE {})
GensetParams(b) == SpectrumParams \cup (IF b.super THEN {} ELSE EnergyParams)

\* The board takes over a set from its flash memory.
LoadParset(b, f, s) ==
    [b EXCEPT !.par = [p \in Params |->
        IF p \in ParsetParams(b) THEN b.parsets[<<f, s>>][p]
        ELSE IF p = "PARSET" THEN s ELSE IF p = "FIPPI" THEN f ELSE b.par[p]]]
LoadGenset(b, s) ==
    [b EXCEPT !.par = [p \in Params |->
        IF p \in GensetParams(b) THEN b.gensets[s][p]
        ELSE IF p = "GENSET" THEN s ELSE b.par[p]]]

UdxpGetNumPtPerFiPPI == 2
UdxpGetNumFiPPIs == 2

UdxpSetParset(b, v) ==
    IF v >= UdxpGetNumPtPerFiPPI THEN Refused(b)
    ELSE Then(Command(b, LoadParset(b, b.par["FIPPI"], v)), LAMBDA a :
         Then(Forget(a, <<"energy_gap_time", "trigger_peak_time", "trigger_gap_time",
               "baseline_length", "trigger_threshold", "baseline_threshold",
               "energy_threshold", "gain_trim", "peak_interval", "peak_sample",
               "peak_mode", "peakint_offset", "peaksam_offset", "max_width",
               "peaking_time", "baseline_factor">>), LAMBDA c : Valued(c, v)))

UdxpSetGenset(b, v) ==
    Then(Command(b, LoadGenset(b, v)), LAMBDA a :
    Then(Forget(a, <<"number_mca_channels", "mca_bin_width", "number_of_scas", "gain",
          "trigger_threshold", "baseline_threshold", "energy_threshold",
          "gain_trim">>), LAMBDA c : Valued(c, v)))

UdxpSetFiPPI(b, v) ==
    IF v >= UdxpGetNumFiPPIs THEN Refused(b)
    ELSE Then(Command(b, LoadParset(b, v, b.par["PARSET"])), LAMBDA a :
         Then(UdxpInvalidateAll(a), LAMBDA c : Valued(c, v)))

\* pslDownloadFirmware: the FiPPI of a standard board, and nothing forgotten.
UdxpDownloadFirmware(b, f) ==
    IF b.super THEN Refused(b) ELSE Command(b, LoadParset(b, f, b.par["PARSET"]))

UdxpSaveParset(b, s) ==
    IF s >= UdxpGetNumPtPerFiPPI THEN Refused(b)
    ELSE Command(b, [b EXCEPT !.parsets[<<b.par["FIPPI"], s>>] =
                         [p \in ParsetParams(b) |-> b.par[p]]])
UdxpSaveGenset(b, s) ==
    Command(b, [b EXCEPT !.gensets[s] = [p \in GensetParams(b) |-> b.par[p]]])

UdxpGetParset(b) == Read(b, "PARSET")
UdxpGetGenset(b) == Read(b, "GENSET")
UdxpGetFiPPI(b) == Read(b, "FIPPI")

-----------------------------------------------------------------------------
(* The energy filter and the timers of its peak. *)

UdxpGetEGapTime(b) ==
    Then(UdxpGetParameter(b, "SLOWGAP"), LAMBDA a :
    Then(UdxpGetClockTick(a), LAMBDA c : Done([c EXCEPT !.got = a.got * c.got])))

UdxpGetPeakingTime(b) ==
    Then(UdxpGetClockTick(b), LAMBDA a :
         Got(UdxpGetParameter(a, "SLOWLEN"), LAMBDA x : x * a.got))
UdxpSetPeakingTime(b, v) == Refused(b)

UdxpGetPeakInt(b) ==
    Then(UdxpGetFilterParam(b, "PEAKINT"), LAMBDA a :
         Got(UdxpGetClockTick(a), LAMBDA t : a.got * t))
UdxpGetPeakSam(b) ==
    Then(UdxpGetFilterParam(b, "PEAKSAM"), LAMBDA a :
         Got(UdxpGetClockTick(a), LAMBDA t : a.got * t))

UdxpGetPeakIntOffset(b) ==
    Then(UdxpGetClockTick(b), LAMBDA a : Got(Read(a, "PEAKINT"),
         LAMBDA x : (x - a.par["SLOWLEN"] - a.par["SLOWGAP"]) * a.got))
UdxpGetPeakSamOffset(b) ==
    Then(UdxpGetClockTick(b), LAMBDA a : Got(Read(a, "PEAKSAM"),
         LAMBDA x : (a.par["SLOWLEN"] + a.par["SLOWGAP"] - x) * a.got))

\* A timer is set by itself: the offset is not known any more.
UdxpSetPeakInt(b, v) ==
    Then(UdxpGetClockTick(b), LAMBDA a :
         LET x == Rounded(v, a.got) IN
         IF x > MaxTimer THEN Refused(a)
         ELSE Then(UdxpSetFilterParam(a, "PEAKINT", x), LAMBDA c :
              Then(Invalidate(c, "peakint_offset"), LAMBDA d : Valued(d, x * a.got))))
UdxpSetPeakSam(b, v) ==
    Then(UdxpGetClockTick(b), LAMBDA a :
         LET x == Rounded(v, a.got) IN
         IF x > MaxTimer THEN Refused(a)
         ELSE Then(UdxpSetFilterParam(a, "PEAKSAM", x), LAMBDA c :
              Then(Invalidate(c, "peaksam_offset"), LAMBDA d : Valued(d, x * a.got))))

\* What is forgotten when a condition holds.
ForgetIf(b, cond, n) == IF cond THEN Invalidate(b, n) ELSE Done(b)

\* pslUpdateFilterParams: both timers from the filter's length and the two
\* offsets; got is the pair of offsets that came of it.
UdxpUpdateFilterParams(b, pi, ps) ==
    Then(UdxpGetClockTick(b), LAMBDA a :
         LET t == a.got
             length == a.par["SLOWLEN"] + a.par["SLOWGAP"]
             asked == Word(length + Rounded(pi, t))
             interval == Smaller(asked, MaxTimer)
             wanted == length * t - ps
             rounded == Word(Rounded(wanted, t))
             sample == IF wanted < 0 THEN 0 ELSE Smaller(rounded, interval)
         IN Then(ForgetIf(a, asked > MaxTimer, "peakint_offset"), LAMBDA c :
            Then(UdxpSetFilterParam(c, "PEAKINT", interval), LAMBDA d :
            Then(ForgetIf(d, wanted < 0 \/ rounded > interval, "peaksam_offset"),
                 LAMBDA e :
            Then(UdxpSetFilterParam(e, "PEAKSAM", sample), LAMBDA f :
            Then(Forget(f, <<"peak_sample", "peak_interval">>), LAMBDA g :
                 Done([g EXCEPT !.got = <<(interval - length) * t,
                                          (length - sample) * t>>])))))))

SampleOffset(b) == UdxpGetAcquisitionValues(b, "peaksam_offset", UdxpGetPeakSamOffset(b))
IntervalOffset(b) == UdxpGetAcquisitionValues(b, "peakint_offset", UdxpGetPeakIntOffset(b))

UdxpSetPeakIntOffset(b, v) ==
    Then(SampleOffset(b), LAMBDA a :
    Then(UdxpUpdateFilterParams(a, v, a.got), LAMBDA c : Valued(c, c.got[1])))
UdxpSetPeakSamOffset(b, v) ==
    Then(IntervalOffset(b), LAMBDA a :
    Then(UdxpUpdateFilterParams(a, a.got, v), LAMBDA c : Valued(c, c.got[2])))

\* SLOWGAP within its limits; a super microDXP takes steps of 2^(BFACTOR + 1).
SlowGap(b, v, t) ==
    LET most == IF b.super THEN MaxSlow - b.par["SLOWLEN"] ELSE MaxSlow - 2
        gap == Smaller(Larger(Rounded(v, t), IF b.super THEN 0 ELSE 1), most)
    IN IF b.super THEN gap - (gap % PowerOfTwo(b.par["BFACTOR"] + 1)) ELSE gap

\* The gap moves the peak, and the timers are set again from the offsets.  Where
\* the host does not know an offset it is read from the board, whose gap is
\* already the new one.
UdxpSetEGapTime(b, v) ==
    Then(UdxpGetClockTick(b), LAMBDA a : LET t == a.got IN
    Then(UdxpSetFilterParam(a, "SLOWGAP", SlowGap(a, v, t)), LAMBDA c :
    Then(SampleOffset(c), LAMBDA d : LET ps == d.got IN
    Then(IntervalOffset(d), LAMBDA e :
    Then(UdxpUpdateFilterParams(e, e.got, ps), LAMBDA f :
         Valued(f, SlowGap(a, v, t) * t))))))

UdxpGetPeakMode(b) == UdxpGetFilterParam(b, "PEAKMODE")
UdxpSetPeakMode(b, v) ==
    IF ~b.super \/ v \notin {0, 1} THEN Refused(b)
    ELSE Then(UdxpSetFilterParam(b, "PEAKMODE", v), LAMBDA a : Valued(a, v))
UdxpGetBFactor(b) == UdxpGetFilterParam(b, "BFACTOR")
UdxpSetBFactor(b, v) == Refused(b)

-----------------------------------------------------------------------------
(* The fast filter, the baseline and the limits on pulses. *)

\* A time that is a number of clock ticks.
Ticks(b, p) ==
    Then(Clock(b), LAMBDA a : Got(UdxpGetFilterParam(a, p), LAMBDA x : x * a.got))
UdxpGetTPeakTime(b) == Ticks(b, "FASTLEN")
UdxpGetTGapTime(b) == Ticks(b, "FASTGAP")
UdxpGetMaxWidth(b) == Ticks(b, "MAXWIDTH")

\* MAX_FASTLEN
MaxFastLen(b) == IF b.super THEN MaxFast ELSE StandardFast

\* Mutant: a gap that was cut is not forgotten.
MutSetTPeakTime(b, v) ==
    Then(Clock(b), LAMBDA a :
         LET x == Smaller(Larger(Rounded(v, a.got), 2), MaxFastLen(b)) IN
         Then(UdxpSetFilterParam(a, "FASTLEN", x), LAMBDA c :
         Then(IF x + c.par["FASTGAP"] <= MaxFastLen(b) THEN Done(c)
              ELSE UdxpSetFilterParam(c, "FASTGAP", MaxFastLen(b) - x), LAMBDA e :
              Valued(e, x * a.got))))

\* A longer filter may cut the gap.
UdxpSetTPeakTime(b, v) ==
    Then(Clock(b), LAMBDA a :
         LET x == Smaller(Larger(Rounded(v, a.got), 2), MaxFastLen(b)) IN
         Then(UdxpSetFilterParam(a, "FASTLEN", x), LAMBDA c :
         Then(IF x + c.par["FASTGAP"] <= MaxFastLen(b) THEN Done(c)
              ELSE Then(UdxpSetFilterParam(c, "FASTGAP", MaxFastLen(b) - x),
                        LAMBDA d : Invalidate(d, "trigger_gap_time")), LAMBDA e :
              Valued(e, x * a.got))))

\* The bound on the gap is that of the super microDXP, whatever the board.
UdxpSetTGapTime(b, v) ==
    Then(Clock(b), LAMBDA a :
         LET x == Smaller(Rounded(v, a.got), MaxFast - a.par["FASTLEN"]) IN
         Then(UdxpSetFilterParam(a, "FASTGAP", x), LAMBDA c : Valued(c, x * a.got)))

UdxpSetMaxWidth(b, v) ==
    Then(Clock(b), LAMBDA a :
         LET x == Smaller(Rounded(v, a.got), MaxSlow) IN
         Then(UdxpSetFilterParam(a, "MAXWIDTH", x), LAMBDA c : Valued(c, x * a.got)))

\* BLFILTER is the inverse of the length.
UdxpGetBaseLen(b) == Got(Read(b, "BLFILTER"), LAMBDA x : BaselineScale \div x)
UdxpSetBaseLen(b, v) ==
    LET x == Rounded(BaselineScale, v) IN
    IF x = 0 THEN Refused(b)
    ELSE Then(Write(b, "BLFILTER", x), LAMBDA a : Valued(a, BaselineScale \div x))

-----------------------------------------------------------------------------
(* Thresholds, gain and spectrum. *)

SetThreshold(b, p, v) ==
    IF v > MaxThreshold THEN Refused(b)
    ELSE Then(Write(b, p, v), LAMBDA a : Valued(a, v))
UdxpGetTThresh(b) == Read(b, "THRESHT")
UdxpGetBThresh(b) == Read(b, "THRESHB")
UdxpGetEThresh(b) == Read(b, "THRESHE")
UdxpSetTThresh(b, v) == SetThreshold(b, "THRESHT", v)
UdxpSetBThresh(b, v) == SetThreshold(b, "THRESHB", v)
UdxpSetEThresh(b, v) == SetThreshold(b, "THRESHE", v)

\* GAINMODE tells how the gain is made of registers.
UdxpGetGainMode(b) == Command(b, b)

\* The gain, in steps, of an amplifier or of a switch and a digital gain.
BaseGain(b) ==
    IF b.switched THEN 4 * b.par["SWGAIN"] + b.par["DGAINBASE"] ELSE b.par["GAINBASE"]
UdxpGetGainbase(b) ==
    Then(UdxpGetGainMode(b), LAMBDA a : Command(a, [a EXCEPT !.got = 2 * BaseGain(a)]))

\* Mutant: the limits apply to an amplifier and a switch alike.
MutSetGainbase(b, v) ==
    Then(UdxpGetGainMode(b), LAMBDA a :
         IF v > MaxGain THEN Refused(a)
         ELSE Then(Write(a, "GAINBASE", Rounded(v, 2)), LAMBDA c : Valued(c, v)))

\* The entry keeps the gain asked for, the board the step nearest to it.
UdxpSetGainbase(b, v) ==
    Then(UdxpGetGainMode(b), LAMBDA a :
         LET x == Rounded(v, 2)
             switch == Smaller(x \div 4, 3)
         IN IF ~a.switched
            THEN IF v > MaxGain THEN Refused(a)
                 ELSE Then(Write(a, "GAINBASE", x), LAMBDA c : Valued(c, v))
            ELSE Then(Write(a, "SWGAIN", switch), LAMBDA c :
                 Then(Write(c, "DGAINBASE", x - 4 * switch), LAMBDA d : Valued(d, v))))

\* The trim multiplies the gain, and both together have a limit.
UdxpGetGainTrim(b) ==
    Then(UdxpGetGainMode(b), LAMBDA a : Then(UdxpGetGenset(a), LAMBDA c :
         Got(Read(c, "GAINTWEAK"), LAMBDA x : 2 * x)))
UdxpSetGainTrim(b, v) ==
    Then(UdxpGetGainMode(b), LAMBDA a :
         IF v > MaxTrim THEN Refused(a)
         ELSE Then(UdxpGetAcquisitionValues(a, "gain", UdxpGetGainbase(a)), LAMBDA c :
              IF v + c.got > MaxGain THEN Refused(c)
              ELSE Then(Write(c, "GAINTWEAK", Rounded(v, 2)),
                        LAMBDA d : Valued(d, 2 * Rounded(v, 2)))))

\* pslGainCalibrate, psl__GainTrimCalibrate: scaled by d; that the get failed is
\* not looked at, and the entry is written without asking whether it is there.
Calibrated(n, outs) ==
    Then(outs, LAMBDA c : Done([c EXCEPT !.entry[n] = "synced", !.val[n] = c.value]))
UdxpGainCalibrate(b, d) ==
    LET e == [b EXCEPT !.got = 0] IN
    Calibrated("gain", Anyway(UdxpGetAcquisitionValues(e, "gain", UdxpGetGainbase(e)),
                              LAMBDA a : UdxpSetGainbase(a, a.got + d)))
UdxpGainTrimCalibrate(b, d) ==
    LET e == [b EXCEPT !.got = 0] IN
    Calibrated("gain_trim",
               Anyway(UdxpGetAcquisitionValues(e, "gain_trim", UdxpGetGainTrim(e)),
                      LAMBDA a : UdxpSetGainTrim(a, a.got + d)))

UdxpGetNumMCA(b) == Read(b, "MCALEN")
UdxpSetNumMCA(b, v) ==
    IF v > MaxBins THEN Refused(b)
    ELSE Then(Write(b, "MCALEN", v), LAMBDA a : Valued(a, v))
UdxpGetBinWidth(b) == Read(b, "BINWIDTH")
UdxpSetBinWidth(b, v) ==
    IF v > MaxBinWidth \/ v < 1 THEN Refused(b)
    ELSE Then(Write(b, "BINWIDTH", v), LAMBDA a : Valued(a, v))

\* The board does not know the number of bytes per bin.
UdxpGetBytePerBin(b) == Done([b EXCEPT !.got = 3])
UdxpSetBytePerBin(b, v) == IF v \notin 1..3 THEN Refused(b) ELSE Valued(b, v)

-----------------------------------------------------------------------------
(* SCAs and presets. *)

UdxpGetMaxSCALength(b) == MaxScas

\* A number of SCAs the board cannot have is corrected as it is read.
UdxpGetNumScas(b) ==
    Then(UdxpGetParameter(b, "NUMSCA"), LAMBDA a :
         IF a.got <= UdxpGetMaxSCALength(a) THEN Done(a)
         ELSE Then(UdxpSetParameter(a, "NUMSCA", MaxScas), LAMBDA c :
                   Done([c EXCEPT !.got = MaxScas])))
UdxpSetNumScas(b, v) ==
    IF v > UdxpGetMaxSCALength(b) THEN Refused(b)
    ELSE Then(UdxpSetParameter(b, "NUMSCA", v), LAMBDA a : Valued(a, v))
NumScas(b) == UdxpGetAcquisitionValues(b, "number_of_scas", UdxpGetNumScas(b))

ScaNumber(p) == IF p = "SCA0LO" THEN 0 ELSE 1

\* All limits are read, and written back with the one that is set.
UdxpGetSca(b, p) ==
    Then(NumScas(b), LAMBDA a :
         IF ScaNumber(p) >= a.got THEN Refused(a) ELSE Read(a, p))
UdxpSetSca(b, p, v) ==
    Then(UdxpGetSca(b, p), LAMBDA a :
    Then(Write(a, p, v), LAMBDA c : Valued(c, v)))

UdxpGetPresetType(b) == UdxpGetParameter(b, "PRESET")
UdxpSetPresetType(b, v) ==
    IF v \notin 0..4 THEN Refused(b)
    ELSE Then(UdxpSetParameter(b, "PRESET", v), LAMBDA a : Valued(a, v))

\* A length is a time for types 1 and 2, a number of counts for 3 and 4.
Unit(type) == IF type \in {1, 2} THEN 2 ELSE 1
UdxpGetPresetValue(b) ==
    Got(Read(b, "PRESETLEN"), LAMBDA x :
        IF b.par["PRESET"] = 0 THEN 0 ELSE x * Unit(b.par["PRESET"]))

\* One command sets the type, as the host knows it, and the length.
UdxpSetPresetValue(b, v) ==
    Then(UdxpGetAcquisitionValues(b, "preset_type", UdxpGetPresetType(b)), LAMBDA a :
         LET type == a.got
             length == IF type = 0 THEN 0 ELSE Smaller(v \div Unit(type), MaxPreset)
         IN Then(Command(a, [a EXCEPT !.par["PRESET"] = type, !.par["PRESETLEN"] = length]),
                 LAMBDA c : Valued(c, IF type = 0 THEN v ELSE length * Unit(type))))

\* The board operation set_preset, past the cache.
UdxpSetPreset(b, type, v) ==
    Then(UdxpSetPresetType(b, type), LAMBDA a : UdxpSetPresetValue(a, v))

-----------------------------------------------------------------------------
(* Preamplifier, tasks, traces and voltages. *)

\* CODEVAR: 0 a reset preamplifier, 1 one with RC feedback.
UdxpQueryPreampType(b) == UdxpGetParameter(b, "CODEVAR")

UdxpGetResetInterval(b) == Read(b, "RESETINT")
UdxpSetResetInterval(b, v) ==
    LET x == Smaller(v, MaxInterval)
    IN Then(Write(b, "RESETINT", x), LAMBDA a : Valued(a, x))

\* The clock that counts the decay: the digital one, or a fixed one.
TauClock(b) == IF b.super THEN Clock(b) ELSE Done([b EXCEPT !.got = Period(1)])
UdxpGetRCTau(b) ==
    Then(Read(b, "TAURC"), LAMBDA a : Got(TauClock(a), LAMBDA t : a.got * t))
UdxpSetRCTau(b, v) ==
    Then(TauClock(b), LAMBDA a :
         LET x == Rounded(Smaller(v, MaxTau * a.got), a.got)
         IN Then(Write(a, "TAURC", x), LAMBDA c : Valued(c, x * a.got)))

UdxpGetPreampVal(b) ==
    Then(UdxpQueryPreampType(b), LAMBDA a :
         IF a.got = 0 THEN UdxpGetResetInterval(a) ELSE UdxpGetRCTau(a))
UdxpSetPreampVal(b, v) ==
    Then(UdxpQueryPreampType(b), LAMBDA a :
         IF a.got = 0 THEN UdxpSetResetInterval(a, v) ELSE UdxpSetRCTau(a, v))

UdxpGetPreampPol(b) == Read(b, "POLARITY")
UdxpSetPreampPol(b, v) ==
    IF v \notin {0, 1} THEN Refused(b)
    ELSE Then(Write(b, "POLARITY", v), LAMBDA a : Valued(a, v))

UdxpGetFipControl(b) == Read(b, "FIPCONTROL")
UdxpSetFipControl(b, v) == Then(Write(b, "FIPCONTROL", v), LAMBDA a : Valued(a, v))

UdxpGetRuntasks(b) == Read(b, "RUNTASKS")
UdxpSetRuntasks(b, v) == Then(Write(b, "RUNTASKS", v), LAMBDA a : Valued(a, v))

\* One bit of RUNTASKS, here of value 2.
UdxpGetAutoAdjust(b) == Got(UdxpGetParameter(b, "RUNTASKS"), LAMBDA x : (x \div 2) % 2)
UdxpSetAutoAdjust(b, v) ==
    Then(UdxpGetParameter(b, "RUNTASKS"), LAMBDA a :
    Then(UdxpSetParameter(a, "RUNTASKS", (a.got % 2) + (IF v = 0 THEN 0 ELSE 2)),
         LAMBDA c : Valued(c, v)))

\* The wait between the samples of a trace is the host's own until a trace.
UdxpCheckTraceWaitRange(b, v) ==
    Then(Clock(b), LAMBDA a :
         Valued(a, Rounded(Larger(Smaller(v, MaxWait), a.got), a.got) * a.got))
UdxpGetADCWait(b) == Clock(b)
UdxpSetADCWait(b, v) == UdxpCheckTraceWaitRange(b, v)
UdxpDoTrace(b, v) ==
    Then(UdxpCheckTraceWaitRange(b, v), LAMBDA a :
    Then(Clock(a), LAMBDA c :
    Then(UdxpSetParameter(c, "TRACEWAIT", Rounded(c.value, c.got) - 1), LAMBDA d :
         Done([d EXCEPT !.entry["adc_trace_wait"] = "synced",
                        !.val["adc_trace_wait"] = d.value]))))

UdxpGetTriggerType(b) == UdxpGetParameter(b, "TRACETRIG")
UdxpSetTriggerType(b, v) ==
    Then(UdxpSetParameter(b, "TRACETRIG", v), LAMBDA a : Valued(a, v))
UdxpGetTriggerPosition(b) == UdxpGetParameter(b, "TRACEPRETRIG")
UdxpSetTriggerPosition(b, v) ==
    IF ~b.super THEN Refused(b)
    ELSE Then(UdxpSetParameter(b, "TRACEPRETRIG", v), LAMBDA a : Valued(a, v))

\* Kept as asked for, set in whole units of two.
UdxpGetScaTimeOn(b) ==
    IF ~b.super THEN Refused(b)
    ELSE Got(UdxpGetParameter(b, "SCATIMEON"), LAMBDA x : 2 * x)
UdxpSetScaTimeOn(b, v) ==
    IF ~b.super \/ v < 2 THEN Refused(b)
    ELSE Then(UdxpSetParameter(b, "SCATIMEON", v \div 2), LAMBDA a : Valued(a, v))
UdxpGetScaTimeOff(b) ==
    IF ~b.super THEN Refused(b)
    ELSE Got(UdxpGetParameter(b, "SCATIMEOFF"), LAMBDA x : 2 * x)
UdxpSetScaTimeOff(b, v) ==
    IF ~b.super \/ v < 2 THEN Refused(b)
    ELSE Then(UdxpSetParameter(b, "SCATIMEOFF", v \div 2), LAMBDA a : Valued(a, v))
\* Another board than a Vega has no voltage: the get succeeds without one.
UdxpGetHighVoltage(b) ==
    IF ~b.vega THEN Done(b) ELSE Got(Read(b, "VOLTS"), LAMBDA x : 2 * x)
UdxpSetHighVoltage(b, v) ==
    IF ~b.vega \/ v > MaxVolts THEN Refused(b)
    ELSE Then(Write(b, "VOLTS", v \div 2), LAMBDA a : Valued(a, v))

-----------------------------------------------------------------------------
(* Spectra: the length is answered first, the data fill a buffer of it. *)

Room(outs) == Then(outs, LAMBDA a : Done([a EXCEPT !.room = a.got]))
Filled(b) == Command(b, [b EXCEPT !.words = b.got])

\* Mutant: the length is the one the board has.
MutGetMCALength(b) == Room(UdxpGetNumMCA(b))

UdxpGetMCALength(b) ==
    Room(UdxpGetAcquisitionValues(b, "number_mca_channels", UdxpGetNumMCA(b)))
UdxpGetSCALength(b) == Room(NumScas(b))

\* pslGetMcaCmd: as many bins as the entry says, synced or not.
UdxpGetMcaCmd(b) ==
    Then(UdxpGetDefault(b, "bytes_per_bin"), LAMBDA a :
    Then(UdxpGetDefault(a, "number_mca_channels"), Filled))
UdxpGetMCAData(b) == UdxpGetMcaCmd(b)
UdxpGetSCAData(b) == Then(UdxpGetDefault(b, "number_of_scas"), Filled)

\* Run data by name: the length and the data that fill it.
RunData(b, name) ==
    IF name = "mca" THEN Then(UdxpGetMCALength(b), UdxpGetMCAData)
    ELSE Then(UdxpGetSCALength(b), UdxpGetSCAData)

-----------------------------------------------------------------------------
(* The calls of Handel. *)

ScaParam(n) == IF n = "sca0_lo" THEN "SCA0LO" ELSE "SCA1HI"

\* pslFindAV, and the setter and the getter of the entry.
SetFN(b, n, v) ==
    CASE n = "parset" -> UdxpSetParset(b, v)
      [] n = "genset" -> UdxpSetGenset(b, v)
      [] n = "clock_speed" -> UdxpSetClockSpd(b, v)
      [] n = "energy_gap_time" -> UdxpSetEGapTime(b, v)
      [] n = "trigger_peak_time" -> UdxpSetTPeakTime(b, v)
      [] n = "trigger_gap_time" -> UdxpSetTGapTime(b, v)
      [] n = "baseline_length" -> UdxpSetBaseLen(b, v)
      [] n = "trigger_threshold" -> UdxpSetTThresh(b, v)
      [] n = "baseline_threshold" -> UdxpSetBThresh(b, v)
      [] n = "energy_threshold" -> UdxpSetEThresh(b, v)
      [] n = "number_mca_channels" -> UdxpSetNumMCA(b, v)
      [] n = "mca_bin_width" -> UdxpSetBinWidth(b, v)
      [] n = "fippi" -> UdxpSetFiPPI(b, v)
      [] n = "bytes_per_bin" -> UdxpSetBytePerBin(b, v)
      [] n = "adc_trace_wait" -> UdxpSetADCWait(b, v)
      [] n = "gain_trim" -> UdxpSetGainTrim(b, v)
      [] n = "gain" -> UdxpSetGainbase(b, v)
      [] n = "polarity" -> UdxpSetPreampPol(b, v)
      [] n = "preamp_value" -> UdxpSetPreampVal(b, v)
      [] n = "fipcontrol" -> UdxpSetFipControl(b, v)
      [] n = "runtasks" -> UdxpSetRuntasks(b, v)
      [] n = "peak_interval" -> UdxpSetPeakInt(b, v)
      [] n = "peak_sample" -> UdxpSetPeakSam(b, v)
      [] n = "max_width" -> UdxpSetMaxWidth(b, v)
      [] n = "peak_mode" -> UdxpSetPeakMode(b, v)
      [] n = "baseline_factor" -> UdxpSetBFactor(b, v)
      [] n = "peaking_time" -> UdxpSetPeakingTime(b, v)
      [] n = "peakint_offset" -> UdxpSetPeakIntOffset(b, v)
      [] n = "peaksam_offset" -> UdxpSetPeakSamOffset(b, v)
      [] n = "trace_trigger_type" -> UdxpSetTriggerType(b, v)
      [] n = "trace_trigger_position" -> UdxpSetTriggerPosition(b, v)
      [] n = "number_of_scas" -> UdxpSetNumScas(b, v)
      [] n = "sca_time_on" -> UdxpSetScaTimeOn(b, v)
      [] n = "sca_time_off" -> UdxpSetScaTimeOff(b, v)
      [] n \in {"sca0_lo", "sca1_hi"} -> UdxpSetSca(b, ScaParam(n), v)
      [] n = "auto_adjust_offset" -> UdxpSetAutoAdjust(b, v)
      [] n = "preset_type" -> UdxpSetPresetType(b, v)
      [] n = "preset_value" -> UdxpSetPresetValue(b, v)
      [] n = "high_voltage" -> UdxpSetHighVoltage(b, v)

GetFN(b, n) ==
    CASE n = "parset" -> UdxpGetParset(b)
      [] n = "genset" -> UdxpGetGenset(b)
      [] n = "clock_speed" -> UdxpGetClockSpd(b)
      [] n = "energy_gap_time" -> UdxpGetEGapTime(b)
      [] n = "trigger_peak_time" -> UdxpGetTPeakTime(b)
      [] n = "trigger_gap_time" -> UdxpGetTGapTime(b)
      [] n = "baseline_length" -> UdxpGetBaseLen(b)
      [] n = "trigger_threshold" -> UdxpGetTThresh(b)
      [] n = "baseline_threshold" -> UdxpGetBThresh(b)
      [] n = "energy_threshold" -> UdxpGetEThresh(b)
      [] n = "number_mca_channels" -> UdxpGetNumMCA(b)
      [] n = "mca_bin_width" -> UdxpGetBinWidth(b)
      [] n = "fippi" -> UdxpGetFiPPI(b)
      [] n = "bytes_per_bin" -> UdxpGetBytePerBin(b)
      [] n = "adc_trace_wait" -> UdxpGetADCWait(b)
      [] n = "gain_trim" -> UdxpGetGainTrim(b)
      [] n = "gain" -> UdxpGetGainbase(b)
      [] n = "polarity" -> UdxpGetPreampPol(b)
      [] n = "preamp_value" -> UdxpGetPreampVal(b)
      [] n = "fipcontrol" -> UdxpGetFipControl(b)
      [] n = "runtasks" -> UdxpGetRuntasks(b)
      [] n = "peak_interval" -> UdxpGetPeakInt(b)
      [] n = "peak_sample" -> UdxpGetPeakSam(b)
      [] n = "max_width" -> UdxpGetMaxWidth(b)
      [] n = "peak_mode" -> UdxpGetPeakMode(b)
      [] n = "baseline_factor" -> UdxpGetBFactor(b)
      [] n = "peaking_time" -> UdxpGetPeakingTime(b)
      [] n = "peakint_offset" -> UdxpGetPeakIntOffset(b)
      [] n = "peaksam_offset" -> UdxpGetPeakSamOffset(b)
      [] n = "trace_trigger_type" -> UdxpGetTriggerType(b)
      [] n = "trace_trigger_position" -> UdxpGetTriggerPosition(b)
      [] n = "number_of_scas" -> UdxpGetNumScas(b)
      [] n = "sca_time_on" -> UdxpGetScaTimeOn(b)
      [] n = "sca_time_off" -> UdxpGetScaTimeOff(b)
      [] n \in {"sca0_lo", "sca1_hi"} -> UdxpGetSca(b, ScaParam(n))
      [] n = "auto_adjust_offset" -> UdxpGetAutoAdjust(b)
      [] n = "preset_type" -> UdxpGetPresetType(b)
      [] n = "preset_value" -> UdxpGetPresetValue(b)
      [] n = "high_voltage" -> UdxpGetHighVoltage(b)

\* pslSetAcquisitionValues: the entry is what the setter made of the request;
\* after a failure it is left as it is.
UdxpSetAcquisitionValues(b, n, v) ==
    Then(SetFN(b, n, v), LAMBDA a :
         Done(IF a.entry[n] = "absent" THEN a
              ELSE [a EXCEPT !.entry[n] = "synced", !.val[n] = a.value]))

\* xiaSetAcquisitionValues enters an unknown name first.
Entered(b, n, v) ==
    IF b.entry[n] # "absent" THEN b ELSE [b EXCEPT !.entry[n] = "unknown", !.val[n] = v]

-----------------------------------------------------------------------------
(* What is true of the board, whatever the host believes. *)

TrueTick(b) == Period(b.par["CLOCK"]) * PowerOfTwo(Decimation(b))
Length(b) == b.par["SLOWLEN"] + b.par["SLOWGAP"]

\* The registers of the names that are one register each.
Register == [parset |-> "PARSET", genset |-> "GENSET", fippi |-> "FIPPI",
    trigger_threshold |-> "THRESHT", baseline_threshold |-> "THRESHB",
    energy_threshold |-> "THRESHE", number_mca_channels |-> "MCALEN",
    mca_bin_width |-> "BINWIDTH", polarity |-> "POLARITY", fipcontrol |-> "FIPCONTROL",
    runtasks |-> "RUNTASKS", peak_mode |-> "PEAKMODE", baseline_factor |-> "BFACTOR",
    trace_trigger_type |-> "TRACETRIG", trace_trigger_position |-> "TRACEPRETRIG",
    number_of_scas |-> "NUMSCA", sca0_lo |-> "SCA0LO", sca1_hi |-> "SCA1HI",
    preset_type |-> "PRESET"]

\* Those that are a number of clock ticks, of filter ticks, or of two.
ClockRegister == [trigger_peak_time |-> "FASTLEN", trigger_gap_time |-> "FASTGAP",
    max_width |-> "MAXWIDTH"]
FilterRegister == [energy_gap_time |-> "SLOWGAP", peaking_time |-> "SLOWLEN",
    peak_interval |-> "PEAKINT", peak_sample |-> "PEAKSAM"]
HalfRegister == [gain_trim |-> "GAINTWEAK", sca_time_on |-> "SCATIMEON",
    sca_time_off |-> "SCATIMEOFF", high_voltage |-> "VOLTS"]

\* The value the board has.
Actual(b, n) ==
    CASE n \in DOMAIN Register -> b.par[Register[n]]
      [] n \in DOMAIN ClockRegister -> b.par[ClockRegister[n]] * Period(b.par["CLOCK"])
      [] n \in DOMAIN FilterRegister -> b.par[FilterRegister[n]] * TrueTick(b)
      [] n \in DOMAIN HalfRegister -> 2 * b.par[HalfRegister[n]]
      [] n = "clock_speed" -> Period(b.par["CLOCK"])
      [] n = "peakint_offset" -> (b.par["PEAKINT"] - Length(b)) * TrueTick(b)
      [] n = "peaksam_offset" -> (Length(b) - b.par["PEAKSAM"]) * TrueTick(b)
      [] n = "baseline_length" -> BaselineScale \div b.par["BLFILTER"]
      [] n = "gain" -> 2 * BaseGain(b)
      [] n = "auto_adjust_offset" -> (b.par["RUNTASKS"] \div 2) % 2
      [] n = "preset_value" -> b.par["PRESETLEN"] * Unit(b.par["PRESET"])
      [] n = "preamp_value" ->
            IF b.par["CODEVAR"] = 0 THEN b.par["RESETINT"]
            ELSE b.par["TAURC"] * (IF b.super THEN Period(b.par["CLOCK"]) ELSE Period(1))

\* Values that are kept as asked for, and set in whole steps.
Unrounded == {"gain", "sca_time_on", "sca_time_off", "high_voltage"}

\* Values that are not the board's.
HostValues(b) == {"bytes_per_bin", "adc_trace_wait"}
    \cup (IF b.vega THEN {} ELSE {"high_voltage"})
    \cup (IF b.par["PRESET"] = 0 THEN {"preset_value"} ELSE {})

\* x is what the board has; a bit is set for any number but 0.
Fits(b, n, x) ==
    \/ n \in HostValues(b)
    \/ x = Actual(b, n)
    \/ n = "auto_adjust_offset" /\ x # 0 /\ Actual(b, n) # 0
    \/ n \in Unrounded /\ x - Actual(b, n) \in {-1, 1}
Agrees(b, n) == Fits(b, n, b.val[n])

-----------------------------------------------------------------------------
Registers == [p \in Params |->
    IF p \in FilterParams \cup EnergyParams \cup SpectrumParams THEN FlashValue(0, 0, p) ELSE 0]

\* A board as it starts: c is its preamplifier, f the commands that may fail.
Board(s, c, w, v, f) ==
    [par |-> [Registers EXCEPT !["CODEVAR"] = c], super |-> s, vega |-> v, switched |-> w,
     parsets |-> [x \in {0, 1} \X {0, 1} |->
         [p \in FilterParams \cup (IF s THEN EnergyParams ELSE {}) |-> FlashValue(x[1], x[2], p)]],
     gensets |-> [x \in {0, 1} |->
         [p \in SpectrumParams \cup (IF s THEN {} ELSE EnergyParams) |-> FlashValue(0, x, p)]],
     entry |-> [n \in NameSet |->
         IF n \in {"sca0_lo", "sca1_hi"} THEN "absent" ELSE "unknown"],
     val |-> [n \in NameSet |-> IF n = "bytes_per_bin" THEN 3 ELSE 0],
     got |-> 0, value |-> 0, room |-> 0, words |-> 0, budget |-> f]

\* A start leaves every entry unknown (xiaAddDefaultItem) and sets none.
Init ==
    /\ topic \in Topics
    /\ \E s \in BOOLEAN, f \in 0..MaxFaults :
       \E c \in IF "preamp_value" \in topic THEN {0, 1} ELSE {0} :
       \E w \in IF "gain" \in topic THEN BOOLEAN ELSE {FALSE} :
       \E v \in IF "high_voltage" \in topic /\ s THEN BOOLEAN ELSE {FALSE} :
           k = Board(s, c, w, v, f)
    /\ outdated = {} /\ upset = FALSE
    /\ last = [op |-> "start", name |-> "none", ok |-> TRUE]
    /\ calls = 0

\* What a call that succeeded changes on the board and does not forget.
LeftBehind(op, n) ==
    CASE op = "set" /\ n = "clock_speed" ->
           {"max_width", "peak_sample", "peaking_time", "peakint_offset",
            "peaksam_offset", "preamp_value"}
      [] op = "set" /\ n = "genset" -> {"sca0_lo", "sca1_hi"}
      [] op = "set" /\ n = "runtasks" -> {"auto_adjust_offset"}
      [] op = "set" /\ n = "auto_adjust_offset" -> {"runtasks"}
      [] op = "set" /\ n = "preset_type" -> {"preset_value"}
      [] op = "set_preset" -> {"preset_type", "preset_value"}
      [] op = "download" -> ParsetMembers \cup {"fippi"}
      [] OTHER -> {}

Synced(b) == {n \in NameSet : b.entry[n] = "synced"}

\* The host asked for a clock speed the board has.
ClockKnown(b) == b.entry["clock_speed"] = "synced" => Agrees(b, "clock_speed")

\* A call made of the outcomes outs.
Call(op, n, outs) ==
    /\ calls < MaxCalls
    /\ calls' = calls + 1
    /\ \E o \in outs :
          /\ k' = [o.m EXCEPT !.got = 0, !.value = 0]
          /\ last' = [op |-> op, name |-> n, ok |-> o.ok]
          /\ upset' = (\/ upset \/ o.m.budget < k.budget \/ ~ClockKnown(o.m)
                       \/ ~o.ok /\ o.m.par # k.par)
          /\ outdated' = ((outdated \ (IF op = "set" /\ o.ok THEN {n} ELSE {}))
                          \cup (LeftBehind(op, n) \cap Synced(k))) \cap Synced(o.m)
    /\ UNCHANGED topic

SetValue == \E n \in topic : \E v \in Values[n] :
    Call("set", n, UdxpSetAcquisitionValues(Entered(k, n, v), n, v))
GetValue == \E n \in topic :
    Call("get", n, UdxpGetAcquisitionValues(k, n, GetFN(k, n)))

\* xiaRemoveAcquisitionValues; pslUserSetup does nothing.
RemoveValue == \E n \in topic :
    k.entry[n] # "absent" /\ Call("remove", n, Done([k EXCEPT !.entry[n] = "absent"]))

\* Operations past the values, where the topic has what they touch.
SetPreset == "preset_type" \in topic /\ \E t \in Values["preset_type"] :
    Call("set_preset", "preset_type", UdxpSetPreset(k, t, 3))
DownloadFiPPI == "fippi" \in topic /\ \E f \in {0, 1} :
    Call("download", "fippi", UdxpDownloadFirmware(k, f))
SaveParset == "parset" \in topic /\ \E s \in {0, 1} : Call("save", "parset", UdxpSaveParset(k, s))
SaveGenset == "genset" \in topic /\ \E s \in {0, 1} : Call("save", "genset", UdxpSaveGenset(k, s))
Calibrate == "gain" \in topic /\ "absent" \notin {k.entry["gain"], k.entry["gain_trim"]}
    /\ \/ Call("calibrate", "gain", UdxpGainCalibrate(k, 2))
       \/ Call("calibrate", "gain_trim", UdxpGainTrimCalibrate(k, 2))
Trace == "adc_trace_wait" \in topic /\ k.entry["adc_trace_wait"] # "absent"
    /\ Call("trace", "adc_trace_wait", UdxpDoTrace(k, 9))
ReadMCA == "number_mca_channels" \in topic
    /\ Call("mca", "number_mca_channels", RunData(k, "mca"))
ReadSCA == "number_of_scas" \in topic /\ Call("sca", "number_of_scas", RunData(k, "sca"))

Next == \/ SetValue \/ GetValue \/ RemoveValue \/ SetPreset \/ DownloadFiPPI
        \/ SaveParset \/ SaveGenset \/ Calibrate \/ Trace \/ ReadMCA \/ ReadSCA

Spec == Init /\ [][Next]_vars

-----------------------------------------------------------------------------
\* As long as no call fails half way and the clock is set to speeds it has, an entry
\* that says it is synced is what the board has, but for the entries the code
\* leaves behind: pslSetClockSpd those of six times, pslSetGenset the limits of
\* SCAs, set_preset the preset, RUNTASKS and its bit each other, a new preset
\* type the length, and a firmware download everything it changes.
CacheCoherent ==
    ~upset => \A n \in Synced(k) \ outdated : Agrees(k, n)

\* A set that succeeds makes its entry true, whatever went wrong before: a lost
\* answer, an entry left behind, an entry removed and entered again.
SetMakesTrue ==
    [][last'.op = "set" /\ last'.ok /\ ClockKnown(k') => Agrees(k', last'.name)]_vars

\* Run data fill the buffer whose length was just asked for, and no more.
DataFitsLength == last.ok /\ last.op \in {"mca", "sca"} => k.words <= k.room

=============================================================================
