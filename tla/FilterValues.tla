----------------------------- MODULE FilterValues -----------------------------
(***************************************************************************)
(* The acquisition values that shape a channel's filters and name its      *)
(* preamplifier, in the xMAP, Mercury, STJ and Saturn: peaking and gap     *)
(* times, offsets of the peak sample, the trigger filter, the preamplifier *)
(* type and its time.  They share a FiPPI and a DSP program between the    *)
(* channels of a module, so that setting a value of one channel may change *)
(* what the others do.                                                     *)
(*                                                                         *)
(* A module is a record as in BoardFirmware, with                          *)
(*   fippi, dsp   a member of Fdd (its dec is DECIMATION) and a type of    *)
(*                preamplifier                                             *)
(*   cacheF, cacheD  m->currentFirmware[c].currentFiPPI and currentDSP     *)
(*   detType, detTime  Detector.type, of all its channels, and typeValue   *)
(*   detPol       Detector.polarity                                        *)
(*                                                                         *)
(* Times are in half clock ticks, so that rounding shows.  Not here: the   *)
(* gain that every filter change recomputes (XmapGain; here an access that *)
(* may fail), and the Mercury OEM variants.                                *)
(***************************************************************************)
EXTENDS BoardFirmware, FiniteSets

CONSTANTS Products,      \* which modules
          Fdd,           \* the firmware file: [type, lo, hi, dec, peakInt, peakSam]
          Topics,        \* sets of values set together
          Values,        \* what the application asks for, by name
          Start,         \* the defaults before the first call
          FakePT,        \* the peaking time a start names FPGAs with
          MinLen,        \* MIN_SLOWLEN, MIN_FASTLEN
          MaxSlow,       \* MAX_SLOWLEN, MAX_SLOWGAP, MAX_SLOWFILTER
          MaxFast,       \* MAX_FASTLEN, MAX_FASTFILTER
          MaxWidthLimit, \* MAX_MAXWIDTH
          Types,         \* preamplifier types there is firmware for
          MaxFaults,     \* accesses that fail
          MaxCalls       \* calls after the start

Names == <<"peaking_time", "minimum_gap_time", "detector_polarity", "reset_delay",
           "decay_time", "gap_time", "trigger_peaking_time", "trigger_gap_time",
           "baseline_average", "maxwidth", "preamp_type", "peak_mode",
           "actual_gap_time", "peak_sample_offset0", "peak_interval_offset0",
           "peak_sample_offset2", "peak_interval_offset2">>

Params == {"SLOWLEN", "SLOWGAP", "PEAKINT", "PEAKSAM", "PEAKMODE", "FASTLEN",
           "FASTGAP", "FSCALE", "MAXWIDTH", "BLAVGDIV", "RESETINT", "RCTAU",
           "RCTAUFRAC", "POLARITY"}

ASSUME FddAssumption ==
    /\ \A f \in Fdd : f.type \in Types /\ f.dec \in {0, 2} /\ f.lo < f.hi
    /\ \A t \in Types : \E f \in Fdd : f.type = t /\ f.lo < FakePT /\ FakePT <= f.hi

VARIABLES m,      \* the module
          topic,  \* the names this behaviour is about
          last,   \* the last call: [op, name, chans, ok]
          calls   \* how many there were

vars == <<m, topic, last, calls>>

Chans(product) == IF product = "saturn" THEN {0} ELSE {0, 1}

\* XIA_PREAMP_RESET, XIA_PREAMP_RC.
TypeName(v) == IF v = 0 THEN "RESET" ELSE "RC"
TypeCode(t) == IF t = "RESET" THEN 0 ELSE 1

-----------------------------------------------------------------------------
(* Times. *)

\* A time in clock ticks of decimation d, rounded, cut off, and rounded up.
Rounded(x, d) == (x + 2^d) \div (2 * 2^d)
CutOff(x, d) == x \div (2 * 2^d)
RoundedUp(x, d) == (x + 2 * 2^d - 1) \div (2 * 2^d)

\* And back: SLOWLEN * tick * 2^DECIMATION.
Time(ticks, d) == ticks * 2 * 2^d

\* ceil(log2(n)) - 1
Scale(n) == (CHOOSE k \in 0..16 : 2^k >= n /\ (k = 0 \/ 2^(k - 1) < n)) - 1

Larger(a, b) == IF a > b THEN a ELSE b
Smaller(a, b) == IF a < b THEN a ELSE b

-----------------------------------------------------------------------------
(* Firmware. *)

\* xiaFddGetFirmware: the entry for a peaking time and a preamplifier.
XmapGetFiPPIName(pt, type) == {f \in Fdd : f.type = type /\ f.lo < pt /\ pt <= f.hi}
MercuryGetFiPPIName(pt, type) == XmapGetFiPPIName(pt, type)
StjGetFiPPIName(pt, type) == XmapGetFiPPIName(pt, type)

\* The names that all channels of a module remember.
RememberFiPPI(k, f) == [k EXCEPT !.cacheF = [d \in DOMAIN @ |-> f]]
RememberDSP(k, t) == [k EXCEPT !.cacheD = [d \in DOMAIN @ |-> t]]

\* psl__DownloadFiPPIA: skipped when the name is the one remembered; a download
\* that fails leaves the name in place.
XmapDownloadFiPPIA(k, c, f) ==
    IF k.cacheF[c] = f THEN Done(k)
    ELSE Then(DxpReplaceFpgaconfig(k, "a_and_b", f), LAMBDA a : Done(RememberFiPPI(a, f)))
MercuryDownloadFiPPIA(k, c, f) ==
    IF k.cacheF[c] = f THEN Done(k)
    ELSE Then(DxpReplaceFpgaconfig(k, "a", f), LAMBDA a : Done(RememberFiPPI(a, f)))
StjDownloadFiPPIA(k, c, f) == XmapDownloadFiPPIA(k, c, f)
SaturnDownloadFirmware(k, c, f) ==
    IF k.cacheF[c] = f THEN Done(k)
    ELSE Then(DxpReplaceFpgaconfig(k, "fippi", f), LAMBDA a : Done(RememberFiPPI(a, f)))

\* psl__DownloadFiPPIADSPNoWake: the same, and the DSP stays asleep.
XmapDownloadFiPPIADSPNoWake(k, c, f) ==
    IF k.cacheF[c] = f THEN Done(k)
    ELSE Then(DxpReplaceFpgaconfig(k, "a_and_b_dsp_no_wake", f), LAMBDA a :
              Done(RememberFiPPI(a, f)))
MercuryDownloadFiPPIADSPNoWake(k, c, f) ==
    IF k.cacheF[0] = f THEN Done(k)
    ELSE Then(DxpReplaceFpgaconfig(k, "a_dsp_no_wake", f), LAMBDA a :
              Done(RememberFiPPI(a, f)))
StjDownloadFiPPIADSPNoWake(k, c, f) == XmapDownloadFiPPIADSPNoWake(k, c, f)

\* psl__DownloadDSP: one program for all the channels.
XmapDownloadDSP(k, c, type) ==
    IF k.cacheD[c] = type THEN Done(k)
    ELSE Then(DxpReplaceDspconfig(k, type), LAMBDA a : Done(RememberDSP(a, type)))
MercuryDownloadDSP(k, c, type) == XmapDownloadDSP(k, c, type)
StjDownloadDSP(k, c, type) == XmapDownloadDSP(k, c, type)

\* psl__WakeDSP
XmapWakeDSP(k) == ControlTask(k, "wake_dsp")
MercuryWakeDSP(k) == ControlTask(k, "wake_dsp")
StjWakeDSP(k) == ControlTask(k, "wake_dsp")

\* pslApply
XmapApply(k) == ControlTask(k, "apply")
MercuryApply(k) == ControlTask(k, "apply")
StjApply(k) == ControlTask(k, "apply")

\* psl__GetDSPName
XmapGetDSPName(type) == {t \in Types : t = type}
MercuryGetDSPName(type) == XmapGetDSPName(type)
StjGetDSPName(type) == XmapGetDSPName(type)

\* psl__SwitchFirmware
XmapSwitchFirmware(k, c, type) ==
    LET names == XmapGetFiPPIName(k.val[c]["peaking_time"], type) IN
    IF names = {} \/ XmapGetDSPName(type) = {} THEN Refused(k)
    ELSE UNION {Then(XmapDownloadFiPPIADSPNoWake(k, c, f), LAMBDA a :
                Then(XmapDownloadDSP(a, c, type), LAMBDA b : XmapWakeDSP(b)))
                  : f \in names}
MercurySwitchFirmware(k, c, type) ==
    LET names == MercuryGetFiPPIName(k.val[c]["peaking_time"], type) IN
    IF names = {} THEN Refused(k)
    ELSE UNION {Then(MercuryDownloadFiPPIADSPNoWake(k, c, f), LAMBDA a :
                IF MercuryGetDSPName(type) = {} THEN Refused(a)
                ELSE Then(MercuryDownloadDSP(a, c, type), LAMBDA b : MercuryWakeDSP(b)))
                  : f \in names}
StjSwitchFirmware(k, c, type) == XmapSwitchFirmware(k, c, type)

-----------------------------------------------------------------------------
(* The energy filter. *)

\* The entry of the FDD the filter lengths are taken from, whatever the type.
FilterInfo(pt) == {f \in Fdd : f.lo < pt /\ pt <= f.hi}

PeakSampleOffset(d) == IF d = 0 THEN "peak_sample_offset0" ELSE "peak_sample_offset2"
PeakIntervalOffset(d) == IF d = 0 THEN "peak_interval_offset0" ELSE "peak_interval_offset2"

SlowLen(pt, d) == Rounded(pt, d)
SlowGap(gap, d) == Rounded(IF d = 0 THEN gap ELSE Larger(Time(3, d), gap), d)

\* The parameters psl__UpdateFilterParams writes, in its order.
FilterWrites(val, d, info, len, gap) ==
    LET pio == val[PeakIntervalOffset(d)]
        pso == val[PeakSampleOffset(d)] IN
    <<<<"SLOWLEN", len>>, <<"SLOWGAP", gap>>,
      <<"PEAKINT", Word(len + gap + IF pio = NoEntry THEN info.peakInt ELSE CutOff(pio, d))>>,
      <<"PEAKMODE", val["peak_mode"]>>>>
    \o IF val["peak_mode"] = 0 THEN <<>>      \* XIA_PEAK_SENSING_MODE
       ELSE <<<<"PEAKSAM", Word(len + gap - IF pso = NoEntry THEN info.peakSam
                                            ELSE CutOff(pso, d))>>>>

\* psl__UpdateFilterParams; psl__UpdateGain is the last access.
XmapUpdateFilterParams(k, c, pt) ==
    LET d == k.fippi.dec
        len == SlowLen(pt, d)
        gap == SlowGap(k.val[c]["minimum_gap_time"], d) IN
    IF \/ FilterInfo(pt) = {} \/ len < MinLen
       \/ len > MaxSlow \/ gap > MaxSlow \/ len + gap > MaxSlow
    THEN Refused(k)
    ELSE LET info == CHOOSE f \in FilterInfo(pt) : TRUE IN
         Then(Writes(k, c, FilterWrites(k.val[c], d, info, len, gap)),
              LAMBDA a : Access(a, a))

\* Its last part in the Mercury: PEAKINT, PEAKMODE, PEAKSAM and the gain.
MercuryUpdatePeaks(k, c, ws) == Then(Writes(k, c, ws), LAMBDA a : Access(a, a))

\* The Mercury has no limit for each length, and applies SLOWLEN and SLOWGAP
\* and reads them back before it writes the rest.
MercuryUpdateFilterParams(k, c, pt) ==
    LET d == k.fippi.dec
        len == SlowLen(pt, d)
        gap == SlowGap(k.val[c]["minimum_gap_time"], d) IN
    IF FilterInfo(pt) = {} \/ len < MinLen \/ len + gap > MaxSlow THEN Refused(k)
    ELSE LET info == CHOOSE f \in FilterInfo(pt) : TRUE
             ws == FilterWrites(k.val[c], d, info, len, gap) IN
         Then(Writes(k, c, SubSeq(ws, 1, 2)), LAMBDA a :
         Then(MercuryApply(a), LAMBDA b :
              MercuryUpdatePeaks(b, c, SubSeq(ws, 3, Len(ws)))))

\* The STJ takes the filter lengths from the firmware set.
StjUpdateFilterParams(k, c, pt) == XmapUpdateFilterParams(k, c, pt)

\* The parameters of pslUpdateFilter.
SaturnWriteFilter(k, c, info, len, gap) ==
    Then(Writes(k, c,
                <<<<"SLOWLEN", len>>, <<"SLOWGAP", gap>>,
                  <<"PEAKINT", Word(len + gap + info.peakInt)>>,
                  <<"PEAKSAM", Word(len + gap + info.peakInt - info.peakSam)>>>>),
         LAMBDA a : Access(a, a))

\* pslUpdateFilter: the gap is cut to what fits, and the entries of the
\* defaults change before the parameters do.
SaturnUpdateFilter(k, c, pt) ==
    LET d == k.fippi.dec
        len == SlowLen(pt, d)
        ceiled == RoundedUp(k.val[c]["minimum_gap_time"], d)
        gap == Smaller(Larger(3, Smaller(MaxSlow - 2, ceiled)), MaxSlow - len) IN
    IF FilterInfo(pt) = {} \/ len < MinLen \/ len > MaxSlow - 3 THEN Refused(k)
    ELSE LET info == CHOOSE f \in FilterInfo(pt) : TRUE
             stored == [k EXCEPT !.val[c]["peaking_time"] = Time(len, d),
                                 !.val[c]["actual_gap_time"] = Time(gap, d)] IN
         SaturnWriteFilter(stored, c, info, len, gap)

\* What the parameters say the peaking time is.
ReadoutPeakingTime(k, c) == Time(k.par[c]["SLOWLEN"], k.fippi.dec)

\* psl__SetPeakingTime
XmapSetPeakingTime(k, c, type) ==
    LET names == XmapGetFiPPIName(k.value, type) IN
    IF names = {} THEN Refused(k)
    ELSE UNION {Then(XmapDownloadFiPPIA(k, c, f), LAMBDA a :
                Then(XmapUpdateFilterParams(a, c, k.value), LAMBDA b :
                     Access(b, [b EXCEPT !.value = ReadoutPeakingTime(b, c)])))
                  : f \in names}
MercurySetPeakingTime(k, c, type) ==
    LET names == MercuryGetFiPPIName(k.value, type) IN
    IF names = {} THEN Refused(k)
    ELSE UNION {Then(MercuryDownloadFiPPIA(k, c, f), LAMBDA a :
                Then(MercuryUpdateFilterParams(a, c, k.value), LAMBDA b :
                     Access(b, [b EXCEPT !.value = ReadoutPeakingTime(b, c)])))
                  : f \in names}

\* The STJ does nothing when SLOWLEN already stands for the time asked for.
StjSetPeakingTime(k, c, type) ==
    LET names == StjGetFiPPIName(k.value, type) IN
    Then(Access(k, k), LAMBDA a :
         IF a.value = ReadoutPeakingTime(a, c) THEN Done(a)
         ELSE IF names = {} THEN Refused(a)
         ELSE UNION {Then(StjDownloadFiPPIA(a, c, f), LAMBDA b :
                     Then(StjUpdateFilterParams(b, c, k.value), LAMBDA e :
                          Access(e, [e EXCEPT !.value = ReadoutPeakingTime(e, c)])))
                       : f \in names})

\* pslDoPeakingTime
SaturnDoPeakingTime(k, c, type) ==
    UNION {Then(SaturnDownloadFirmware(k, c, f), LAMBDA a :
           Then(SaturnUpdateFilter(a, c, k.value), LAMBDA b :
                Done([b EXCEPT !.value = b.val[c]["peaking_time"]])))
             : f \in XmapGetFiPPIName(k.value, type)}
    \cup IF XmapGetFiPPIName(k.value, type) = {} THEN Refused(k) ELSE {}

\* psl__SetMinGapTime
XmapSetMinGapTime(k, c) ==
    XmapUpdateFilterParams(PslSetDefault(k, c, "minimum_gap_time", k.value), c,
                           k.val[c]["peaking_time"])
MercurySetMinGapTime(k, c) ==
    MercuryUpdateFilterParams(PslSetDefault(k, c, "minimum_gap_time", k.value), c,
                              k.val[c]["peaking_time"])
StjSetMinGapTime(k, c) == XmapSetMinGapTime(k, c)

\* minimum_gap_time of the Saturn also sets gap_time.
SaturnSetMinGapTime(k, c) ==
    SaturnUpdateFilter([k EXCEPT !.val[c]["minimum_gap_time"] = k.value,
                                 !.val[c]["gap_time"] = k.value], c,
                       k.val[c]["peaking_time"])

\* pslDoGapTime: and the other way round; the caller is told the actual gap.
SaturnDoGapTime(k, c) ==
    Then(SaturnSetMinGapTime(k, c), LAMBDA a :
         Done([a EXCEPT !.value = a.val[c]["actual_gap_time"]]))

\* psl__SetGapTime: kept, never used.
XmapSetGapTime(k, c) == Done(k)
MercurySetGapTime(k, c) == XmapSetGapTime(k, c)
StjSetGapTime(k, c) == XmapSetGapTime(k, c)

\* psl__SetPeakSampleOffset: the filter is updated when the decimation d is the
\* one in use; only then is the time rounded to clock ticks.
XmapSetPeakSampleOffset(k, c, n, d) ==
    Then(Access(k, k), LAMBDA a :
    Then(IF d = a.fippi.dec
         THEN XmapUpdateFilterParams(PslSetDefault(a, c, n, a.value), c,
                                     a.val[c]["peaking_time"])
         ELSE Done(a), LAMBDA b :
    Done([b EXCEPT !.value = Time(Rounded(b.value, d), d)])))
MercurySetPeakSampleOffset(k, c, n, d) ==
    Then(Access(k, k), LAMBDA a :
    Then(IF d = a.fippi.dec
         THEN MercuryUpdateFilterParams(PslSetDefault(a, c, n, a.value), c,
                                        a.val[c]["peaking_time"])
         ELSE Done(a), LAMBDA b :
    Done([b EXCEPT !.value = Time(Rounded(b.value, d), d)])))
StjSetPeakSampleOffset(k, c, n, d) == XmapSetPeakSampleOffset(k, c, n, d)

\* psl__SetPeakIntervalOffset
XmapSetPeakIntervalOffset(k, c, n, d) == XmapSetPeakSampleOffset(k, c, n, d)
MercurySetPeakIntervalOffset(k, c, n, d) == MercurySetPeakSampleOffset(k, c, n, d)
StjSetPeakIntervalOffset(k, c, n, d) == XmapSetPeakIntervalOffset(k, c, n, d)

\* psl__SetPeakMode: what psl__UpdateFilterParams returns is not looked at.
XmapSetPeakMode(k, c) ==
    IF k.value \notin {0, 1} THEN Refused(k)
    ELSE {[o EXCEPT !.ok = TRUE]
            : o \in XmapUpdateFilterParams(PslSetDefault(k, c, "peak_mode", k.value), c,
                                           k.val[c]["peaking_time"])}
MercurySetPeakMode(k, c) ==
    IF k.value \notin {0, 1} THEN Refused(k)
    ELSE {[o EXCEPT !.ok = TRUE]
            : o \in MercuryUpdateFilterParams(PslSetDefault(k, c, "peak_mode", k.value), c,
                                              k.val[c]["peaking_time"])}
StjSetPeakMode(k, c) == XmapSetPeakMode(k, c)

-----------------------------------------------------------------------------
(* The trigger filter and the rest. *)

\* psl__UpdateTrigFilterParams: both times are stored as they were rounded, the
\* gap as it was cut to fit.
XmapUpdateTrigFilterParams(k, c) ==
    LET len == Rounded(k.val[c]["trigger_peaking_time"], 0)
        gap == Smaller(Rounded(k.val[c]["trigger_gap_time"], 0), MaxFast - len) IN
    IF len < MinLen \/ len > MaxFast THEN Refused(k)
    ELSE Then(Writes(k, c, <<<<"FASTLEN", len>>, <<"FASTGAP", gap>>>>
                           \o IF k.product = "stj" THEN <<>>
                              ELSE <<<<"FSCALE", Scale(len)>>>>), LAMBDA a :
              Done([a EXCEPT !.val[c]["trigger_peaking_time"] = Time(len, 0),
                             !.val[c]["trigger_gap_time"] = Time(gap, 0)]))
MercuryUpdateTrigFilterParams(k, c) == XmapUpdateTrigFilterParams(k, c)
StjUpdateTrigFilterParams(k, c) == XmapUpdateTrigFilterParams(k, c)

\* Mutant: the first channel of the module instead of the one addressed.
MutSetTrigPeakingTime(k, c, n) ==
    Then(XmapUpdateTrigFilterParams(PslSetDefault(k, 0, n, k.value), 0), LAMBDA a :
         Done([a EXCEPT !.value = a.val[0][n]]))

\* psl__SetTrigPeakingTime and psl__SetTrigGapTime.
XmapSetTrigPeakingTime(k, c, n) ==
    Then(XmapUpdateTrigFilterParams(PslSetDefault(k, c, n, k.value), c), LAMBDA a :
         Done([a EXCEPT !.value = a.val[c][n]]))
XmapSetTrigGapTime(k, c, n) == XmapSetTrigPeakingTime(k, c, n)
MercurySetTrigPeakingTime(k, c, n) == XmapSetTrigPeakingTime(k, c, n)
MercurySetTrigGapTime(k, c, n) == XmapSetTrigPeakingTime(k, c, n)
StjSetTrigGapTime(k, c, n) == XmapSetTrigPeakingTime(k, c, n)

\* The STJ recomputes the gain after the trigger's peaking time.
StjSetTrigPeakingTime(k, c, n) ==
    Then(StjUpdateTrigFilterParams(PslSetDefault(k, c, n, k.value), c), LAMBDA a :
    Then(Access(a, a), LAMBDA b : Done([b EXCEPT !.value = b.val[c][n]])))

\* pslUpdateTriggerFilter: refuses what does not fit.
SaturnUpdateTriggerFilter(k, c) ==
    LET len == Rounded(k.val[c]["trigger_peaking_time"], 0)
        gap == RoundedUp(k.val[c]["trigger_gap_time"], 0) IN
    IF len < MinLen \/ len > MaxFast - 3 \/ gap > MaxFast - 2 \/ len + gap > MaxFast
    THEN Refused(k)
    ELSE Then(Writes(k, c, <<<<"FASTLEN", len>>, <<"FASTGAP", gap>>>>), LAMBDA a :
         Access(a, [a EXCEPT !.val[c]["trigger_peaking_time"] = Time(len, 0),
                             !.val[c]["trigger_gap_time"] = Time(gap, 0)]))

\* pslDoTriggerPeakingTime and pslDoTriggerGapTime: what is refused stays in the
\* defaults.
SaturnDoTriggerPeakingTime(k, c, n) ==
    SaturnUpdateTriggerFilter(PslSetDefault(k, c, n, k.value), c)
SaturnDoTriggerGapTime(k, c, n) == SaturnDoTriggerPeakingTime(k, c, n)

\* Mutant: rounded up by adding one.
MutSetMaxWidth(k, c) ==
    LET width == CutOff(k.value, 0) + 1 IN
    IF width < 1 \/ width > MaxWidthLimit THEN Refused(k)
    ELSE Then(SetParameter(k, c, "MAXWIDTH", width), LAMBDA a :
              Done([a EXCEPT !.value = Time(width, 0)]))

\* psl__SetMaxWidth
XmapSetMaxWidth(k, c) ==
    LET width == Rounded(k.value, 0) IN
    IF width < 1 \/ width > MaxWidthLimit THEN Refused(k)
    ELSE Then(SetParameter(k, c, "MAXWIDTH", width), LAMBDA a :
              Done([a EXCEPT !.value = Time(width, 0)]))
MercurySetMaxWidth(k, c) == XmapSetMaxWidth(k, c)
StjSetMaxWidth(k, c) == XmapSetMaxWidth(k, c)

\* The Saturn stores the width itself.
SaturnSetMaxWidth(k, c) ==
    Then(XmapSetMaxWidth(k, c), LAMBDA a :
         Done(PslSetDefault(a, c, "maxwidth", a.value)))

\* psl__SetBaseAvg: log2 of the average, less one, in 16 bits.
XmapSetBaseAvg(k, c) == SetParameter(k, c, "BLAVGDIV", Word(Scale(k.value)))
MercurySetBaseAvg(k, c) == XmapSetBaseAvg(k, c)

\* psl__SetBaseAvg of the STJ: the length itself, a power of two.
StjSetBaseAvg(k, c) == SetParameter(k, c, "BLAVGDIV", k.value)

-----------------------------------------------------------------------------
(* The preamplifier. *)

\* Mutant: the detector is not told.
MutSetResetDelay(k, c) ==
    IF k.detType # "RESET" THEN Done(k)
    ELSE LET ticks == Rounded(k.value, 0) IN
         Then(SetParameter(k, c, "RESETINT", Word(ticks)),
              LAMBDA a : Done([a EXCEPT !.value = Time(Word(ticks), 0)]))

\* psl__SetResetDelay: ignored for another type of preamplifier.
XmapSetResetDelay(k, c) ==
    IF k.detType # "RESET" THEN Done(k)
    ELSE LET ticks == Rounded(k.value, 0) IN
         Then(SetParameter([k EXCEPT !.detTime[c] = k.value], c, "RESETINT", Word(ticks)),
              LAMBDA a : Done([a EXCEPT !.value = Time(Word(ticks), 0)]))
MercurySetResetDelay(k, c) == XmapSetResetDelay(k, c)
StjSetResetDelay(k, c) == XmapSetResetDelay(k, c)

\* psl__SetDecayTime: whole ticks and what is left of them.
XmapSetDecayTime(k, c) ==
    IF k.detType # "RC" THEN Done(k)
    ELSE Writes([k EXCEPT !.detTime[c] = k.value], c,
                <<<<"RCTAU", Word(CutOff(k.value, 0))>>, <<"RCTAUFRAC", k.value % 2>>>>)
MercurySetDecayTime(k, c) == XmapSetDecayTime(k, c)
StjSetDecayTime(k, c) == XmapSetDecayTime(k, c)

\* psl__SetPolarity
XmapSetPolarity(k, c) ==
    IF k.value \notin {0, 1} THEN Refused(k)
    ELSE Then(SetParameter(k, c, "POLARITY", k.value), LAMBDA a :
              Done([a EXCEPT !.detPol[c] = k.value]))
StjSetPolarity(k, c) == XmapSetPolarity(k, c)

\* The Mercury goes on to the calibration values of the temperature.
MercurySetPolarity(k, c) == Then(XmapSetPolarity(k, c), LAMBDA a : Access(a, a))

\* The Saturn cuts the delay off at the largest RESETINT, and tells the
\* detector only once the parameter is written.
SaturnDoResetDelay(k, c) ==
    IF k.detType # "RESET" THEN Done(PslSetDefault(k, c, "reset_delay", k.value))
    ELSE LET ticks == Smaller(Rounded(k.value, 0), 16383) IN
         Then(SetParameter(k, c, "RESETINT", ticks), LAMBDA a :
              Done(PslSetDefault([a EXCEPT !.value = Time(ticks, 0),
                                           !.detTime[c] = Time(ticks, 0)],
                                 c, "reset_delay", Time(ticks, 0))))
SaturnDoDecayTime(k, c) ==
    Then(IF k.detType # "RC" THEN Done(k)
         ELSE Writes(k, c, <<<<"RCTAU", Word(CutOff(k.value, 0))>>,
                             <<"RCTAUFRAC", k.value % 2>>>>), LAMBDA a :
         Done(PslSetDefault(IF a.detType = "RC" THEN [a EXCEPT !.detTime[c] = a.value] ELSE a,
                            c, "decay_time", a.value)))

\* pslQuickRun: a run is started, watched until the DSP has finished or has
\* taken too long, and stopped.  Xerxes forgets the run before it ends it; a
\* DSP whose RUNTYPE is special does the special task instead.
SaturnQuickRun(k) ==
    Then(SaturnRegister(k, k), LAMBDA a :
         IF a.busy \/ a.run = "asleep" THEN Refused(a)
         ELSE LET on == [a EXCEPT !.busy = TRUE] IN
              Then(SaturnRegister(a, on), LAMBDA b :
              Then(SaturnRegister(b, b), LAMBDA d :
                   LET off == [d EXCEPT !.busy = FALSE] IN
                   Done(off) \cup Faulty(off) \cup Faulty(d)
                   \cup IF d.run = "special" THEN Refused(off) ELSE {})))

\* Any polarity is taken; a short run makes it effective.
SaturnDoPolarity(k, c) ==
    Then(SetParameter(k, c, "POLARITY", k.value), LAMBDA a :
    Then(SaturnQuickRun(a), LAMBDA b :
         Done(PslSetDefault([b EXCEPT !.detPol[c] = k.value], c, "detector_polarity",
                            k.value))))

\* The synchronisation functions: what the detector says goes to the defaults.
XmapSynchPolarity(k, c) == PslSetDefault(k, c, "detector_polarity", k.detPol[c])
XmapSynchResetDelay(k, c) ==
    IF k.detType # "RESET" THEN k ELSE PslSetDefault(k, c, "reset_delay", k.detTime[c])
XmapSynchDecayTime(k, c) == PslSetDefault(k, c, "decay_time", k.detTime[c])
XmapSynchPreampType(k, c) == PslSetDefault(k, c, "preamp_type", TypeCode(k.detType))
MercurySynchPolarity(k, c) == XmapSynchPolarity(k, c)
MercurySynchResetDelay(k, c) == XmapSynchResetDelay(k, c)
MercurySynchDecayTime(k, c) == XmapSynchDecayTime(k, c)
MercurySynchPreampType(k, c) == XmapSynchPreampType(k, c)
StjSynchPolarity(k, c) == XmapSynchPolarity(k, c)
StjSynchResetDelay(k, c) == XmapSynchResetDelay(k, c)
StjSynchDecayTime(k, c) == XmapSynchDecayTime(k, c)
StjSynchPreampType(k, c) == XmapSynchPreampType(k, c)

SaturnSynchPolarity(k, c) == XmapSynchPolarity(k, c)
SaturnSynchResetDelay(k, c) == XmapSynchResetDelay(k, c)
SaturnSynchDecayTime(k, c) ==
    IF k.detType # "RC" THEN k ELSE PslSetDefault(k, c, "decay_time", k.detTime[c])

\* Only the Saturn asks for the type before it takes the time of the detector
\* for the decay time.
XmapSynchronised(k, c) ==
    XmapSynchPreampType(XmapSynchDecayTime(XmapSynchResetDelay(
        XmapSynchPolarity(k, c), c), c), c)
MercurySynchronised(k, c) ==
    MercurySynchPreampType(MercurySynchDecayTime(MercurySynchResetDelay(
        MercurySynchPolarity(k, c), c), c), c)
StjSynchronised(k, c) ==
    StjSynchPreampType(StjSynchDecayTime(StjSynchResetDelay(
        StjSynchPolarity(k, c), c), c), c)
SaturnSynchronised(k, c) ==
    SaturnSynchPolarity(SaturnSynchDecayTime(SaturnSynchResetDelay(k, c), c), c)

-----------------------------------------------------------------------------
(* The acquisition values of each product, by name.  type is the preamplifier *)
(* type the caller read before the call; a name that is not listed is kept    *)
(* and does nothing.                                                          *)

XmapSetter(k, c, n, type) ==
    CASE n = "peaking_time" -> XmapSetPeakingTime(k, c, type)
      [] n = "minimum_gap_time" -> XmapSetMinGapTime(k, c)
      [] n = "gap_time" -> XmapSetGapTime(k, c)
      [] n = "peak_sample_offset0" -> XmapSetPeakSampleOffset(k, c, n, 0)
      [] n = "peak_sample_offset2" -> XmapSetPeakSampleOffset(k, c, n, 2)
      [] n = "peak_interval_offset0" -> XmapSetPeakIntervalOffset(k, c, n, 0)
      [] n = "peak_interval_offset2" -> XmapSetPeakIntervalOffset(k, c, n, 2)
      [] n = "peak_mode" -> XmapSetPeakMode(k, c)
      [] n = "trigger_peaking_time" -> XmapSetTrigPeakingTime(k, c, n)
      [] n = "trigger_gap_time" -> XmapSetTrigGapTime(k, c, n)
      [] n = "maxwidth" -> XmapSetMaxWidth(k, c)
      [] n = "baseline_average" -> XmapSetBaseAvg(k, c)
      [] n = "reset_delay" -> XmapSetResetDelay(k, c)
      [] n = "decay_time" -> XmapSetDecayTime(k, c)
      [] n = "detector_polarity" -> XmapSetPolarity(k, c)
      [] OTHER -> Done(k)

MercurySetter(k, c, n, type) ==
    CASE n = "peaking_time" -> MercurySetPeakingTime(k, c, type)
      [] n = "minimum_gap_time" -> MercurySetMinGapTime(k, c)
      [] n = "gap_time" -> MercurySetGapTime(k, c)
      [] n = "peak_sample_offset0" -> MercurySetPeakSampleOffset(k, c, n, 0)
      [] n = "peak_sample_offset2" -> MercurySetPeakSampleOffset(k, c, n, 2)
      [] n = "peak_interval_offset0" -> MercurySetPeakIntervalOffset(k, c, n, 0)
      [] n = "peak_interval_offset2" -> MercurySetPeakIntervalOffset(k, c, n, 2)
      [] n = "peak_mode" -> MercurySetPeakMode(k, c)
      [] n = "trigger_peaking_time" -> MercurySetTrigPeakingTime(k, c, n)
      [] n = "trigger_gap_time" -> MercurySetTrigGapTime(k, c, n)
      [] n = "maxwidth" -> MercurySetMaxWidth(k, c)
      [] n = "baseline_average" -> MercurySetBaseAvg(k, c)
      [] n = "reset_delay" -> MercurySetResetDelay(k, c)
      [] n = "decay_time" -> MercurySetDecayTime(k, c)
      [] n = "detector_polarity" -> MercurySetPolarity(k, c)
      [] OTHER -> Done(k)

StjSetter(k, c, n, type) ==
    CASE n = "peaking_time" -> StjSetPeakingTime(k, c, type)
      [] n = "minimum_gap_time" -> StjSetMinGapTime(k, c)
      [] n = "gap_time" -> StjSetGapTime(k, c)
      [] n = "peak_sample_offset0" -> StjSetPeakSampleOffset(k, c, n, 0)
      [] n = "peak_sample_offset2" -> StjSetPeakSampleOffset(k, c, n, 2)
      [] n = "peak_interval_offset0" -> StjSetPeakIntervalOffset(k, c, n, 0)
      [] n = "peak_interval_offset2" -> StjSetPeakIntervalOffset(k, c, n, 2)
      [] n = "peak_mode" -> StjSetPeakMode(k, c)
      [] n = "trigger_peaking_time" -> StjSetTrigPeakingTime(k, c, n)
      [] n = "trigger_gap_time" -> StjSetTrigGapTime(k, c, n)
      [] n = "maxwidth" -> StjSetMaxWidth(k, c)
      [] n = "baseline_average" -> StjSetBaseAvg(k, c)
      [] n = "reset_delay" -> StjSetResetDelay(k, c)
      [] n = "decay_time" -> StjSetDecayTime(k, c)
      [] n = "detector_polarity" -> StjSetPolarity(k, c)
      [] OTHER -> Done(k)

SaturnSetter(k, c, n, type) ==
    CASE n = "peaking_time" -> SaturnDoPeakingTime(k, c, type)
      [] n = "minimum_gap_time" -> SaturnSetMinGapTime(k, c)
      [] n = "gap_time" -> SaturnDoGapTime(k, c)
      [] n = "trigger_peaking_time" -> SaturnDoTriggerPeakingTime(k, c, n)
      [] n = "trigger_gap_time" -> SaturnDoTriggerGapTime(k, c, n)
      [] n = "maxwidth" -> SaturnSetMaxWidth(k, c)
      [] n = "reset_delay" -> SaturnDoResetDelay(k, c)
      [] n = "decay_time" -> SaturnDoDecayTime(k, c)
      [] n = "detector_polarity" -> SaturnDoPolarity(k, c)
      [] OTHER -> Done(k)

Setter(k, c, n, type) ==
    CASE k.product = "xmap" -> XmapSetter(k, c, n, type)
      [] k.product = "mercury" -> MercurySetter(k, c, n, type)
      [] k.product = "stj" -> StjSetter(k, c, n, type)
      [] k.product = "saturn" -> SaturnSetter(k, c, n, type)

\* What is in the defaults is asked for again.
Again(a, c, n) == Asked(a, a.val[c][n])

\* pslUserSetup of one channel: synchronise, then every entry in its order.
XmapUserSetup(k, c, type) ==
    InTurn(XmapSynchronised(k, c), Names, LAMBDA a, n :
           SetEntry(a, c, n, IF n = "preamp_type" THEN Done(Again(a, c, n))
                             ELSE XmapSetter(Again(a, c, n), c, n, type)))
MercuryUserSetup(k, c, type) ==
    InTurn(MercurySynchronised(k, c), Names, LAMBDA a, n :
           SetEntry(a, c, n, IF n = "preamp_type" THEN Done(Again(a, c, n))
                             ELSE MercurySetter(Again(a, c, n), c, n, type)))
StjUserSetup(k, c, type) ==
    InTurn(StjSynchronised(k, c), Names, LAMBDA a, n :
           SetEntry(a, c, n, IF n = "preamp_type" THEN Done(Again(a, c, n))
                             ELSE StjSetter(Again(a, c, n), c, n, type)))

\* The Saturn runs briefly before and after its entries, and then reads the
\* addresses of its spectra.
SaturnUserSetup(k, c, type) ==
    Then(SaturnQuickRun(SaturnSynchronised(k, c)), LAMBDA a :
    Then(InTurn(a, Names, LAMBDA e, n :
                SetEntry(e, c, n, SaturnSetter(Again(e, c, n), c, n, type))), LAMBDA b :
    Then(SaturnQuickRun(b), LAMBDA e : Access(e, e))))

UserSetup(k, c, type) ==
    CASE k.product = "saturn" -> SaturnUserSetup(k, c, type)
      [] k.product = "mercury" -> MercuryUserSetup(k, c, type)
      [] k.product = "stj" -> StjUserSetup(k, c, type)
      [] OTHER -> XmapUserSetup(k, c, type)

\* psl__SetPreampType: firmware, the type's own time, then everything again,
\* with the type the caller had before.
MercurySetPreampType(k, c, type) ==
    LET new == TypeName(k.value)
        own == IF new = "RESET" THEN "reset_delay" ELSE "decay_time" IN
    IF k.value = k.val[c]["preamp_type"] THEN Done(k)
    ELSE Then(MercurySwitchFirmware(k, c, new), LAMBDA a :
         Then(PslSetAcquisitionValues(
                  [a EXCEPT !.detType = new, !.detTime[c] = a.val[c][own]], c, own,
                  Setter([Again(a, c, own) EXCEPT !.detType = new,
                                                  !.detTime[c] = a.val[c][own]],
                         c, own, new)), LAMBDA e :
         UserSetup(PslSetDefault(e, c, "preamp_type", k.value), c, type)))

\* The xMAP and the STJ have no RC firmware to switch to.
XmapSetPreampType(k, c, type) ==
    IF k.value # k.val[c]["preamp_type"] /\ TypeName(k.value) = "RC" THEN Refused(k)
    ELSE MercurySetPreampType(k, c, type)
StjSetPreampType(k, c, type) == XmapSetPreampType(k, c, type)

SetFN(k, c, n, type) ==
    CASE n # "preamp_type" -> Setter(k, c, n, type)
      [] k.product = "mercury" -> MercurySetPreampType(k, c, type)
      [] k.product = "stj" -> StjSetPreampType(k, c, type)
      [] k.product = "xmap" -> XmapSetPreampType(k, c, type)

-----------------------------------------------------------------------------
(* Starting the system, and the calls. *)

\* xia__AddXerxesBoardType, xia__AddXerxesInterface, xia__AddXerxesModule: a
\* board of which Xerxes knows nothing yet.
AddXerxesModule(k) ==
    Access(k, [k EXCEPT !.named = Broken, !.busy = FALSE, !.full = FALSE])

\* What the firmware file has for a preamplifier at the peaking time that stands
\* for all, or at the channel's own.
GetSystemFPGAName(type) == XmapGetFiPPIName(FakePT, type)
GetSystemDSPName(type) == XmapGetFiPPIName(FakePT, type)
GetFiPPIAName(type) == XmapGetFiPPIName(FakePT, type)
GetDSPName(k, c) == XmapGetFiPPIName(k.val[c]["peaking_time"], k.detType)
GetFiPPIName(k, c) == XmapGetFiPPIName(k.val[c]["peaking_time"], k.detType)

\* xia__DoSystemFPGA
DoSystemFPGA(k) == IF GetSystemFPGAName(k.detType) = {} THEN Done(k) ELSE ReadFippi(k)

\* xia__DoSystemDSP: the name that the module remembers stays what it was.
DoSystemDSP(k) == IF GetSystemDSPName(k.detType) = {} THEN Done(k) ELSE AddDsp(k)

\* xia__DoFiPPIA: remembered for every channel before the file is read.
DoFiPPIA(k) ==
    UNION {AddFippi(RememberFiPPI(k, f), f) : f \in GetFiPPIAName(k.detType)}

\* xia__DoDSP and xia__DoFiPPI, where there is no system firmware.
DoDSP(k, c) ==
    IF GetDSPName(k, c) = {} THEN Refused(k)
    ELSE AddDsp([k EXCEPT !.cacheD[c] = k.detType])
DoFiPPI(k, c) ==
    UNION {AddFippi([k EXCEPT !.cacheF[c] = f], f) : f \in GetFiPPIName(k, c)}

\* xiaBuildXerxesConfig
BuildXerxesConfig(k) ==
    Then(AddXerxesModule(k), LAMBDA a :
         IF k.product = "saturn"
         THEN Then(DoDSP(a, 0), LAMBDA b : DoFiPPI(b, 0))
         ELSE Then(DoSystemFPGA(a), LAMBDA b :
              Then(DoSystemDSP(b), LAMBDA e : DoFiPPIA(e))))

\* xia__SetupSingleChan, with xiaUpdateUserParams.
SetupSingleChan(k, c) == Then(UserSetup(k, c, k.detType), LAMBDA a : Access(a, a))

\* pslModuleSetup
XmapModuleSetup(k) == XmapApply(k)
MercuryModuleSetup(k) == MercuryApply(k)
StjModuleSetup(k) == StjApply(k)
SaturnModuleSetup(k) == Done(k)
ModuleSetup(k) ==
    CASE k.product = "xmap" -> XmapModuleSetup(k)
      [] k.product = "mercury" -> MercuryModuleSetup(k)
      [] k.product = "stj" -> StjModuleSetup(k)
      [] k.product = "saturn" -> SaturnModuleSetup(k)

\* xiaUserSetup: Xerxes loads the board, every channel is set up, the module last.
XiaUserSetup(k) ==
    Then(FoldLeft(LAMBDA outs, c : Then(outs, LAMBDA a : SetupSingleChan(a, c)),
                  DxpUserSetup(k, k.detType), SetToSortSeq(DOMAIN k.val, <)),
         LAMBDA b : ModuleSetup(b))

\* xiaStartSystem
StartSystem(k) == Then(BuildXerxesConfig(k), LAMBDA a : XiaUserSetup(a))

\* A call with the name n on the channels ds.
Called(k, ds, n, v) ==
    InTurn(k, ds, LAMBDA a, c :
        LET e == Entered(a, c, n, v) IN
        PslSetAcquisitionValues(e, c, n, SetFN(Asked(e, v), c, n, e.detType)))

NotSaturn == {"peak_mode", "baseline_average", "preamp_type", "peak_sample_offset0",
              "peak_sample_offset2", "peak_interval_offset0", "peak_interval_offset2"}

\* A module before its first start.
Blank(product) ==
    LET cs == Chans(product) IN
    [product |-> product, value |-> 0, budget |-> 0,
     val |-> [c \in cs |-> [n \in ToSet(Names) |->
                IF product = "saturn" /\ n \in NotSaturn THEN NoEntry ELSE Start[n]]],
     par |-> [c \in cs |-> [p \in Params |-> 0]],
     fippi |-> Broken, dsp |-> "none", run |-> "normal", named |-> Broken,
     busy |-> FALSE, full |-> FALSE, cacheF |-> [c \in cs |-> Broken],
     cacheD |-> [c \in cs |-> "none"], detType |-> "RESET",
     detTime |-> [c \in cs |-> Start["reset_delay"]],
     detPol |-> [c \in cs |-> Start["detector_polarity"]]]

\* A module whose first start has succeeded or failed.
Init ==
    /\ topic \in Topics
    /\ \E product \in Products :
       \E o \in StartSystem([Blank(product) EXCEPT !.budget = MaxFaults]) :
          /\ m = o.m
          /\ last = [op |-> "start", name |-> "none", chans |-> DOMAIN m.val, ok |-> o.ok]
    /\ calls = 0

\* Names the application uses with a product.
Known(product) == IF product = "saturn" THEN topic \ NotSaturn ELSE topic

\* A call is made.
Call == calls < MaxCalls /\ calls' = calls + 1 /\ UNCHANGED topic

\* A start that has failed is repeated before the module is used.
Started == last.op = "start" => last.ok

SetValue(ds, n, v) ==
    /\ Call /\ Started
    /\ n \in Known(m.product)
    /\ \E o \in Called(m, ds, n, v) :
          /\ m' = o.m
          /\ last' = [op |-> "set", name |-> n, chans |-> ToSet(ds), ok |-> o.ok]

\* xiaRemoveAcquisitionValues of a name that may be absent.
RemoveValue(c, n) ==
    /\ Call /\ Started
    /\ n \in Known(m.product) /\ Start[n] = NoEntry /\ m.val[c][n] # NoEntry
    /\ \E o \in UserSetup(RemoveEntry(m, c, n), c, m.detType) :
          /\ m' = o.m
          /\ last' = [op |-> "remove", name |-> n, chans |-> {c}, ok |-> o.ok]

\* Without faults.
Sound(k) == [k EXCEPT !.budget = 0]

\* xiaStartSystem again; accesses fail in the first start and in the calls.
Restart ==
    /\ Call
    /\ \E o \in StartSystem(Sound(m)) :
          /\ m' = [o.m EXCEPT !.budget = m.budget]
          /\ last' = [op |-> "start", name |-> "none", chans |-> DOMAIN m.val, ok |-> o.ok]

Next ==
    \/ \E n \in topic : \E v \in Values[n] :
          \/ \E c \in DOMAIN m.val : SetValue(<<c>>, n, v)
          \/ SetValue(SetToSortSeq(DOMAIN m.val, <), n, v)      \* detChan -1
    \/ \E n \in topic, c \in DOMAIN m.val : RemoveValue(c, n)
    \/ Restart

Spec == Init /\ [][Next]_vars

-----------------------------------------------------------------------------
(* What the hardware does is what the defaults say. *)

\* The energy filter of channel c is the one its entries describe, with the
\* FiPPI of its peaking time.
FilterHeld(k, c) ==
    LET val == k.val[c]
        par == k.par[c]
        d == k.fippi.dec IN
    /\ k.fippi \in XmapGetFiPPIName(val["peaking_time"], k.detType)
    /\ ReadoutPeakingTime(k, c) = val["peaking_time"]
    /\ IF k.product = "saturn"
       THEN /\ Time(par["SLOWGAP"], d) = val["actual_gap_time"]
            /\ par["PEAKINT"] = par["SLOWLEN"] + par["SLOWGAP"] + k.fippi.peakInt
            /\ par["PEAKSAM"] = Word(par["PEAKINT"] - k.fippi.peakSam)
       ELSE /\ par["SLOWGAP"] = SlowGap(val["minimum_gap_time"], d)
            /\ par["PEAKMODE"] = val["peak_mode"]
            /\ LET w == FilterWrites(val, d, k.fippi, par["SLOWLEN"], par["SLOWGAP"]) IN
               \A i \in DOMAIN w : par[w[i][1]] = w[i][2]

TriggerHeld(k, c) ==
    /\ Time(k.par[c]["FASTLEN"], 0) = k.val[c]["trigger_peaking_time"]
    /\ Time(k.par[c]["FASTGAP"], 0) = k.val[c]["trigger_gap_time"]
    /\ k.product \in {"xmap", "mercury"} => k.par[c]["FSCALE"] = Scale(k.par[c]["FASTLEN"])
    /\ Time(k.par[c]["MAXWIDTH"], 0) = k.val[c]["maxwidth"]
    /\ k.product \in {"xmap", "mercury"} =>
           k.par[c]["BLAVGDIV"] = Word(Scale(k.val[c]["baseline_average"]))
    /\ k.product = "stj" => k.par[c]["BLAVGDIV"] = k.val[c]["baseline_average"]

PreampHeld(k, c) ==
    /\ k.dsp = k.detType
    /\ k.val[c]["preamp_type"] \in {NoEntry, TypeCode(k.detType)}
    /\ k.par[c]["POLARITY"] = k.val[c]["detector_polarity"]
    /\ k.detType = "RESET" => Time(k.par[c]["RESETINT"], 0) = k.val[c]["reset_delay"]
    /\ k.detType = "RC" => 2 * k.par[c]["RCTAU"] + k.par[c]["RCTAUFRAC"] = k.val[c]["decay_time"]

Held(k, c) == FilterHeld(k, c) /\ TriggerHeld(k, c) /\ PreampHeld(k, c)

\* The module can be told to run: no special task is under way or chosen.
Ready(k) == k.run = "normal" /\ ~k.busy /\ ~k.full

AllHeld(k) == Ready(k) /\ \A c \in DOMAIN k.val : Held(k, c)

-----------------------------------------------------------------------------
(* Properties. *)

\* A call that succeeds does not lose what the channels it addresses hold: with
\* its new value, each still has the filters and the preamplifier its values
\* describe, and the same firmware rules apply.  Nor does it leave the DSP
\* asleep, or a task with Xerxes.  (Not a change of preamplifier, nor a peak
\* mode, which succeeds when an access or a task of it has failed; and a FiPPI whose checksum is
\* wrong at every attempt is reported as loaded.)  A peaking time repairs the
\* whole filter, whatever call failed half way before and whatever FiPPI another
\* channel's call has loaded, if the FiPPI is the one the module remembers.
\* (Not the STJ's, which is skipped when SLOWLEN is already there,
\* stj_psl.c:3030.)
SuccessHolds ==
    [][last'.ok /\ last'.op = "set" =>
        /\ \/ last'.name = "preamp_type"
           \/ last'.name = "peak_mode" /\ (m'.budget # m.budget \/ ~Ready(m))
           \/ m.product = "stj" /\ last'.name = "peaking_time"
           \/ m'.fippi = Broken
           \/ \A c \in last'.chans : Held(m, c) => Held(m', c)
        /\ \/ last'.name \in {"preamp_type", "peak_mode"} /\ m'.budget # m.budget
           \/ Ready(m) => Ready(m')
        /\ last'.name = "peaking_time" /\ m.product # "stj"
             => \A c \in last'.chans : m'.fippi = m'.cacheF[c] => FilterHeld(m', c)]_vars

\* A call does not disturb a channel it does not address, unless it loads
\* other firmware into the module they share.
OthersUndisturbed ==
    [][/\ m'.fippi = m.fippi /\ m'.dsp = m.dsp /\ m'.detType = m.detType
       => \A c \in DOMAIN m.val \ last'.chans : Held(m, c) => Held(m', c)]_vars

\* A value that Handel reports can be set again: the call succeeds and leaves
\* the hardware and every reported value as they are.
ReportedIsFixedPoint ==
    AllHeld(m) =>
        \A n \in Known(m.product), c \in DOMAIN m.val :
            m.val[c][n] # NoEntry =>
                \A o \in Called(Sound(m), <<c>>, n, m.val[c][n]) :
                    o.ok /\ o.m.par = m.par /\ o.m.val = m.val /\ o.m.fippi = m.fippi

\* A start that succeeds makes the module ready, with the FiPPI that it
\* remembers and the program of its preamplifier, and the channel set up last
\* has its filter, whatever has failed before.  As long as no access has failed, starting
\* from the reported values succeeds, keeps them, and the hardware does what
\* they say.  (After a failed call the detector may hold a reset delay that was
\* not accepted; and the decay time of a detector of type RESET becomes its
\* reset delay.)
RestartReproduces ==
    [][last'.op = "start" =>
        /\ last'.ok =>
              /\ Ready(m') /\ m'.dsp = m'.detType
              /\ \A c \in DOMAIN m.val : m'.fippi = m'.cacheF[c]
              /\ FilterHeld(m', IF m.product = "saturn" THEN 0 ELSE 1)
        /\ m.budget = MaxFaults /\ AllHeld(m) =>
              /\ last'.ok /\ AllHeld(m')
              /\ \A c \in DOMAIN m.val, n \in ToSet(Names) \ {"decay_time"} :
                    m'.val[c][n] = m.val[c][n]]_vars
=============================================================================
