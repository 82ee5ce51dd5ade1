------------------------------ MODULE BoardRuns ------------------------------
(***************************************************************************)
(* How the drivers (devices/*/*.c) start, end and watch runs, register by  *)
(* register.  A board is a record b:                                       *)
(*                                                                         *)
(*   product  which driver                                                 *)
(*   hw       what the DSP executes: "idle", "data", or a special run      *)
(*   runType  RUNTYPE; in the Saturn the control bit of RUNTASKS           *)
(*   task     SPECIALRUN, in the Saturn WHICHTEST                          *)
(*   kind     TRACETYPE                                                    *)
(*   trace    the kind of the trace in the board's memory                  *)
(*   applied  APPLYSTAT is zero                                            *)
(*   fresh    the DSP has applied the parameters as they are               *)
(*   run      Xerxes: state[0]                                             *)
(*   ctask    Xerxes: state[4]                                             *)
(*   site     what the current access is for                               *)
(*   may      the sites where the hardware may fail                        *)
(*                                                                         *)
(* The DSP is external.  While a driver polls, a special run may complete  *)
(* and a data run may reach its preset; a bias scan runs until it is ended *)
(* or complete.  A polling loop that ends without an answer is a timeout:  *)
(* the number of polls is left out.                                        *)
(***************************************************************************)
EXTENDS Outcomes

Kinds == {"adc", "filter"}
Tasks == {"apply", "trace", "scan", "dac", "relay"}

\* May the hardware fail here?
Breaks(b) == b.site \in b.may

\* A register or a DSP parameter is accessed; the board is b afterwards.
Reg(b, n) == Done(n) \cup (IF Breaks(b) THEN Refused(b) ELSE {})

At(b, site) == [b EXCEPT !.site = site]

-----------------------------------------------------------------------------
(* The DSP. *)

Active(b) == b.hw # "idle"

\* Run Enable is set: the DSP starts what RUNTYPE says, if it does nothing.
RunEnabled(b) ==
    IF Active(b) THEN b
    ELSE [b EXCEPT !.hw = IF b.runType = "normal" THEN "data" ELSE b.task]

Ended(b) == [b EXCEPT !.hw = "idle"]

\* A run is over, with what it leaves behind.
Completed(b) ==
    [Ended(b) EXCEPT !.applied = @ \/ b.hw = "apply",
                     !.fresh = @ \/ b.hw = "apply",
                     !.trace = IF b.hw = "trace" THEN b.kind ELSE @]

\* Run Enable is cleared: the DSP ends the run, or does not listen.
RunDisabled(b) == {Ended(b)} \cup (IF Breaks(b) THEN {b} ELSE {})

\* What a polling loop sees in the end: is the run over?
Polled(b) ==
    {[over |-> TRUE, m |-> Completed(b)]} \cup
    (IF b.hw \in {"data", "scan"} \/ (Active(b) /\ Breaks(b))
     THEN {[over |-> FALSE, m |-> b]} ELSE {})

\* Or a poll fails.
PollBreaks(b) == IF Breaks(b) THEN UNION {Refused(p.m) : p \in Polled(b)} ELSE {}

-----------------------------------------------------------------------------
(* xMAP. *)

\* RESET_MCA, then Run Enable.
XmapBeginRun(b) == Then(Reg(b, b), LAMBDA k : Reg(k, RunEnabled(k)))

XmapWaitForBusy(b) == {[ok |-> p.over, m |-> p.m] : p \in Polled(b)} \cup PollBreaks(b)

XmapEndRun(b) ==
    Then(Reg(At(b, "stop"), At(b, "stop")),
         LAMBDA k : UNION {XmapWaitForBusy(e) : e \in RunDisabled(k)})

XmapRunActive(b) == Reg(b, b)

XmapEndControlTask(b) ==
    Then(XmapEndRun(b), LAMBDA k : Reg(k, [k EXCEPT !.runType = "normal"]))

\* The parameters of a special run, one after the other.
XmapSpecial(b, task) ==
    Then(Reg(b, [b EXCEPT !.runType = "special"]),
         LAMBDA k : Reg(k, [k EXCEPT !.task = task]))

\* dxp__run_enable_active until it says no: F when it does, and a run that
\* goes on is ended.
XmapRunEnableActive(b) ==
    PollBreaks(b) \cup
    UNION {IF p.over THEN Done(p.m)
           ELSE UNION {Refused(e.m) : e \in XmapEndRun(p.m)} : p \in Polled(b)}

\* Mutant: APPLYSTAT is left as the last apply left it.
MutApplyStat(b) == b

\* APPLYSTAT is written with a value the DSP never writes.
ApplyStat(b) == [b EXCEPT !.applied = FALSE]

XmapDoApply(b) ==
    Then(XmapSpecial(b, "apply"), LAMBDA k :
    Then(Reg(k, ApplyStat(k)), LAMBDA l :
    Then(XmapBeginRun(l), LAMBDA n :
    Then(XmapRunEnableActive(n), LAMBDA o :
        Then(Reg(o, o), LAMBDA r : IF r.applied THEN Done(r) ELSE Refused(r))))))

\* The parameters of a trace: TRACECHAN, RUNTYPE, TRACETYPE and SPECIALRUN.
XmapTrace(b, kind) ==
    Then(Reg(b, b), LAMBDA k :
    Then(Reg(k, [k EXCEPT !.runType = "special"]), LAMBDA l :
    Then(Reg(l, [l EXCEPT !.kind = kind]), LAMBDA n :
         Reg(n, [n EXCEPT !.task = "trace"]))))

\* The success of the clean-up is what a timeout returns.
XmapDoTrace(b, kind) ==
    Then(XmapTrace(b, kind), LAMBDA k :
    Then(XmapBeginRun(k), LAMBDA l :
    UNION {IF o.ok THEN {o} ELSE XmapEndControlTask(o.m) : o \in XmapWaitForBusy(l)}))

\* TRACEWAIT.
XmapProcessTraceWait(b) == Reg(b, b)

XmapBeginControlTask(b, task, kind) ==
    IF task = "apply" THEN XmapDoApply(b)
    ELSE Then(XmapProcessTraceWait(b), LAMBDA k : XmapDoTrace(k, kind))

\* TRACELEN, TRACESTART and the memory.
XmapGetAdcTrace(b) == Reg(b, b)
XmapControlTaskData(b) == XmapGetAdcTrace(b)

-----------------------------------------------------------------------------
(* Mercury. *)

MercuryBeginRun(b) == XmapBeginRun(b)
MercuryWaitForBusy(b) == XmapWaitForBusy(b)
MercuryRunActive(b) == XmapRunActive(b)
MercuryEndRun(b) ==
    Then(Reg(At(b, "stop"), At(b, "stop")),
         LAMBDA k : UNION {MercuryWaitForBusy(e) : e \in RunDisabled(k)})
MercuryEndControlTask(b) ==
    Then(MercuryEndRun(b), LAMBDA k : Reg(k, [k EXCEPT !.runType = "normal"]))

MercuryRunEnableActive(b) == XmapRunEnableActive(b)
MercuryDoApply(b) == XmapDoApply(b)

MercuryDoSpecialrun(b, task) ==
    Then(XmapSpecial(b, task), LAMBDA k :
    Then(MercuryBeginRun(k), LAMBDA l :
    UNION {IF o.ok THEN {o} ELSE MercuryEndControlTask(o.m)
             : o \in MercuryWaitForBusy(l)}))

\* TRACECHAN first.
MercuryDoTrace(b) == Then(Reg(b, b), LAMBDA k : MercuryDoSpecialrun(k, "trace"))
MercuryCalibrateRcTime(b) == MercuryDoSpecialrun(b, "dac")

MercuryBeginControlTask(b, task) ==
    CASE task = "apply" -> MercuryDoApply(b)
      [] task = "trace" -> MercuryDoTrace(b)
      [] OTHER -> MercuryCalibrateRcTime(b)

MercuryGetAdcTrace(b) == Reg(b, b)
MercuryControlTaskData(b) == MercuryGetAdcTrace(b)

-----------------------------------------------------------------------------
(* STJ. *)

StjBeginRun(b) == XmapBeginRun(b)
StjWaitForBusy(b) == XmapWaitForBusy(b)
StjRunActive(b) == XmapRunActive(b)
StjEndRun(b) ==
    Then(Reg(At(b, "stop"), At(b, "stop")),
         LAMBDA k : UNION {StjWaitForBusy(e) : e \in RunDisabled(k)})
StjEndControlTask(b) ==
    Then(StjEndRun(b), LAMBDA k : Reg(k, [k EXCEPT !.runType = "normal"]))

StjStartSpecialRun(b, task) ==
    Then(XmapSpecial(b, task), LAMBDA k : StjBeginRun(k))

\* A timeout leaves the run as it is.
StjDoSpecialRun(b, task) ==
    Then(StjStartSpecialRun(b, task), LAMBDA k : StjWaitForBusy(k))

StjRunEnableActive(b) == XmapRunEnableActive(b)

\* APPLYSTAT is neither written nor read.
StjDoApply(b) ==
    Then(StjStartSpecialRun(b, "apply"),
         LAMBDA k : StjRunEnableActive(k))

\* TRACEWAIT, TRACETYPE.
StjProcessTraceParam(b, kind) ==
    Then(Reg(b, b), LAMBDA k : Reg(k, [k EXCEPT !.kind = kind]))

StjDoTrace(b) == StjDoSpecialRun(b, "trace")
StjBiasScan(b) == StjStartSpecialRun(b, "scan")
StjBiasSetDac(b) == StjDoSpecialRun(b, "dac")

StjBeginControlTask(b, task, kind) ==
    CASE task = "apply" -> StjDoApply(b)
      [] task = "trace" -> Then(StjProcessTraceParam(b, kind), StjDoTrace)
      [] task = "scan" -> StjBiasScan(b)
      [] OTHER -> StjBiasSetDac(b)

StjGetAdcTrace(b) == Reg(b, b)
StjControlTaskData(b) == StjGetAdcTrace(b)

-----------------------------------------------------------------------------
(* Saturn. *)

SaturnBeginRun(b) == Then(Reg(b, b), LAMBDA k : Reg(k, RunEnabled(k)))

\* What the registers return is not looked at, and nothing is waited for.
SaturnEndRun(b) == UNION {Done(e) : e \in RunDisabled(At(b, "stop"))}

SaturnRunActive(b) == Reg(b, b)

SaturnBeginControlTask(b, task, kind) ==
    Then(Reg(b, [b EXCEPT !.runType = "special"]), LAMBDA k :
    Then(Reg(k, k), LAMBDA l :                     \* TRACEWAIT, EXTPAGE, ...
    Then(Reg(l, [l EXCEPT !.task = task, !.kind = kind]), LAMBDA n :
    SaturnBeginRun(n))))

SaturnEndControlTask(b) ==
    Then(SaturnEndRun(b), LAMBDA k :
    Then(Reg(k, k), LAMBDA l : Reg(l, [l EXCEPT !.runType = "normal"])))

SaturnControlTaskData(b) == Reg(b, b)

-----------------------------------------------------------------------------
(* The function table of Xerxes. *)

BeginRun(b) ==
    CASE b.product = "xmap" -> XmapBeginRun(b)
      [] b.product = "mercury" -> MercuryBeginRun(b)
      [] b.product = "stj" -> StjBeginRun(b)
      [] b.product = "saturn" -> SaturnBeginRun(b)

EndRun(b) ==
    CASE b.product = "xmap" -> XmapEndRun(b)
      [] b.product = "mercury" -> MercuryEndRun(b)
      [] b.product = "stj" -> StjEndRun(b)
      [] b.product = "saturn" -> SaturnEndRun(b)

RunActive(b) ==
    CASE b.product = "xmap" -> XmapRunActive(b)
      [] b.product = "mercury" -> MercuryRunActive(b)
      [] b.product = "stj" -> StjRunActive(b)
      [] b.product = "saturn" -> SaturnRunActive(b)

BeginControlTask(b, task, kind) ==
    CASE b.product = "xmap" -> XmapBeginControlTask(b, task, kind)
      [] b.product = "mercury" -> MercuryBeginControlTask(b, task)
      [] b.product = "stj" -> StjBeginControlTask(b, task, kind)
      [] b.product = "saturn" -> SaturnBeginControlTask(b, task, kind)

EndControlTask(b) ==
    CASE b.product = "xmap" -> XmapEndControlTask(b)
      [] b.product = "mercury" -> MercuryEndControlTask(b)
      [] b.product = "stj" -> StjEndControlTask(b)
      [] b.product = "saturn" -> SaturnEndControlTask(b)

ControlTaskData(b) ==
    CASE b.product = "xmap" -> XmapControlTaskData(b)
      [] b.product = "mercury" -> MercuryControlTaskData(b)
      [] b.product = "stj" -> StjControlTaskData(b)
      [] b.product = "saturn" -> SaturnControlTaskData(b)
=============================================================================
