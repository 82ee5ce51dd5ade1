------------------------------ MODULE DriverRuns ------------------------------
(***************************************************************************)
(* Runs and special runs of the modules whose runs Xerxes keeps, through   *)
(* every function from Handel down to the registers: the drivers of        *)
(* BoardRuns under Xerxes' bookkeeping (xerxes.c) and the PSLs'            *)
(* (devices/*/*_psl.c), one module and one detChan.                        *)
(*                                                                         *)
(* It implements RunControl, whose actions are the outcomes of whole       *)
(* calls: what a call may leave behind is here the result of the order of  *)
(* its register accesses, of its early returns and of what the DSP does    *)
(* while the driver polls.                                                 *)
(***************************************************************************)
EXTENDS BoardRuns

CONSTANTS Single,   \* what the module may be when it has one channel
          Several,  \* when it has several
          Faults    \* where the hardware may fail: see RunControl

Products == Single \cup Several

\* The products whose runs Xerxes keeps; those of a microDXP bypass it.  The
\* Saturn has one channel (pslIsNumChannelsValid).
ASSUME ProductsAssumption == /\ Products \subseteq {"xmap", "mercury", "stj", "saturn"}
                             /\ "saturn" \notin Several
ASSUME FaultsAssumption == Faults \subseteq {"start", "stop", "task"}

VARIABLES orderly,    \* is this an orderly behaviour? see RunControl
          multi,      \* Handel: module->isMultiChannel
          board,      \* the module's board: see BoardRuns
          runActive,  \* Handel: module->state->runActive
          over,       \* history: the last run has ended by itself
          op, rest, status,  \* the API call, as in RunControl
          asked,      \* the modules it addresses
          want        \* the kind of the trace last begun on an idle board

vars == <<orderly, multi, board, runActive, over, op, rest, status, asked, want>>

Mod == "m"
Det == "d"

Init ==
    /\ orderly \in BOOLEAN
    /\ multi \in BOOLEAN
    /\ \E p \in IF multi THEN Several ELSE Single :
          board = [product |-> p, hw |-> "idle", runType |-> "normal",
                   task |-> "apply", kind |-> "adc", trace |-> "none",
                   applied |-> FALSE, fresh |-> FALSE, run |-> FALSE, ctask |-> "none",
                   site |-> "task",
                   may |-> {s \in Faults : orderly => s = "start"}]
    /\ runActive = FALSE /\ over = FALSE
    /\ op = "none" /\ rest = <<>> /\ status = "ok" /\ asked = {}
    /\ want = "none"

-----------------------------------------------------------------------------
(* Xerxes. *)

\* dxp_start_one_run.
StartOneRun(b) ==
    Then(RunActive(b), LAMBDA k :
        IF Active(k) \/ k.run \/ k.ctask # "none" THEN Refused(k)
        ELSE Then(BeginRun(k), LAMBDA l : Done([l EXCEPT !.run = TRUE])))

\* Mutant: the run is forgotten when it has been ended.
MutStopOneRun(b) ==
    IF ~b.run THEN Done(b)
    ELSE Then(EndRun(b), LAMBDA k : Done([k EXCEPT !.run = FALSE]))

\* dxp_stop_one_run: forgotten first.
StopOneRun(b) == IF ~b.run THEN Done(b) ELSE EndRun([b EXCEPT !.run = FALSE])

\* Only a run that Xerxes alone believes in is in the way.
StartControlTask(b, task, kind) ==
    Then(RunActive(b), LAMBDA k :
        IF ~Active(k) /\ (k.run \/ k.ctask # "none") THEN Refused(k)
        ELSE Then(BeginControlTask(k, task, kind),
                  LAMBDA l : Done([l EXCEPT !.run = TRUE, !.ctask = task])))

StopControlTask(b) ==
    Then(EndControlTask(b),
         LAMBDA k : Done([k EXCEPT !.run = FALSE, !.ctask = "none"]))

GetControlTaskData(b) ==
    Then(RunActive(b),
         LAMBDA k : IF Active(k) THEN Refused(k) ELSE ControlTaskData(k))

-----------------------------------------------------------------------------
(* The PSLs: runs. *)

XmapStopRun(b) == StopOneRun(b)
MercuryStopRun(b) == StopOneRun(b)
StjStopRun(b) == StopOneRun(b)

\* BUSY is polled even when Xerxes had forgotten the run; a BUSY that cannot be
\* read is zero.
SaturnStopRun(b) ==
    Then(StopOneRun(b), LAMBDA k :
         {[ok |-> p.over, m |-> p.m] : p \in Polled(At(k, "stop"))}
         \cup (IF "stop" \in k.may THEN {[ok |-> TRUE, m |-> k]} ELSE {}))

PslStopRun(b) ==
    CASE b.product = "xmap" -> XmapStopRun(b)
      [] b.product = "mercury" -> MercuryStopRun(b)
      [] b.product = "stj" -> StjStopRun(b)
      [] b.product = "saturn" -> SaturnStopRun(b)

-----------------------------------------------------------------------------
(* The PSLs: special runs. *)

\* A task that is over when it has begun.
TaskOnce(b, task) ==
    Then(StartControlTask(b, task, b.kind), LAMBDA k : StopControlTask(k))

XmapApply(b) == TaskOnce(b, "apply")
MercuryApply(b) == TaskOnce(b, "apply")
StjApply(b) == TaskOnce(b, "apply")
StjSetBiasDac(b) == TaskOnce(b, "dac")
StjAdjustOffsets(b) == Then(Reg(b, b), LAMBDA k : TaskOnce(k, "dac"))
MercuryCalibrateRc(b) == TaskOnce(b, "dac")
MercuryAdjustOffsets(b) == Then(Reg(b, b), LAMBDA k : TaskOnce(k, "dac"))
StjBeginBiasScan(b) == StartControlTask(b, "scan", b.kind)
StjEndBiasScan(b) == StopControlTask(b)

\* The task stays begun until its data are read.
XmapDoTracePsl(b, kind) == StartControlTask(b, "trace", kind)
StjDoTracePsl(b, kind) == StartControlTask(b, "trace", kind)

\* TRACEWAIT and TRACETYPE; the task is stopped at once.
MercuryDoTracePsl(b, kind) ==
    Then(Reg(b, b), LAMBDA k :
    Then(Reg(k, [k EXCEPT !.kind = kind]), LAMBDA l :
    Then(StartControlTask(l, "trace", kind), LAMBDA n : StopControlTask(n))))

\* BUSY is polled for at most 1000 times.
SaturnDoControlTaskWithoutStop(b, task, kind) ==
    Then(StartControlTask(b, task, kind), LAMBDA k :
         {[ok |-> p.over, m |-> p.m] : p \in Polled(k)} \cup PollBreaks(k))
SaturnDoADCTrace(b) == SaturnDoControlTaskWithoutStop(b, "trace", "adc")
SaturnDoControlTask(b, task) ==
    Then(SaturnDoControlTaskWithoutStop(b, task, b.kind),
         LAMBDA k : StopControlTask(k))

DoTrace(b, kind) ==
    CASE b.product = "xmap" -> XmapDoTracePsl(b, kind)
      [] b.product = "mercury" -> MercuryDoTracePsl(b, kind)
      [] b.product = "stj" -> StjDoTracePsl(b, kind)
      [] b.product = "saturn" -> SaturnDoADCTrace(b)

\* The xMAP and the STJ stop the task, then read; baseline histories and the
\* others are read first, and a read that is refused does not stop the task.
XmapGetADCTrace(b) == Then(StopControlTask(b), LAMBDA k : GetControlTaskData(k))
StjGetADCTrace(b) == Then(StopControlTask(b), LAMBDA k : GetControlTaskData(k))
MercuryGetADCTrace(b) == Then(GetControlTaskData(b), LAMBDA k : StopControlTask(k))
SaturnGetControlTaskDataWithStop(b) ==
    Then(GetControlTaskData(b), LAMBDA k : StopControlTask(k))

GetTrace(b) ==
    CASE b.product = "xmap" -> XmapGetADCTrace(b)
      [] b.product = "mercury" -> MercuryGetADCTrace(b)
      [] b.product = "stj" -> StjGetADCTrace(b)
      [] b.product = "saturn" -> SaturnGetControlTaskDataWithStop(b)

-----------------------------------------------------------------------------
(* Handel's calls. *)

\* The call has the outcome o.
Outcome(o) == board' = At(o.m, "task") /\ status' = IF o.ok THEN "ok" ELSE "error"

\* xiaStartRun and xiaStopRun, on one detChan: see RunControl.
Call(o) ==
    /\ status # "busy"
    /\ op' = o /\ asked' = {Mod} /\ rest' = <<Det>> /\ status' = "busy"
    /\ UNCHANGED <<board, runActive, over, want>>

Return ==
    /\ status = "busy" /\ rest = <<>>
    /\ status' = "ok"
    /\ UNCHANGED <<board, runActive, over, op, asked, rest, want>>

\* The detChan of the walk, with the outcomes outs of the PSL.
Walk(outs, tag) ==
    /\ UNCHANGED <<op, asked, want>>
    /\ rest' = <<>>
    /\ \E o \in outs :
          /\ board' = At(o.m, "task")
          /\ runActive' = IF o.ok /\ multi THEN tag ELSE runActive
          /\ status' = IF o.ok THEN "busy" ELSE "error"

\* A call that is answered from runActive.
Started == multi /\ runActive
Stopped == multi /\ ~runActive

StartRun ==
    /\ op = "start" /\ status = "busy" /\ rest # <<>>
    /\ Walk(IF Started THEN Done(board) ELSE StartOneRun(At(board, "start")), TRUE)
    /\ over' = (over /\ (Started \/ status' = "error"))

StopRun ==
    /\ op = "stop" /\ status = "busy" /\ rest # <<>>
    /\ Walk(IF Stopped THEN Done(board) ELSE PslStopRun(At(board, "stop")), FALSE)
    /\ UNCHANGED over

MayDoTask == status # "busy" /\ (orderly => ~(board.run /\ board.ctask = "none"))

\* A special run, or the "apply" board operation.
Task(o, outs) ==
    /\ MayDoTask
    /\ op' = o /\ asked' = {Mod}
    /\ \E x \in outs : Outcome(x)
    /\ UNCHANGED <<rest, runActive, over>>

ApplyTasks(b) ==
    CASE b.product = "xmap" -> XmapApply(b)
      [] b.product = "mercury" -> MercuryApply(b)
      [] b.product = "stj" -> StjApply(b)
      [] b.product = "saturn" -> SaturnDoControlTask(b, "relay")

Apply == Task("apply", ApplyTasks(board)) /\ UNCHANGED want

OtherTasks(b) ==
    CASE b.product = "stj" -> StjSetBiasDac(b) \cup StjAdjustOffsets(b)
      [] b.product = "mercury" -> MercuryCalibrateRc(b) \cup MercuryAdjustOffsets(b)
      [] OTHER -> {}

OtherTask == Task("task", OtherTasks(board)) /\ UNCHANGED want

BeginBiasScan ==
    /\ board.product = "stj"
    /\ Task("scan", StjBeginBiasScan(board))
    /\ UNCHANGED want

EndBiasScan ==
    /\ board.product = "stj"
    /\ Task("read", StjEndBiasScan(board))
    /\ UNCHANGED want

Trace(kind) ==
    /\ board.product = "saturn" => kind = "adc"
    /\ Task("trace", DoTrace(board, kind))
    /\ want' = IF status' = "ok" /\ ~Active(board) THEN kind ELSE "none"

ReadTrace ==
    /\ Task("read", GetTrace(board))
    /\ UNCHANGED want

\* Handel writes a parameter that is to be applied.
ParameterSet ==
    /\ status # "busy" /\ board.fresh
    /\ board' = [board EXCEPT !.fresh = FALSE]
    /\ UNCHANGED <<runActive, over, op, rest, status, asked, want>>

\* A run is over without anybody asking.
RunEnds ==
    /\ Active(board)
    /\ board' = Completed(board) /\ over' = TRUE
    /\ UNCHANGED <<runActive, op, rest, status, asked, want>>

Next ==
    /\ UNCHANGED <<orderly, multi>>
    /\ \/ Call("start") \/ Call("stop") \/ Return
       \/ StartRun \/ StopRun
       \/ Apply \/ OtherTask \/ BeginBiasScan \/ EndBiasScan
       \/ \E k \in Kinds : Trace(k)
       \/ ReadTrace
       \/ ParameterSet
       \/ RunEnds

Spec == Init /\ [][Next]_vars

-----------------------------------------------------------------------------
(* Properties. *)

RC == INSTANCE RunControl WITH
        Modules <- {Mod}, DetChans <- {Det}, ModOf <- [d \in {Det} |-> Mod],
        MasterOrders <- {<<Det>>}, order <- <<Det>>,
        multi <- [m \in {Mod} |-> multi],
        over <- IF over THEN {Mod} ELSE {},
        product <- board.product,
        runActive <- [m \in {Mod} |-> runActive],
        xRun <- [m \in {Mod} |-> board.run],
        xTask <- [m \in {Mod} |-> board.ctask # "none"],
        hw <- [m \in {Mod} |-> IF board.hw \in {"idle", "data"} THEN board.hw
                               ELSE "special"],
        runType <- [m \in {Mod} |-> board.runType]

\* The register accesses of every call add up to an action of RunControl.
ImplementsRunControl == RC!Spec

\* What a special run reports as done is done.  When the "apply" of an xMAP or
\* Mercury has succeeded, the DSP has applied the parameters: also when a data
\* run went on, when it ended in the middle, and whatever failed before.  A
\* trace that was begun on an idle board and read, without faults, is of the
\* kind asked for.  (While a bias scan of the STJ runs, the end of the scan is
\* taken for the end of the trace.)
TasksAreDone ==
    [][/\ status' = "ok" /\ board.product \in {"xmap", "mercury"} /\ Apply => board'.fresh
       /\ orderly /\ status' = "ok" /\ want # "none" /\ ReadTrace
            => board'.trace = want]_vars

\* A call of xiaStopRun that succeeds has stopped the run.  Not so: Xerxes
\* forgets a run before it ends it, so that a stop that has failed succeeds when
\* it is repeated, and asks the board for nothing; and the Saturn takes a BUSY
\* that it cannot read for the end of the run.
StopRunStops == op = "stop" /\ status = "ok" => board.hw # "data"
=============================================================================
