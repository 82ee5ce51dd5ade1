----------------------------- MODULE RunControl -----------------------------
(***************************************************************************)
(* Starting and stopping runs, through the three layers that each remember *)
(* whether a run is active:                                                *)
(*                                                                         *)
(*   Handel (handel_run_control.c)  MultiChannelState.runActive, set for   *)
(*     all the channels of a module at once: one flag here.  A module of   *)
(*     one channel has none, and each of its calls goes down to the PSL;   *)
(*   Xerxes (xerxes.c)  Board.state[0], a run or control task is active,   *)
(*     and state[4], the control task's type; microDXP modules bypass it;  *)
(*   the board (devices/xmap/xmap.c, mercury, stj, saturn, udxp)  what the *)
(*     DSP executes, and the parameter that decides what the next Run      *)
(*     Enable starts: RUNTYPE, in the Saturn the control bit of RUNTASKS.  *)
(*                                                                         *)
(* A call on detChan -1 walks the member list and stops at the first       *)
(* error.  Every register access may fail, and the DSP may not end a run   *)
(* within the time the driver waits: Faults says where.  A behaviour is    *)
(* orderly when the hardware ends the runs it is told to end and the       *)
(* application makes no special run while it takes data.                   *)
(*                                                                         *)
(* Abstractions.  The calls that act on one module are one step: the       *)
(* library has no threads.  The board may finish a run on its own (preset  *)
(* runs) between any two steps.  The mapping mode preparation of           *)
(* pslStartRun is part of "start" failing before the run begins.           *)
(***************************************************************************)
EXTENDS Naturals, Sequences

CONSTANTS Modules,       \* the modules, one board each
          DetChans,      \* the detChans their channels may have
          ModOf,         \* the module of a detChan
          MasterOrders,  \* what the member list of detChan -1 may be
          Products,      \* what the modules may be
          Faults         \* where the hardware may fail: see FaultSites

FaultSites == {"start",  \* dxp_begin_run for xiaStartRun
               "stop",   \* dxp_end_run: register access, or BUSY stays up
               "task"}   \* a special run does not begin or not complete

ASSUME SystemAssumption == /\ ModOf \in [DetChans -> Modules]
                           /\ MasterOrders \subseteq Seq(DetChans)
ASSUME FaultAssumption == /\ Faults \subseteq FaultSites
                          /\ Products \subseteq {"xmap", "mercury", "stj", "saturn", "udxp"}

VARIABLES product,    \* what the modules are
          orderly,    \* is this an orderly behaviour?
          order,      \* the member list of detChan -1: the detChans there are
          multi,      \* Handel: module->isMultiChannel
          runActive,  \* Handel: module->state->runActive[]
          xRun,       \* Xerxes: state[0] = 1
          xTask,      \* Xerxes: state[4] # 0
          hw,         \* what the DSP executes
          runType,    \* DSP parameter RUNTYPE
          over,       \* history: the modules whose last run has ended by itself
          op,         \* the API call last made
          asked,      \* the modules it addresses
          rest,       \* detChans the call has still to visit
          status      \* "busy" while the call runs, then what it returns

config == <<product, orderly, order, multi>>
layers == <<runActive, xRun, xTask, hw, runType, over>>
vars == <<config, layers, op, asked, rest, status>>

TypeOK ==
    /\ product \in Products /\ orderly \in BOOLEAN
    /\ order \in MasterOrders /\ multi \in [Modules -> BOOLEAN]
    /\ runActive \in [Modules -> BOOLEAN]
    /\ xRun \in [Modules -> BOOLEAN]
    /\ xTask \in [Modules -> BOOLEAN]
    /\ hw \in [Modules -> {"idle", "data", "special"}]
    /\ runType \in [Modules -> {"normal", "special"}]
    /\ over \subseteq Modules
    /\ op \in {"none", "start", "stop", "apply", "trace", "task", "scan", "read"}
    /\ asked \subseteq Modules
    /\ rest \in Seq(DetChans)
    /\ status \in {"busy", "ok", "error"}

\* _initMultiState: which modules have more than one channel.  Those of the
\* Saturn and the microDXP never do (pslIsNumChannelsValid); the others may
\* have one, and a module of several may have fewer of them in the list.
InitMultiState ==
    /\ multi \in [Modules -> BOOLEAN]
    /\ \A m \in Modules :
          IF multi[m] THEN product \notin {"saturn", "udxp"}
          ELSE \A j, k \in 1..Len(order) :
                 ModOf[order[j]] = m /\ ModOf[order[k]] = m => j = k

Init ==
    /\ product \in Products /\ orderly \in BOOLEAN /\ order \in MasterOrders
    /\ InitMultiState
    /\ runActive = [m \in Modules |-> FALSE]
    /\ xRun = [m \in Modules |-> FALSE]
    /\ xTask = [m \in Modules |-> FALSE]
    /\ hw = [m \in Modules |-> "idle"]
    /\ runType = [m \in Modules |-> "normal"]
    /\ over = {}
    /\ op = "none" /\ asked = {} /\ rest = <<>> /\ status = "ok"

\* May the hardware fail at a site?
Faulty(site) == site \in Faults /\ (orderly => site = "start")

-----------------------------------------------------------------------------
(* Calls: one at a time. *)

ModulesOf(ds) == {ModOf[ds[k]] : k \in 1..Len(ds)}

\* xiaStartRun or xiaStopRun is called with a detChan, or with -1.
Call(o, ds) ==
    /\ status # "busy"
    /\ op' = o /\ asked' = ModulesOf(ds) /\ rest' = ds /\ status' = "busy"
    /\ UNCHANGED layers

\* The walk goes on to the next detChan.
Advance == rest' = Tail(rest) /\ UNCHANGED <<op, asked, status>>

\* The call returns an error without visiting the rest.
Fail == rest' = <<>> /\ status' = "error" /\ UNCHANGED <<op, asked>>

\* The walk is over.
Return ==
    /\ status = "busy" /\ rest = <<>>
    /\ status' = "ok"
    /\ UNCHANGED <<layers, op, asked, rest>>

\* A special run call on module m that returns s.
TaskCall(o, m, s) ==
    /\ op' = o /\ asked' = {m} /\ status' = s
    /\ UNCHANGED rest

-----------------------------------------------------------------------------
(* dxp_isrunning. *)

\* Bit 0: the board's Run Active bit.
HwActive(m) == hw[m] # "idle"

\* Bits 1 and 2: what Xerxes remembers.
XerxesActive(m) == xRun[m] \/ xTask[m]

\* The DSP starts what RUNTYPE says; a second Run Enable changes nothing.
Begun(m) == IF HwActive(m) THEN hw[m]
            ELSE IF runType[m] = "normal" THEN "data" ELSE "special"

-----------------------------------------------------------------------------
(* xiaStartRun. *)

\* Mutant: the module's channels are not tagged.
MutTagAllRunActive(m, b) == UNCHANGED runActive

\* xiaTagAllRunActive: only where there is something to tag.
TagAllRunActive(m, b) ==
    runActive' = IF multi[m] THEN [runActive EXCEPT ![m] = b] ELSE runActive

\* Mutant: only the board is asked whether a run is active.
MutBoardStartRun(m) ==
    /\ product # "udxp"
    /\ ~HwActive(m)
    /\ hw' = [hw EXCEPT ![m] = Begun(m)]
    /\ xRun' = [xRun EXCEPT ![m] = TRUE]

\* dxp_start_one_run and dxp_begin_run: refused when any layer knows of a run.
BoardStartRun(m) ==
    /\ product # "udxp"
    /\ ~HwActive(m) /\ ~XerxesActive(m)
    /\ hw' = [hw EXCEPT ![m] = Begun(m)]
    /\ xRun' = [xRun EXCEPT ![m] = TRUE]

\* pslStartRun of the microDXP: a command, whatever the module is doing.
UdxpStartRun(m) ==
    /\ product = "udxp"
    /\ hw' = [hw EXCEPT ![m] = "data"]
    /\ UNCHANGED xRun

\* The microDXP does not answer: pslStopRun, and nobody looks at what it
\* returns.
UdxpStartFails(m) ==
    /\ product = "udxp" /\ Faulty("start")
    /\ \/ hw' = [hw EXCEPT ![m] = "idle"]
       \/ Faulty("stop") /\ hw' \in {hw, [hw EXCEPT ![m] = "data"]}
    /\ UNCHANGED <<runActive, xRun, xTask, runType, over>>

BoardStartFails(m) ==
    /\ product # "udxp"
    /\ \/ HwActive(m) \/ XerxesActive(m)   \* DXP_RUNACTIVE
       \/ Faulty("start")
    /\ UNCHANGED layers

\* One detChan of the walk.
StartOne ==
    /\ op = "start" /\ status = "busy" /\ rest # <<>>
    /\ LET m == ModOf[Head(rest)] IN
       \/ /\ multi[m] /\ runActive[m]          \* "run was already started"
          /\ Advance
          /\ UNCHANGED layers
       \/ /\ multi[m] => ~runActive[m]
          /\ BoardStartRun(m) \/ UdxpStartRun(m)
          /\ TagAllRunActive(m, TRUE)
          /\ over' = over \ {m}
          /\ Advance
          /\ UNCHANGED <<xTask, runType>>
       \/ /\ multi[m] => ~runActive[m]
          /\ BoardStartFails(m) \/ UdxpStartFails(m)
          /\ Fail

-----------------------------------------------------------------------------
(* xiaStopRun. *)

\* "run was already stopped": nothing below Handel is asked.
StopSkipped(m) ==
    /\ multi[m] /\ ~runActive[m]
    /\ Advance
    /\ UNCHANGED layers

\* Mutant: the run is forgotten, and the board is never told to end it.
MutStopBoard(m) ==
    /\ xRun' = [xRun EXCEPT ![m] = FALSE]
    /\ UNCHANGED hw

\* dxp_stop_one_run: Xerxes forgets the run before it ends it.
StopBoard(m) ==
    /\ xRun' = [xRun EXCEPT ![m] = FALSE]
    /\ hw' = IF xRun[m] \/ product = "saturn" THEN [hw EXCEPT ![m] = "idle"]
             ELSE hw

\* pslStopRun of the xMAP, Mercury and STJ; the Saturn's waits for BUSY to drop
\* even when Xerxes had forgotten the run.
BoardStopRun(m) ==
    /\ product # "udxp"
    /\ StopBoard(m)

\* pslStopRun of the microDXP: a command.
UdxpStopRun(m) ==
    /\ product = "udxp"
    /\ hw' = [hw EXCEPT ![m] = "idle"]
    /\ UNCHANGED xRun

\* The Saturn's driver does not look at what the registers return, and a BUSY
\* that cannot be read is zero.
SaturnStopUnread(m) ==
    /\ product = "saturn" /\ Faulty("stop")
    /\ xRun' = [xRun EXCEPT ![m] = FALSE]
    /\ UNCHANGED hw

\* dxp_end_run fails, or the Saturn is busy too long: Xerxes has forgotten the
\* run, Handel has not.
StopFails(m) ==
    /\ Faulty("stop") /\ product # "udxp" /\ xRun[m]
    /\ xRun' = [xRun EXCEPT ![m] = FALSE]
    /\ hw' \in {hw, [hw EXCEPT ![m] = "idle"]}
    /\ Fail
    /\ UNCHANGED <<runActive, xTask, runType, over>>

\* The Saturn goes on with something that Xerxes does not end.
SaturnStillBusy(m) ==
    /\ product = "saturn" /\ ~xRun[m] /\ HwActive(m)
    /\ Fail
    /\ UNCHANGED layers

\* The microDXP does not answer; it may have executed the command.
UdxpStopFails(m) ==
    /\ product = "udxp" /\ Faulty("stop")
    /\ hw' \in {hw, [hw EXCEPT ![m] = "idle"]}
    /\ Fail
    /\ UNCHANGED <<runActive, xRun, xTask, runType, over>>

StopOne ==
    /\ op = "stop" /\ status = "busy" /\ rest # <<>>
    /\ LET m == ModOf[Head(rest)] IN
       \/ StopSkipped(m)
       \/ /\ multi[m] => runActive[m]
          /\ BoardStopRun(m) \/ UdxpStopRun(m) \/ SaturnStopUnread(m)
          /\ TagAllRunActive(m, FALSE)
          /\ Advance
          /\ UNCHANGED <<xTask, runType, over>>
       \/ /\ multi[m] => runActive[m]
          /\ StopFails(m) \/ SaturnStillBusy(m) \/ UdxpStopFails(m)

-----------------------------------------------------------------------------
(* Special runs: dxp_start_control_task is refused when only Xerxes believes  *)
(* in a run, and allowed when the board says one is active.  The microDXP has *)
(* none: its traces are commands.                                             *)

\* In an orderly behaviour not between a start and its stop.
MayDoTask(m) ==
    /\ status # "busy" /\ product # "udxp"
    /\ orderly => ~(xRun[m] /\ ~xTask[m])

TaskRefused(o, m) ==
    /\ MayDoTask(m)
    /\ TaskCall(o, m, "error")
    /\ XerxesActive(m) /\ ~HwActive(m)
    /\ UNCHANGED layers

TaskAllowed(m) == MayDoTask(m) /\ (HwActive(m) \/ ~XerxesActive(m))

\* Mutant: the task's type is not recorded.
MutTaskStarted(m) ==
    /\ xRun' = [xRun EXCEPT ![m] = TRUE]
    /\ UNCHANGED xTask

\* The control task began, as far as dxp_start_control_task can tell.
TaskStarted(m) ==
    /\ xRun' = [xRun EXCEPT ![m] = TRUE]
    /\ xTask' = [xTask EXCEPT ![m] = TRUE]

\* dxp_stop_control_task has succeeded.
TaskStopped(m) ==
    /\ xRun' = [xRun EXCEPT ![m] = FALSE]
    /\ xTask' = [xTask EXCEPT ![m] = FALSE]
    /\ runType' = [runType EXCEPT ![m] = "normal"]

RunOver(m) == [hw EXCEPT ![m] = "idle"]

\* What runs when a special run was begun: it, or what ran before.
RunGoesOn(m) == [hw EXCEPT ![m] = IF HwActive(m) THEN hw[m] ELSE "special"]

\* A task that is stopped as soon as it is over.  Where another run is going
\* on, its end is taken for the task's, but for an apply whose status is read.
TaskDone(o, m) ==
    /\ TaskAllowed(m)
    /\ TaskCall(o, m, "ok")
    /\ o = "apply" /\ product \in {"xmap", "mercury"} => hw[m] # "data"
    /\ o # "scan" /\ (o = "trace" => product = "mercury")
    /\ TaskStopped(m) /\ hw' = RunOver(m)
    /\ UNCHANGED <<runActive, over>>

\* It is over; dxp_stop_control_task fails.
TaskNotStopped(o, m) ==
    /\ Faulty("stop")
    /\ TaskAllowed(m)
    /\ TaskCall(o, m, "error")
    /\ TaskStarted(m) /\ hw' = RunOver(m)
    /\ runType' \in {[runType EXCEPT ![m] = t] : t \in {"normal", "special"}}
    /\ UNCHANGED <<runActive, over>>

\* The driver fails before Run Enable is set; RUNTYPE may be written by then.
TaskNotBegun(o, m) ==
    /\ Faulty("task")
    /\ TaskAllowed(m)
    /\ TaskCall(o, m, "error")
    /\ runType' \in {runType, [runType EXCEPT ![m] = "special"]}
    /\ UNCHANGED <<runActive, xRun, xTask, hw, over>>

\* A special run whose data wait to be read (xMAP, STJ, Saturn).
TaskWaits(o, m) ==
    /\ product # "mercury"
    /\ TaskAllowed(m)
    /\ TaskCall(o, m, "ok")
    /\ TaskStarted(m) /\ hw' = RunOver(m)
    /\ runType' = [runType EXCEPT ![m] = "special"]
    /\ UNCHANGED <<runActive, over>>

\* psl__BeginBiasScan of the STJ does not wait for the run's end.
ScanBegins(m) ==
    /\ product = "stj"
    /\ TaskAllowed(m)
    /\ TaskStarted(m) /\ hw' = RunGoesOn(m)
    /\ runType' = [runType EXCEPT ![m] = "special"]
    /\ UNCHANGED <<runActive, over>>
    /\ \/ TaskCall("scan", m, "ok")
       \/ Faulty("task") /\ TaskCall("scan", m, "error")

\* The run is not over in time, because of a fault or because another run goes
\* on, or the driver cannot tell.  dxp_do_apply ends whatever runs, or fails to;
\* dxp__do_special_run of the STJ leaves the run alone.  RUNTYPE stays special,
\* and Xerxes knows of no task.
TaskTimesOut(o, m) ==
    /\ product # "saturn"
    /\ TaskAllowed(m)
    /\ TaskCall(o, m, "error")
    /\ Faulty("task") \/ HwActive(m)
    /\ runType' = [runType EXCEPT ![m] = "special"]
    /\ hw' \in {RunOver(m), RunGoesOn(m)}
    /\ UNCHANGED <<runActive, xRun, xTask, over>>

\* The timeout of a trace in the xMAP, and of every task but "apply" in the
\* Mercury: dxp_end_control_task cleans up, and its success is returned.
TimeoutUnseen(o, m) ==
    /\ product \in {"xmap", "mercury"} /\ o # "apply"
    /\ TaskAllowed(m)
    /\ TaskCall(o, m, "ok")
    /\ Faulty("task") \/ HwActive(m)
    /\ hw' = RunOver(m)
    /\ IF product = "xmap"
       THEN TaskStarted(m) /\ runType' = [runType EXCEPT ![m] = "normal"]
       ELSE TaskStopped(m)
    /\ UNCHANGED <<runActive, over>>

\* pslDoADCTrace and pslDoControlTaskWithoutStop of the Saturn: the task has
\* begun and is not stopped.
SaturnTaskTimesOut(o, m) ==
    /\ product = "saturn"
    /\ TaskAllowed(m)
    /\ TaskCall(o, m, "error")
    /\ Faulty("task") \/ HwActive(m)
    /\ TaskStarted(m)
    /\ runType' = [runType EXCEPT ![m] = "special"]
    /\ hw' \in {RunOver(m), RunGoesOn(m)}
    /\ UNCHANGED <<runActive, over>>

\* The data of a special run are read.  The xMAP and the STJ stop the task
\* first, whatever runs; the Mercury and the Saturn do not read while it runs.
ReadTrace(m) ==
    /\ MayDoTask(m)
    /\ product \in {"mercury", "saturn"} => ~HwActive(m)
    /\ TaskStopped(m) /\ hw' = RunOver(m)
    /\ UNCHANGED <<runActive, over>>
    /\ \/ TaskCall("read", m, "ok")
       \/ Faulty("stop") /\ TaskCall("read", m, "error")

ReadRefused(m) ==
    /\ MayDoTask(m)
    /\ TaskCall("read", m, "error")
    /\ \/ Faulty("task") \/ Faulty("stop")
       \/ product \in {"mercury", "saturn"} /\ HwActive(m)
    /\ UNCHANGED <<runActive, xRun, xTask, runType, over>>
    /\ hw' \in {hw} \cup (IF Faulty("stop") THEN {RunOver(m)} ELSE {})

\* A preset is reached, or the DSP ends a run later than dxp_end_run waited.
RunEnds(m) ==
    /\ HwActive(m)
    /\ hw' = [hw EXCEPT ![m] = "idle"]
    /\ over' = over \cup {m}
    /\ UNCHANGED <<runActive, xRun, xTask, runType, op, asked, rest, status>>

-----------------------------------------------------------------------------
TaskNames == {"apply", "trace", "task"}

TaskStep(m) ==
    \/ \E o \in TaskNames \cup {"scan"} : TaskRefused(o, m) \/ TaskNotBegun(o, m)
    \/ \E o \in TaskNames :
          \/ TaskDone(o, m) \/ TaskNotStopped(o, m)
          \/ TaskTimesOut(o, m) \/ TimeoutUnseen(o, m)
          \/ SaturnTaskTimesOut(o, m)
    \/ TaskWaits("trace", m)
    \/ ScanBegins(m)
    \/ ReadTrace(m) \/ ReadRefused(m)

Next ==
    /\ UNCHANGED config
    /\ \/ \E o \in {"start", "stop"} :
            \/ \E k \in 1..Len(order) : Call(o, <<order[k]>>)
            \/ Call(o, order)
       \/ StartOne \/ StopOne \/ Return
       \/ \E m \in Modules : TaskStep(m) \/ RunEnds(m)

Spec == Init /\ [][Next]_vars

-----------------------------------------------------------------------------
(* Properties. *)

\* Handel's call for a run on m is not answered from runActive.
Reaches(m) == multi[m] => runActive[m]

\* A run Xerxes would refuse to start over can be ended through Handel: the
\* special run's data can be read, or xiaStopRun reaches the board.
XerxesRunIsKnown == \A m \in Modules : xRun[m] => xTask[m] \/ Reaches(m)

\* In orderly circumstances the board never takes data that Xerxes, where it is
\* used, does not know of or that xiaStopRun would not reach, and never executes
\* a special run that Xerxes does not know of.
BoardRunIsKnown ==
    orderly => \A m \in Modules :
        /\ hw[m] = "data" => Reaches(m) /\ (xRun[m] \/ product = "udxp")
        /\ hw[m] = "special" => xTask[m]

\* When xiaStopRun has succeeded, in orderly circumstances, no module it was
\* asked for is taking data.
StopMeansStopped ==
    orderly /\ op = "stop" /\ status = "ok" => \A m \in asked : hw[m] # "data"

\* When xiaStartRun has succeeded, in orderly circumstances, every module it was
\* asked for takes data, or has ended its run by itself since it was begun; it
\* never executes a special run instead.  The run is one that Xerxes knows of
\* and that xiaStopRun will reach.
StartMeansStarted ==
    orderly /\ op = "start" /\ status = "ok" =>
        \A m \in asked :
            /\ hw[m] = "data" \/ m \in over
            /\ Reaches(m) /\ (xRun[m] \/ product = "udxp")

=============================================================================
