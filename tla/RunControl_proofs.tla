-------------------------- MODULE RunControl_proofs --------------------------
(***************************************************************************)
(* Theorems about RunControl, for every product.  XerxesRunIsKnown is      *)
(* proved whatever fails; BoardRunIsKnown, StopMeansStopped and            *)
(* StartMeansStarted speak of the orderly behaviours: the hardware ends    *)
(* the runs it is told to end, and the application makes no special run    *)
(* while it takes data.                                                    *)
(***************************************************************************)
EXTENDS RunControl, TLAPS

-----------------------------------------------------------------------------
(* Walking the list of detChans. *)

\* The modules still to visit are the one at the head and those of the tail.
LEMMA PendingModules ==
    ASSUME NEW s \in Seq(DetChans), s # <<>>
    PROVE  /\ Head(s) \in DetChans
           /\ Tail(s) \in Seq(DetChans)
           /\ ModulesOf(s) \subseteq {ModOf[Head(s)]} \cup ModulesOf(Tail(s))
<1>1. Head(s) \in DetChans /\ Tail(s) \in Seq(DetChans)
  OBVIOUS
<1>2. ASSUME NEW k \in 1..Len(s)
      PROVE  ModOf[s[k]] \in {ModOf[Head(s)]} \cup ModulesOf(Tail(s))
  <2>1. CASE k = 1
    BY <2>1
  <2>2. CASE k # 1
    <3>1. k - 1 \in 1..Len(Tail(s)) /\ Tail(s)[k - 1] = s[k]
      BY <2>2
    <3>2. QED
      BY <3>1 DEF ModulesOf
  <2>3. QED
    BY <2>1, <2>2
<1>3. QED
  BY <1>1, <1>2 DEF ModulesOf

\* Every detChan of a call belongs to a module.
LEMMA AskedAreModules ==
    ASSUME NEW s \in Seq(DetChans)
    PROVE  ModulesOf(s) \subseteq Modules
  BY SystemAssumption DEF ModulesOf

\* The walk keeps to the types of the call's variables.
LEMMA WalkTypes ==
    ASSUME TypeOK, rest # <<>>, Advance \/ Fail
    PROVE  /\ op' \in {"none", "start", "stop", "apply", "trace", "task", "scan", "read"}
           /\ asked' \subseteq Modules
           /\ rest' \in Seq(DetChans)
           /\ status' \in {"busy", "ok", "error"}
<1>1. CASE Advance
  BY <1>1, PendingModules DEF Advance, TypeOK
<1>2. CASE Fail
  <2>1. <<>> \in Seq(DetChans)
    OBVIOUS
  <2>2. QED
    BY <1>2, <2>1 DEF Fail, TypeOK
<1>3. QED
  BY <1>1, <1>2

\* An empty walk has no module ahead.
LEMMA NothingPending == ModulesOf(<<>>) = {}
  BY DEF ModulesOf

-----------------------------------------------------------------------------
(* Type correctness. *)

\* The initial states have the right types.
LEMMA InitTypeOK == Init => TypeOK
  BY DEF Init, InitMultiState, TypeOK

\* Every step keeps the types.
LEMMA NextTypeOK == TypeOK /\ [Next]_vars => TypeOK'
<1> SUFFICES ASSUME TypeOK, [Next]_vars PROVE TypeOK'
  OBVIOUS
<1> UNCHANGED config
  BY DEF Next, vars
<1> USE DEF TypeOK, layers, config
<1>1. ASSUME NEW o \in {"start", "stop"}, NEW k \in 1..Len(order), Call(o, <<order[k]>>)
      PROVE  TypeOK'
  <2>1. <<order[k]>> \in Seq(DetChans)
    BY SystemAssumption
  <2>2. QED
    BY <1>1, <2>1, AskedAreModules DEF Call
<1>2. ASSUME NEW o \in {"start", "stop"}, Call(o, order)
      PROVE  TypeOK'
  BY <1>2, AskedAreModules, SystemAssumption DEF Call
<1>3. CASE StartOne
  <2> DEFINE M == ModOf[Head(rest)]
  <2>1. M \in Modules /\ Tail(rest) \in Seq(DetChans)
    BY <1>3, PendingModules, SystemAssumption DEF StartOne
  <2>2. Advance \/ Fail
    BY <1>3 DEF StartOne
  <2>3. /\ hw' \in {hw} \cup {[hw EXCEPT ![M] = b] : b \in {"idle", "data", Begun(M)}}
        /\ xRun' \in {xRun, [xRun EXCEPT ![M] = TRUE]}
        /\ runActive' \in {runActive, [runActive EXCEPT ![M] = TRUE]}
        /\ over' \in {over, over \ {M}}
        /\ UNCHANGED <<xTask, runType>>
    BY <1>3 DEF StartOne, TagAllRunActive, BoardStartRun, UdxpStartRun,
                BoardStartFails, UdxpStartFails
  <2>4. Begun(M) \in {"idle", "data", "special"}
    BY <2>1 DEF Begun, HwActive
  <2>5. /\ hw' \in [Modules -> {"idle", "data", "special"}]
        /\ xRun' \in [Modules -> BOOLEAN]
        /\ runActive' \in [Modules -> BOOLEAN]
        /\ over' \subseteq Modules
    BY <2>1, <2>3, <2>4
  <2>6. /\ op' \in {"none", "start", "stop", "apply", "trace", "task", "scan", "read"}
        /\ asked' \subseteq Modules
        /\ rest' \in Seq(DetChans)
        /\ status' \in {"busy", "ok", "error"}
    BY <1>3, <2>2, WalkTypes DEF StartOne
  <2>7. xTask' = xTask /\ runType' = runType
    BY <2>3
  <2>8. QED
    BY <2>5, <2>6, <2>7
<1>4. CASE StopOne
  <2>1. Advance \/ Fail
    BY <1>4 DEF StopOne, StopSkipped, StopFails, SaturnStillBusy, UdxpStopFails
  <2>2. \E m \in Modules :
          /\ runActive' \in {runActive, [runActive EXCEPT ![m] = FALSE]}
          /\ xRun' \in {xRun, [xRun EXCEPT ![m] = FALSE]}
          /\ hw' \in {hw, [hw EXCEPT ![m] = "idle"]}
          /\ UNCHANGED <<xTask, runType, over>>
    BY <1>4, PendingModules, SystemAssumption
       DEF StopOne, StopSkipped, BoardStopRun, StopBoard, UdxpStopRun, SaturnStopUnread,
           StopFails, SaturnStillBusy, UdxpStopFails, TagAllRunActive
  <2>3. QED
    BY <2>1, <2>2, WalkTypes, <1>4 DEF StopOne
<1>5. CASE Return
  BY <1>5 DEF Return
<1>6. ASSUME NEW m \in Modules, TaskStep(m)
      PROVE  TypeOK'
  <2>1. /\ hw' \in {hw, RunOver(m), RunGoesOn(m)}
        /\ xRun' \in {xRun} \cup {[xRun EXCEPT ![m] = b] : b \in BOOLEAN}
        /\ xTask' \in {xTask} \cup {[xTask EXCEPT ![m] = b] : b \in BOOLEAN}
        /\ runType' \in {runType} \cup {[runType EXCEPT ![m] = t] : t \in {"normal", "special"}}
        /\ UNCHANGED <<runActive, over>>
    BY <1>6 DEF TaskStep, TaskRefused, TaskNotBegun, TaskDone, TaskNotStopped, TaskTimesOut,
                TimeoutUnseen, SaturnTaskTimesOut, TaskWaits, ScanBegins, ReadTrace,
                ReadRefused, TaskStarted, TaskStopped
  <2>2. \E o \in TaskNames \cup {"scan", "read"}, s \in {"ok", "error"} : TaskCall(o, m, s)
    <3>1. ASSUME NEW o \in TaskNames \cup {"scan"}, TaskRefused(o, m) \/ TaskNotBegun(o, m)
          PROVE  TaskCall(o, m, "error")
      BY <3>1 DEF TaskRefused, TaskNotBegun
    <3>2. ASSUME NEW o \in TaskNames,
                 \/ TaskDone(o, m) \/ TaskNotStopped(o, m) \/ TaskTimesOut(o, m)
                 \/ TimeoutUnseen(o, m) \/ SaturnTaskTimesOut(o, m)
          PROVE  TaskCall(o, m, "ok") \/ TaskCall(o, m, "error")
      BY <3>2 DEF TaskDone, TaskNotStopped, TaskTimesOut, TimeoutUnseen, SaturnTaskTimesOut
    <3>3. CASE TaskWaits("trace", m) \/ ScanBegins(m) \/ ReadTrace(m) \/ ReadRefused(m)
      BY <3>3 DEF TaskWaits, ScanBegins, ReadTrace, ReadRefused, TaskNames
    <3>4. QED
      BY <1>6, <3>1, <3>2, <3>3 DEF TaskStep
  <2>3. QED
    BY <2>1, <2>2 DEF TaskNames, TaskCall, RunOver, RunGoesOn
<1>8. ASSUME NEW m \in Modules, RunEnds(m)
      PROVE  TypeOK'
  BY <1>8 DEF RunEnds
<1>9. CASE UNCHANGED vars
  BY <1>9 DEF vars
<1>10. QED
  BY <1>1, <1>2, <1>3, <1>4, <1>5, <1>6, <1>8, <1>9 DEF Next

\* Every value the three layers and the call in progress can hold is of its
\* type.
THEOREM TypeCorrect == Spec => []TypeOK
<1>1. Init => TypeOK
  BY InitTypeOK
<1>2. TypeOK /\ [Next]_vars => TypeOK'
  BY NextTypeOK
<1>3. QED
  BY <1>1, <1>2, PTL DEF Spec

-----------------------------------------------------------------------------
(* Whatever fails. *)

\* Xerxes never hears of the runs of a microDXP.
KnownInv == XerxesRunIsKnown /\ (product = "udxp" => \A m \in Modules : ~xRun[m])

\* Xerxes never believes in a run that the application cannot end through
\* Handel: xiaStopRun reaches the board, or the special run can be read.
THEOREM XerxesRunsAreKnown == Spec => []XerxesRunIsKnown
<1>1. Init => KnownInv
  BY DEF Init, XerxesRunIsKnown, KnownInv
<1>2. TypeOK /\ KnownInv /\ [Next]_vars => KnownInv'
  <2> SUFFICES ASSUME TypeOK, KnownInv, [Next]_vars
               PROVE  KnownInv'
    OBVIOUS
  <2> UNCHANGED product
    BY DEF Next, vars, config
  <2> UNCHANGED multi
    BY DEF Next, vars, config
  <2> USE DEF TypeOK, KnownInv, XerxesRunIsKnown, Reaches, layers
  <2>1. ASSUME NEW o \in {"start", "stop"}, NEW ds, Call(o, ds)
        PROVE  KnownInv'
    BY <2>1 DEF Call
  <2>2. CASE StartOne
    <3> DEFINE M == ModOf[Head(rest)]
    <3>1. M \in Modules
      BY <2>2, PendingModules, SystemAssumption DEF StartOne
    <3>2. /\ UNCHANGED xTask
          /\ \/ UNCHANGED <<runActive, xRun>>
             \/ /\ runActive' = IF multi[M] THEN [runActive EXCEPT ![M] = TRUE]
                                ELSE runActive
                /\ \/ xRun' = [xRun EXCEPT ![M] = TRUE] /\ product # "udxp"
                   \/ UNCHANGED xRun
      BY <2>2
         DEF StartOne, TagAllRunActive, BoardStartRun, UdxpStartRun, BoardStartFails,
             UdxpStartFails
    <3>3. QED
      BY <3>1, <3>2
  <2>3. CASE StopOne
    <3> DEFINE M == ModOf[Head(rest)]
    <3>1. M \in Modules
      BY <2>3, PendingModules, SystemAssumption DEF StopOne
    <3>2. /\ UNCHANGED xTask
          /\ \/ xRun' = [xRun EXCEPT ![M] = FALSE]
             \/ UNCHANGED xRun /\ (product = "udxp" \/ UNCHANGED runActive)
          /\ \/ runActive' = [runActive EXCEPT ![M] = FALSE]
             \/ UNCHANGED runActive
      BY <2>3
         DEF StopOne, StopSkipped, BoardStopRun, StopBoard, UdxpStopRun,
             SaturnStopUnread, StopFails, SaturnStillBusy, UdxpStopFails, TagAllRunActive
    <3>3. QED
      BY <3>1, <3>2
  <2>4. CASE Return
    BY <2>4 DEF Return
  <2>5. ASSUME NEW m \in Modules, TaskStep(m)
        PROVE  KnownInv'
    <3>1. /\ UNCHANGED runActive /\ product # "udxp"
          /\ \/ xRun' = [xRun EXCEPT ![m] = TRUE] /\ xTask' = [xTask EXCEPT ![m] = TRUE]
             \/ xRun' = [xRun EXCEPT ![m] = FALSE] /\ xTask' = [xTask EXCEPT ![m] = FALSE]
             \/ UNCHANGED <<xRun, xTask>>
      BY <2>5 DEF TaskStep, TaskRefused, TaskNotBegun, TaskDone, TaskNotStopped, TaskTimesOut,
                  TimeoutUnseen, SaturnTaskTimesOut, TaskWaits, ScanBegins, ReadTrace,
                  ReadRefused, TaskStarted, TaskStopped, TaskAllowed, MayDoTask
    <3>2. QED
      BY <3>1
  <2>7. ASSUME NEW m \in Modules, RunEnds(m)
        PROVE  KnownInv'
    BY <2>7 DEF RunEnds
  <2>8. CASE UNCHANGED vars
    BY <2>8 DEF vars
  <2>9. QED
    BY <2>1, <2>2, <2>3, <2>4, <2>5, <2>7, <2>8 DEF Next
<1>3. QED
  <2>1. KnownInv => XerxesRunIsKnown
    BY DEF KnownInv
  <2>2. QED
    BY <1>1, <1>2, <2>1, TypeCorrect, PTL DEF Spec

-----------------------------------------------------------------------------
(* Orderly behaviours: the three layers agree. *)

\* The layers agree on one module: the board takes data only when Xerxes, if it
\* is used, and Handel, if it keeps a flag, know of the run; the flag stands for
\* a run that has been begun and not stopped; and RUNTYPE is special only while
\* Xerxes remembers a task.
Agree(m) ==
    /\ hw[m] = "special" => xTask[m]
    /\ hw[m] = "data" => Reaches(m) /\ (product = "udxp" \/ (xRun[m] /\ ~xTask[m]))
    /\ runActive[m] => /\ xRun[m] /\ ~xTask[m]
                       /\ hw[m] = "data" \/ m \in over
    /\ runType[m] = "special" => xTask[m]

\* Handel keeps flags of modules of several channels, never of a microDXP's.
FlagsAreOfSeveral ==
    \A m \in Modules : /\ runActive[m] => multi[m]
                       /\ multi[m] => product # "udxp"

\* What a start that succeeds has done for a module.
Started(m) ==
    /\ hw[m] = "data" \/ m \in over
    /\ Reaches(m) /\ (xRun[m] \/ product = "udxp")

\* While a call walks the list, the modules behind it are done.
WalkInv ==
    /\ status = "busy" => op \in {"start", "stop"}
    /\ status # "busy" => rest = <<>>
    /\ op = "start" /\ status # "error" =>
         \A m \in asked : Started(m) \/ m \in ModulesOf(rest)
    /\ op = "stop" /\ status # "error" =>
         \A m \in asked : hw[m] # "data" \/ m \in ModulesOf(rest)

Calm == TypeOK /\ FlagsAreOfSeveral /\ (\A m \in Modules : Agree(m)) /\ WalkInv

\* What an orderly behaviour preserves.
IInv == TypeOK /\ FlagsAreOfSeveral /\ (orderly => Calm)

\* Initially the layers agree and no walk is under way.
LEMMA InitCalm == Init => Calm
<1> SUFFICES ASSUME Init PROVE Calm
  OBVIOUS
<1>1. TypeOK
  BY InitTypeOK
<1>2. ASSUME NEW m \in Modules PROVE Agree(m)
  BY DEF Init, Agree
<1>3. WalkInv
  BY DEF Init, WalkInv
<1>4. FlagsAreOfSeveral
  BY DEF Init, InitMultiState, FlagsAreOfSeveral
<1>5. QED
  BY <1>1, <1>2, <1>3, <1>4 DEF Calm

\* No step tags a module of one channel.
LEMMA NextFlags ==
    ASSUME TypeOK, FlagsAreOfSeveral, [Next]_vars
    PROVE  FlagsAreOfSeveral'
<1> USE DEF TypeOK, FlagsAreOfSeveral, layers
<1>1. UNCHANGED <<product, multi>>
  BY DEF Next, vars, config
<1>2. UNCHANGED runActive \/ \E m \in Modules, b \in BOOLEAN : TagAllRunActive(m, b)
  <2>1. CASE StartOne
    BY <2>1, PendingModules, SystemAssumption
       DEF StartOne, BoardStartFails, UdxpStartFails
  <2>2. CASE StopOne
    BY <2>2, PendingModules, SystemAssumption
       DEF StopOne, StopSkipped, StopFails, SaturnStillBusy, UdxpStopFails
  <2>3. ASSUME NEW m \in Modules, TaskStep(m)
        PROVE  UNCHANGED runActive
    BY <2>3 DEF TaskStep, TaskRefused, TaskNotBegun, TaskDone, TaskNotStopped, TaskTimesOut,
                TimeoutUnseen, SaturnTaskTimesOut, TaskWaits, ScanBegins, ReadTrace,
                ReadRefused
  <2>4. QED
    BY <2>1, <2>2, <2>3 DEF Next, Call, Return, RunEnds, vars
<1>3. QED
  BY <1>1, <1>2 DEF TagAllRunActive

\* A call that begins has all its modules ahead.
LEMMA CallCalm ==
    ASSUME Calm, NEW o \in {"start", "stop"}, NEW ds \in Seq(DetChans), Call(o, ds),
           UNCHANGED config
    PROVE  (\A m \in Modules : Agree(m)') /\ WalkInv'
  BY DEF Calm, Call, layers, config, Agree, Reaches, WalkInv

\* A visit of a start leaves its module agreeing and started.
LEMMA StartCalm ==
    ASSUME orderly, Calm, StartOne, UNCHANGED config
    PROVE  (\A m \in Modules : Agree(m)') /\ WalkInv'
<1> DEFINE M == ModOf[Head(rest)]
<1> USE DEF Calm, TypeOK, layers, config, Reaches
<1>1. /\ M \in Modules /\ rest # <<>> /\ op = "start" /\ status = "busy"
      /\ ModulesOf(rest) \subseteq {M} \cup ModulesOf(Tail(rest))
  BY PendingModules, SystemAssumption DEF StartOne
<1>2. CASE multi[M] /\ runActive[M] /\ Advance /\ UNCHANGED layers
  BY <1>1, <1>2 DEF Advance, Agree, WalkInv, Started
<1>3. CASE /\ BoardStartRun(M) \/ UdxpStartRun(M)
           /\ TagAllRunActive(M, TRUE)
           /\ over' = over \ {M}
           /\ Advance
           /\ UNCHANGED <<xTask, runType>>
  <2>1. /\ hw' = [hw EXCEPT ![M] = "data"]
        /\ \/ xRun' = [xRun EXCEPT ![M] = TRUE] /\ ~xTask[M]
           \/ product = "udxp" /\ UNCHANGED xRun
    BY <1>1, <1>3 DEF Agree, BoardStartRun, UdxpStartRun, XerxesActive, Begun
  <2>2. /\ runActive' = IF multi[M] THEN [runActive EXCEPT ![M] = TRUE] ELSE runActive
        /\ runActive[M] => multi[M]
        /\ multi[M] => product # "udxp"
    BY <1>1, <1>3 DEF TagAllRunActive, FlagsAreOfSeveral
  <2>3. \A m \in Modules : Agree(m)'
    BY <1>1, <1>3, <2>1, <2>2 DEF Agree
  <2>4. ASSUME NEW m \in asked PROVE Started(m)' \/ m \in ModulesOf(Tail(rest))
    <3>1. Started(m) \/ m \in ModulesOf(rest)
      BY <1>1 DEF WalkInv
    <3>2. CASE m = M
      BY <1>1, <1>3, <2>1, <2>2, <3>2 DEF Started
    <3>3. CASE m # M
      BY <1>1, <1>3, <2>1, <2>2, <3>1, <3>3 DEF Started
    <3>4. QED
      BY <3>2, <3>3
  <2>5. WalkInv'
    BY <1>1, <1>3, <2>4 DEF Advance, WalkInv
  <2>6. QED
    BY <2>3, <2>5
<1>4. CASE Fail /\ UNCHANGED layers
  BY <1>1, <1>4 DEF Fail, Agree, WalkInv
<1>5. CASE UdxpStartFails(M) /\ Fail
  <2>1. hw' = [hw EXCEPT ![M] = "idle"]
        /\ UNCHANGED <<runActive, xRun, xTask, runType, over>>
    BY <1>5 DEF UdxpStartFails, Faulty
  <2>2. ~runActive[M]
    BY <1>1, <1>5 DEF FlagsAreOfSeveral, UdxpStartFails
  <2>3. QED
    BY <1>1, <1>5, <2>1, <2>2 DEF Fail, Agree, WalkInv
<1>6. QED
  BY <1>2, <1>3, <1>4, <1>5 DEF StartOne, BoardStartFails

\* A visit of a stop leaves its module agreeing and stopped.
LEMMA StopCalm ==
    ASSUME orderly, Calm, StopOne, UNCHANGED config
    PROVE  (\A m \in Modules : Agree(m)') /\ WalkInv'
<1> DEFINE M == ModOf[Head(rest)]
<1> USE DEF Calm, TypeOK, layers, config, Reaches
<1>1. /\ M \in Modules /\ rest # <<>> /\ op = "stop" /\ status = "busy"
      /\ ModulesOf(rest) \subseteq {M} \cup ModulesOf(Tail(rest))
  BY PendingModules, SystemAssumption DEF StopOne
<1>2. CASE multi[M] /\ ~runActive[M] /\ Advance /\ UNCHANGED layers
  BY <1>1, <1>2 DEF Advance, Agree, WalkInv
<1>3. CASE /\ BoardStopRun(M) \/ UdxpStopRun(M)
           /\ TagAllRunActive(M, FALSE)
           /\ Advance
           /\ UNCHANGED <<xTask, runType, over>>
  <2>1. /\ hw' \in {hw, [hw EXCEPT ![M] = "idle"]}
        /\ hw'[M] # "data"
        /\ xRun' = [xRun EXCEPT ![M] = FALSE] \/ UNCHANGED xRun
    BY <1>1, <1>3 DEF Agree, BoardStopRun, StopBoard, UdxpStopRun
  <2>2. ~runActive'[M] /\ \A m \in Modules \ {M} : runActive'[m] = runActive[m]
    BY <1>1, <1>3 DEF TagAllRunActive, FlagsAreOfSeveral
  <2>3. \A m \in Modules : Agree(m)'
    BY <1>1, <1>3, <2>1, <2>2 DEF Agree
  <2>4. WalkInv'
    BY <1>1, <1>3, <2>1 DEF Advance, WalkInv
  <2>5. QED
    BY <2>3, <2>4
<1>4. CASE SaturnStillBusy(M)
  BY <1>1, <1>4 DEF SaturnStillBusy, Fail, Agree, WalkInv
<1>5. ~(SaturnStopUnread(M) \/ StopFails(M) \/ UdxpStopFails(M))
  BY DEF Faulty, SaturnStopUnread, StopFails, UdxpStopFails
<1>6. QED
  BY <1>2, <1>3, <1>4, <1>5 DEF StopOne, StopSkipped

\* A call that makes a special run finds no data run.
LEMMA TaskFindsNoData ==
    ASSUME orderly, Calm, NEW m \in Modules, MayDoTask(m)
    PROVE  ~runActive[m] /\ (HwActive(m) => hw[m] = "special" /\ xTask[m]) /\ rest = <<>>
  BY DEF Calm, TypeOK, MayDoTask, Agree, HwActive, WalkInv

\* Nothing fails in its tasks but what times out on another special run.
LEMMA TaskCalm ==
    ASSUME orderly, Calm, NEW m \in Modules, TaskStep(m), UNCHANGED config
    PROVE  (\A k \in Modules : Agree(k)') /\ WalkInv'
<1> USE DEF Calm, TypeOK, layers, config, Reaches
<1>1. ~runActive[m] /\ (HwActive(m) => hw[m] = "special" /\ xTask[m]) /\ rest = <<>>
  BY TaskFindsNoData
     DEF TaskStep, TaskRefused, TaskNotBegun, TaskDone, TaskNotStopped, TaskTimesOut,
         TimeoutUnseen, SaturnTaskTimesOut, TaskWaits, ScanBegins, ReadTrace, ReadRefused,
         TaskAllowed
<1>2. ~Faulty("task") /\ ~Faulty("stop")
  BY DEF Faulty
<1>3. /\ UNCHANGED <<runActive, over>>
      /\ \/ TaskStarted(m) /\ hw' \in {RunOver(m), RunGoesOn(m)}
            /\ runType' \in {[runType EXCEPT ![m] = t] : t \in {"normal", "special"}}
         \/ TaskStopped(m) /\ hw' = RunOver(m)
         \/ /\ UNCHANGED <<xRun, xTask>> /\ HwActive(m)
            /\ hw' \in {RunOver(m), RunGoesOn(m)}
            /\ runType' = [runType EXCEPT ![m] = "special"]
         \/ UNCHANGED <<xRun, xTask, hw, runType>>
  BY <1>1, <1>2
     DEF TaskStep, TaskRefused, TaskNotBegun, TaskDone, TaskNotStopped, TaskTimesOut,
         TimeoutUnseen, SaturnTaskTimesOut, TaskWaits, ScanBegins, ReadTrace, ReadRefused
<1>4. \A k \in Modules : Agree(k)'
  BY <1>1, <1>3 DEF Agree, TaskStarted, TaskStopped, RunOver, RunGoesOn, HwActive
<1>5. op' \notin {"start", "stop"} /\ status' # "busy" /\ UNCHANGED rest
  BY DEF TaskStep, TaskRefused, TaskNotBegun, TaskDone, TaskNotStopped, TaskTimesOut,
         TimeoutUnseen, SaturnTaskTimesOut, TaskWaits, ScanBegins, ReadTrace, ReadRefused,
         TaskNames, TaskCall
<1>6. WalkInv'
  BY <1>1, <1>5 DEF WalkInv
<1>7. QED
  BY <1>4, <1>6

\* Every step of an orderly behaviour keeps the layers in agreement.
LEMMA NextCalm == orderly /\ Calm /\ [Next]_vars => Calm'
<1> SUFFICES ASSUME orderly, Calm, [Next]_vars
             PROVE  (\A m \in Modules : Agree(m)') /\ WalkInv'
  BY NextTypeOK, NextFlags DEF Calm
<1> UNCHANGED config
  BY DEF Next, vars
<1> order \in Seq(DetChans)
  BY SystemAssumption DEF Calm, TypeOK
<1>1. ASSUME NEW o \in {"start", "stop"}, NEW k \in 1..Len(order), Call(o, <<order[k]>>)
      PROVE  (\A m \in Modules : Agree(m)') /\ WalkInv'
  <2>1. <<order[k]>> \in Seq(DetChans)
    OBVIOUS
  <2>2. QED
    BY <1>1, <2>1, CallCalm
<1>2. ASSUME NEW o \in {"start", "stop"}, Call(o, order)
      PROVE  (\A m \in Modules : Agree(m)') /\ WalkInv'
  BY <1>2, CallCalm
<1>3. CASE StartOne
  BY <1>3, StartCalm
<1>4. CASE StopOne
  BY <1>4, StopCalm
<1>5. CASE Return
  BY <1>5, NothingPending DEF Return, Calm, Agree, Reaches, Started, WalkInv, layers, config
<1>6. ASSUME NEW m \in Modules, TaskStep(m)
      PROVE  (\A k \in Modules : Agree(k)') /\ WalkInv'
  BY <1>6, TaskCalm
<1>7. ASSUME NEW m \in Modules, RunEnds(m)
      PROVE  (\A k \in Modules : Agree(k)') /\ WalkInv'
  BY <1>7 DEF RunEnds, Calm, TypeOK, Agree, Reaches, Started, WalkInv, config
<1>8. CASE UNCHANGED vars
  BY <1>8 DEF vars, Calm, Agree, Reaches, Started, WalkInv, layers, config
<1>9. QED
  BY <1>1, <1>2, <1>3, <1>4, <1>5, <1>6, <1>7, <1>8 DEF Next

\* Initially the invariant holds.
LEMMA InitIInv == Init => IInv
  BY InitCalm DEF Calm, IInv

\* Every step keeps the invariant.
LEMMA NextIInv == IInv /\ [Next]_vars => IInv'
<1> SUFFICES ASSUME IInv, [Next]_vars PROVE IInv'
  OBVIOUS
<1>1. TypeOK' /\ FlagsAreOfSeveral'
  BY NextTypeOK, NextFlags DEF IInv
<1>2. UNCHANGED orderly
  BY DEF Next, vars, config
<1>3. QED
  BY <1>1, <1>2, NextCalm DEF IInv

\* The invariant implies the properties of the runs.
LEMMA IInvImplies == IInv => BoardRunIsKnown /\ StopMeansStopped /\ StartMeansStarted
<1> SUFFICES ASSUME Calm, orderly
             PROVE  BoardRunIsKnown /\ StopMeansStopped /\ StartMeansStarted
  BY DEF IInv, BoardRunIsKnown, StopMeansStopped, StartMeansStarted
<1>1. BoardRunIsKnown
  BY DEF Calm, TypeOK, Agree, BoardRunIsKnown
<1>2. StopMeansStopped
  BY NothingPending DEF Calm, TypeOK, Agree, WalkInv, StopMeansStopped
<1>3. StartMeansStarted
  BY NothingPending DEF Calm, TypeOK, WalkInv, Started, StartMeansStarted
<1>4. QED
  BY <1>1, <1>2, <1>3

\* The invariant holds throughout.
THEOREM LayersAgree == Spec => []IInv
<1>1. Init => IInv
  BY InitIInv
<1>2. IInv /\ [Next]_vars => IInv'
  BY NextIInv
<1>3. QED
  BY <1>1, <1>2, PTL DEF Spec

\* In an orderly behaviour the board never takes data that Xerxes does not know
\* of or xiaStopRun would not reach, and never executes a special run unknown to
\* Xerxes.
THEOREM BoardRunsAreKnown == Spec => []BoardRunIsKnown
  BY LayersAgree, IInvImplies, PTL

\* In an orderly behaviour xiaStopRun that returns success has stopped every
\* module it was asked for, for any number of modules and any order of the member list.
THEOREM StopStops == Spec => []StopMeansStopped
  BY LayersAgree, IInvImplies, PTL

\* In an orderly behaviour xiaStartRun that returns success leaves every module
\* it was asked for taking data, or with a run that has ended by itself, and
\* never with a special run; Xerxes knows of the run and xiaStopRun reaches it.
THEOREM StartStarts == Spec => []StartMeansStarted
  BY LayersAgree, IInvImplies, PTL
=============================================================================
