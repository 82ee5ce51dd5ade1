-------------------------- MODULE DriverRuns_proofs --------------------------
(***************************************************************************)
(* The runs of the drivers: that the register accesses of every call add   *)
(* up to an action of RunControl, whatever the product and wherever the    *)
(* hardware fails, and that what a special run reports as done is done.    *)
(*                                                                         *)
(* The lemmas climb the layers: a register access, the DSP, a polling      *)
(* loop, the end of a run, the special runs of each driver, Xerxes'        *)
(* bookkeeping, the PSLs.  Each says what the outcomes of a function may   *)
(* be, as a relation between the board before and after.                   *)
(***************************************************************************)
EXTENDS DriverRuns, TLAPS

BoardSet ==
    [product : {"xmap", "mercury", "stj", "saturn"},
     hw : {"idle", "data"} \cup Tasks, runType : {"normal", "special"},
     task : Tasks, kind : Kinds, trace : Kinds \cup {"none"},
     applied : BOOLEAN, fresh : BOOLEAN, run : BOOLEAN,
     ctask : Tasks \cup {"none"}, site : {"task", "start", "stop"},
     may : SUBSET {"task", "start", "stop"}]

\* What no driver changes: the bookkeeping of Xerxes, the product, the faults.
Still(b, c) ==
    /\ c \in BoardSet /\ c.product = b.product /\ c.may = b.may
    /\ c.run = b.run /\ c.ctask = b.ctask

\* The registers of a special run and what it left are the same.
SameTask(b, c) ==
    /\ c.runType = b.runType /\ c.task = b.task /\ c.kind = b.kind

SameResults(b, c) ==
    /\ c.trace = b.trace /\ c.applied = b.applied /\ c.fresh = b.fresh

-----------------------------------------------------------------------------
(* Outcomes. *)

\* A call that succeeds has one outcome, a success.
LEMMA DoneIs ==
  ASSUME NEW m, NEW o \in Done(m)
  PROVE  o.ok = TRUE /\ o.m = m
  BY DEF Done

\* A call that refuses has one outcome, a failure.
LEMMA RefusedIs ==
  ASSUME NEW m, NEW o \in Refused(m)
  PROVE  o.ok = FALSE /\ o.m = m
  BY DEF Refused

\* A register access succeeds and leaves what it writes, or fails where the
\* hardware may fail and leaves the board as it was.
LEMMA RegIs ==
  ASSUME NEW b, NEW n, NEW o \in Reg(b, n)
  PROVE  \/ o.ok = TRUE /\ o.m = n
         \/ o.ok = FALSE /\ o.m = b /\ Breaks(b)
  BY DoneIs, RefusedIs DEF Reg

-----------------------------------------------------------------------------
(* The DSP. *)

\* The site of an access is all that At changes.
LEMMA AtIs ==
  ASSUME NEW b \in BoardSet, NEW s \in {"task", "start", "stop"}
  PROVE  /\ Still(b, At(b, s)) /\ SameTask(b, At(b, s)) /\ SameResults(b, At(b, s))
         /\ At(b, s).hw = b.hw /\ At(b, s).site = s
  BY DEF At, Still, SameTask, SameResults, BoardSet

\* Run Enable starts what RUNTYPE says on an idle board, and nothing on another.
LEMMA RunEnabledIs ==
  ASSUME NEW b \in BoardSet
  PROVE  LET c == RunEnabled(b) IN
         /\ Still(b, c) /\ SameTask(b, c) /\ SameResults(b, c) /\ c.site = b.site
         /\ b.hw # "idle" => c.hw = b.hw
         /\ b.hw = "idle" => c.hw = IF b.runType = "normal" THEN "data" ELSE b.task
<1> DEFINE x == IF b.runType = "normal" THEN "data" ELSE b.task
<1>1. CASE b.hw # "idle"
  BY <1>1 DEF RunEnabled, Active, Still, SameTask, SameResults, BoardSet
<1>2. CASE b.hw = "idle"
  <2>1. RunEnabled(b) = [b EXCEPT !.hw = x]
    BY <1>2 DEF RunEnabled, Active
  <2>2. x \in {"idle", "data"} \cup Tasks
    BY DEF BoardSet
  <2> HIDE DEF x
  <2>3. [b EXCEPT !.hw = x] \in BoardSet /\ [b EXCEPT !.hw = x].hw = x
    BY <2>2 DEF BoardSet
  <2> QED
    BY <1>2, <2>1, <2>3 DEF Still, SameTask, SameResults, BoardSet, x
<1> QED
  BY <1>1, <1>2

\* A run that is over leaves an idle board; an apply the parameters applied,
\* a trace a trace of the kind that was asked for.
LEMMA CompletedIs ==
  ASSUME NEW b \in BoardSet
  PROVE  LET c == Completed(b) IN
         /\ Still(b, c) /\ SameTask(b, c) /\ c.site = b.site /\ c.hw = "idle"
         /\ c.applied = (b.applied \/ b.hw = "apply")
         /\ c.fresh = (b.fresh \/ b.hw = "apply")
         /\ c.trace = IF b.hw = "trace" THEN b.kind ELSE b.trace
<1> DEFINE a == (b.applied \/ b.hw = "apply")
           f == (b.fresh \/ b.hw = "apply")
           t == IF b.hw = "trace" THEN b.kind ELSE b.trace
           e == [b EXCEPT !.hw = "idle"]
           g == [e EXCEPT !.applied = a]
           h == [g EXCEPT !.fresh = f]
           c == [h EXCEPT !.trace = t]
<1>1. a \in BOOLEAN /\ f \in BOOLEAN /\ t \in Kinds \cup {"none"}
  BY DEF BoardSet
<1>2. /\ Still(b, e) /\ SameTask(b, e) /\ SameResults(b, e)
      /\ e.site = b.site /\ e.hw = "idle"
  BY DEF Still, SameTask, SameResults, BoardSet
<1>3. Completed(b) = c
  BY <1>2 DEF Completed, Ended, SameResults
<1> HIDE DEF a, f, t, e
<1>4. Still(e, g) /\ SameTask(e, g) /\ g.applied = a /\ g.hw = e.hw /\ g.site = e.site
  BY <1>1, <1>2 DEF Still, SameTask, BoardSet
<1> HIDE DEF g
<1>5. /\ Still(g, h) /\ SameTask(g, h) /\ h.applied = g.applied /\ h.fresh = f
      /\ h.hw = g.hw /\ h.site = g.site
  BY <1>1, <1>4 DEF Still, SameTask, BoardSet
<1> HIDE DEF h
<1>6. /\ Still(h, c) /\ SameTask(h, c) /\ c.applied = h.applied /\ c.fresh = h.fresh
      /\ c.trace = t /\ c.hw = h.hw /\ c.site = h.site
  BY <1>1, <1>5 DEF Still, SameTask, BoardSet
<1> HIDE DEF c
<1> QED
  BY <1>2, <1>3, <1>4, <1>5, <1>6 DEF Still, SameTask, a, f, t

\* A run that is cut off leaves an idle board and nothing else.
LEMMA EndedIs ==
  ASSUME NEW b \in BoardSet
  PROVE  LET c == Ended(b) IN
         /\ Still(b, c) /\ SameTask(b, c) /\ SameResults(b, c) /\ c.site = b.site
         /\ c.hw = "idle"
  BY DEF Ended, Still, SameTask, SameResults, BoardSet

\* A polling loop sees the run's end, or gives up on a run that has none of its
\* own, or on one that hangs.
LEMMA PolledIs ==
  ASSUME NEW b, NEW p \in Polled(b)
  PROVE  \/ p.over = TRUE /\ p.m = Completed(b)
         \/ /\ p.over = FALSE /\ p.m = b
            /\ b.hw \in {"data", "scan"} \/ (b.hw # "idle" /\ Breaks(b))
  BY DEF Polled, Active

\* A poll that fails leaves the run going on, or over.
LEMMA PollBreaksIs ==
  ASSUME NEW b, NEW o \in PollBreaks(b)
  PROVE  o.ok = FALSE /\ Breaks(b) /\ (o.m = b \/ o.m = Completed(b))
<1>1. Breaks(b)
  BY DEF PollBreaks
<1>2. PICK p \in Polled(b) : o \in Refused(p.m)
  BY <1>1 DEF PollBreaks
<1> QED
  BY <1>1, <1>2, PolledIs, RefusedIs
-----------------------------------------------------------------------------
(* Runs of the xMAP, the Mercury and the STJ. *)

\* What dxp_begin_run may do: it sets Run Enable, or nothing.
BeginsRun(b, o) ==
    \/ o.ok = TRUE /\ o.m = RunEnabled(b)
    \/ o.ok = FALSE /\ o.m = b /\ Breaks(b)

\* dxp_begin_run of the three, after RESET_MCA.
LEMMA XmapBeginRunIs ==
  ASSUME NEW b, NEW o \in XmapBeginRun(b)
  PROVE  BeginsRun(b, o)
<1> DEFINE F(k) == Reg(k, RunEnabled(k))
           outs == Reg(b, b)
<1>1. o \in Then(outs, F)
  BY DEF XmapBeginRun
<1> HIDE DEF F
<1>2. PICK z \in outs : o \in IF z.ok THEN F(z.m) ELSE {z}
  BY <1>1 DEF Then
<1>3. \/ z.ok = TRUE /\ z.m = b
      \/ z.ok = FALSE /\ z.m = b /\ Breaks(b)
  BY <1>2, RegIs
<1>4. CASE z.ok = FALSE
  BY <1>2, <1>3, <1>4 DEF BeginsRun
<1>5. CASE z.ok = TRUE
  <2>1. o \in Reg(b, RunEnabled(b))
    BY <1>2, <1>3, <1>5 DEF F
  <2> QED
    BY <2>1, RegIs DEF BeginsRun
<1> QED
  BY <1>3, <1>4, <1>5

\* What polling BUSY may do: see the run's end, give up, or fail.
Waits(b, o) ==
    \/ o.ok = TRUE /\ o.m = Completed(b)
    \/ /\ o.ok = FALSE /\ o.m \in {b, Completed(b)}
       /\ b.hw \in {"data", "scan"} \/ Breaks(b)

\* dxp__wait_for_busy of the three.
LEMMA XmapWaitForBusyIs ==
  ASSUME NEW b, NEW o \in XmapWaitForBusy(b)
  PROVE  Waits(b, o)
<1>1. CASE o \in PollBreaks(b)
  BY <1>1, PollBreaksIs DEF Waits
<1>2. CASE o \in {[ok |-> p.over, m |-> p.m] : p \in Polled(b)}
  <2>1. PICK p \in Polled(b) : o = [ok |-> p.over, m |-> p.m]
    BY <1>2
  <2>2. o.ok = p.over /\ o.m = p.m
    BY <2>1
  <2> QED
    BY <2>2, PolledIs DEF Waits
<1> QED
  BY <1>1, <1>2 DEF XmapWaitForBusy

\* What clearing Run Enable may do.
LEMMA RunDisabledIs ==
  ASSUME NEW b, NEW e \in RunDisabled(b)
  PROVE  e = Ended(b) \/ (e = b /\ Breaks(b))
  BY DEF RunDisabled

\* What the end of a run may do: leave the board idle, or fail and leave it
\* idle or as it was; where the hardware does as it is told it ends the run
\* and leaves its results alone.
Ends(b, o) ==
    /\ o.ok \in BOOLEAN
    /\ Still(b, o.m) /\ SameTask(b, o.m) /\ o.m.site = "stop"
    /\ b.fresh => o.m.fresh
    /\ o.m.hw \in {b.hw, "idle"} /\ (o.ok => o.m.hw = "idle")
    /\ ~o.ok => "stop" \in b.may
    /\ "stop" \notin b.may => o.m.trace = b.trace

\* Polling BUSY after Run Enable has been cleared.
LEMMA EndedAndPolled ==
  ASSUME NEW b \in BoardSet, NEW e \in RunDisabled(At(b, "stop")),
         NEW o, Waits(e, o)
  PROVE  Ends(b, o)
<1> DEFINE a == At(b, "stop")
<1>1. /\ Still(b, a) /\ SameTask(b, a) /\ SameResults(b, a)
      /\ a.hw = b.hw /\ a.site = "stop"
  BY AtIs
<1>2. a \in BoardSet
  BY <1>1 DEF Still
<1> HIDE DEF a
<1>3. /\ Still(a, e) /\ SameTask(a, e) /\ SameResults(a, e) /\ e.site = "stop"
      /\ e.hw = "idle" \/ (e.hw = a.hw /\ "stop" \in a.may)
  <2>1. e = Ended(a) \/ (e = a /\ Breaks(a))
    BY RunDisabledIs DEF a
  <2> QED
    BY <1>1, <1>2, <2>1, EndedIs DEF Breaks, Still, SameTask, SameResults
<1>4. e \in BoardSet
  BY <1>3 DEF Still
<1> DEFINE c == Completed(e)
<1>5. /\ Still(e, c) /\ SameTask(e, c) /\ c.site = e.site /\ c.hw = "idle"
      /\ e.fresh => c.fresh
      /\ e.hw = "idle" => c.trace = e.trace
  BY <1>4, CompletedIs
<1>6. \/ o.ok = TRUE /\ o.m = c
      \/ o.ok = FALSE /\ o.m \in {e, c} /\ "stop" \in e.may
  <2>1. \/ o.ok = TRUE /\ o.m = c
        \/ /\ o.ok = FALSE /\ o.m \in {e, c}
           /\ e.hw \in {"data", "scan"} \/ Breaks(e)
    BY DEF Waits
  <2>2. Breaks(e) => "stop" \in e.may
    BY <1>3 DEF Breaks
  <2>3. e.hw \in {"data", "scan"} => "stop" \in e.may
    BY <1>3 DEF Still
  <2> QED
    BY <2>1, <2>2, <2>3
<1> HIDE DEF c
<1>7. /\ Still(b, o.m) /\ SameTask(b, o.m) /\ o.m.site = "stop"
  BY <1>1, <1>3, <1>5, <1>6 DEF Still, SameTask
<1>8. b.fresh => o.m.fresh
  BY <1>1, <1>3, <1>5, <1>6 DEF SameResults
<1>9. o.m.hw \in {b.hw, "idle"} /\ (o.ok => o.m.hw = "idle")
  BY <1>1, <1>3, <1>5, <1>6
<1>10. ~o.ok => "stop" \in b.may
  BY <1>1, <1>3, <1>6 DEF Still
<1>11. "stop" \notin b.may => o.m.trace = b.trace
  BY <1>1, <1>3, <1>5, <1>6 DEF SameResults, Still
<1> QED
  BY <1>6, <1>7, <1>8, <1>9, <1>10, <1>11 DEF Ends

\* dxp_end_run of the xMAP: Run Enable is cleared, then BUSY is polled.
LEMMA XmapEndRunIs ==
  ASSUME NEW b \in BoardSet, NEW o \in XmapEndRun(b)
  PROVE  Ends(b, o)
<1> DEFINE F(k) == UNION {XmapWaitForBusy(e) : e \in RunDisabled(k)}
           a == At(b, "stop")
           outs == Reg(a, a)
<1>1. o \in Then(outs, F)
  BY DEF XmapEndRun
<1> HIDE DEF F
<1>2. PICK z \in outs : o \in IF z.ok THEN F(z.m) ELSE {z}
  BY <1>1 DEF Then
<1>3. /\ Still(b, a) /\ SameTask(b, a) /\ SameResults(b, a)
      /\ a.hw = b.hw /\ a.site = "stop"
  BY AtIs
<1> HIDE DEF a
<1>4. \/ z.ok = TRUE /\ z.m = a
      \/ z.ok = FALSE /\ z.m = a /\ Breaks(a)
  BY <1>2, RegIs
<1>5. CASE z.ok = FALSE
  BY <1>2, <1>3, <1>4, <1>5 DEF Ends, Still, SameTask, SameResults, Breaks
<1>6. CASE z.ok = TRUE
  <2>1. o \in UNION {XmapWaitForBusy(e) : e \in RunDisabled(a)}
    BY <1>2, <1>4, <1>6 DEF F
  <2>2. PICK e \in RunDisabled(a) : o \in XmapWaitForBusy(e)
    BY <2>1
  <2> QED
    BY <2>2, XmapWaitForBusyIs, EndedAndPolled DEF a
<1> QED
  BY <1>4, <1>5, <1>6

\* That of the Mercury and of the STJ does the same.
LEMMA MercuryEndRunIs ==
  ASSUME NEW b
  PROVE  MercuryEndRun(b) = XmapEndRun(b) /\ StjEndRun(b) = XmapEndRun(b)
  BY DEF MercuryEndRun, XmapEndRun, StjEndRun, MercuryWaitForBusy, StjWaitForBusy

\* So do the ends of their special runs.
LEMMA MercuryEndControlTaskIs ==
  ASSUME NEW b
  PROVE  /\ MercuryEndControlTask(b) = XmapEndControlTask(b)
         /\ StjEndControlTask(b) = XmapEndControlTask(b)
  BY MercuryEndRunIs DEF MercuryEndControlTask, XmapEndControlTask, StjEndControlTask
-----------------------------------------------------------------------------
(* The end of a special run. *)

\* What dxp_end_control_task may do: end the run and set RUNTYPE back, or fail
\* with RUNTYPE as it was.  The Saturn does not look whether the run has ended.
EndsTask(b, o) ==
    /\ o.ok \in BOOLEAN
    /\ Still(b, o.m) /\ o.m.site = "stop"
    /\ b.fresh => o.m.fresh
    /\ o.m.runType = IF o.ok THEN "normal" ELSE b.runType
    /\ o.m.hw \in {b.hw, "idle"}
    /\ o.ok /\ b.product # "saturn" => o.m.hw = "idle"
    /\ ~o.ok => "stop" \in b.may
    /\ "stop" \notin b.may => o.m.trace = b.trace /\ o.m.hw = "idle"

\* RUNTYPE is written.
LEMMA RunTypeIs ==
  ASSUME NEW b \in BoardSet, NEW x \in {"normal", "special"}
  PROVE  LET c == [b EXCEPT !.runType = x] IN
         /\ Still(b, c) /\ SameResults(b, c) /\ c.runType = x
         /\ c.hw = b.hw /\ c.site = b.site /\ c.task = b.task /\ c.kind = b.kind
  BY DEF Still, SameResults, BoardSet

\* That of the xMAP: the run is ended, then RUNTYPE is written.
LEMMA XmapEndControlTaskIs ==
  ASSUME NEW b \in BoardSet, NEW o \in XmapEndControlTask(b)
  PROVE  EndsTask(b, o) /\ (o.ok => o.m.hw = "idle")
<1> DEFINE F(k) == Reg(k, [k EXCEPT !.runType = "normal"])
           outs == XmapEndRun(b)
<1>1. o \in Then(outs, F)
  BY DEF XmapEndControlTask
<1> HIDE DEF F
<1>2. PICK z \in outs : o \in IF z.ok THEN F(z.m) ELSE {z}
  BY <1>1 DEF Then
<1>3. Ends(b, z)
  BY <1>2, XmapEndRunIs
<1>4. CASE ~z.ok
  BY <1>2, <1>3, <1>4 DEF Ends, EndsTask, SameTask
<1>5. CASE z.ok
  <2> DEFINE k == z.m
             n == [k EXCEPT !.runType = "normal"]
  <2>1. o \in Reg(k, n)
    BY <1>2, <1>5 DEF F
  <2>2. k \in BoardSet /\ k.site = "stop"
    BY <1>3 DEF Ends, Still
  <2>3. /\ Still(k, n) /\ SameResults(k, n) /\ n.runType = "normal"
        /\ n.hw = k.hw /\ n.site = k.site
    BY <2>2, RunTypeIs
  <2> HIDE DEF n
  <2>4. \/ o.ok = TRUE /\ o.m = n
        \/ o.ok = FALSE /\ o.m = k /\ "stop" \in k.may
    BY <2>1, <2>2, RegIs, ZenonT(60) DEF Breaks
  <2> QED
    BY <1>3, <1>5, <2>3, <2>4 DEF Ends, EndsTask, Still, SameTask, SameResults
<1> QED
  BY <1>4, <1>5

\* dxp_end_run of the Saturn: it always succeeds, and the run may go on.
LEMMA SaturnEndRunIs ==
  ASSUME NEW b \in BoardSet, NEW o \in SaturnEndRun(b)
  PROVE  /\ o.ok = TRUE
         /\ Still(b, o.m) /\ SameTask(b, o.m) /\ SameResults(b, o.m)
         /\ o.m.site = "stop"
         /\ o.m.hw = "idle" \/ (o.m.hw = b.hw /\ "stop" \in b.may)
<1> DEFINE a == At(b, "stop")
<1>1. PICK e \in RunDisabled(a) : o \in Done(e)
  BY DEF SaturnEndRun
<1>2. o.ok = TRUE /\ o.m = e
  BY <1>1, DoneIs
<1>3. /\ Still(b, a) /\ SameTask(b, a) /\ SameResults(b, a)
      /\ a.hw = b.hw /\ a.site = "stop"
  BY AtIs
<1> HIDE DEF a
<1>4. a \in BoardSet
  BY <1>3 DEF Still
<1>5. e = Ended(a) \/ (e = a /\ Breaks(a))
  BY RunDisabledIs
<1> QED
  BY <1>2, <1>3, <1>4, <1>5, EndedIs DEF Still, SameTask, SameResults, Breaks

\* That of the Saturn: the run, then the two writes of RUNTASKS.
LEMMA SaturnEndControlTaskIs ==
  ASSUME NEW b \in BoardSet, b.product = "saturn", NEW o \in SaturnEndControlTask(b)
  PROVE  EndsTask(b, o)
<1> DEFINE H(l) == Reg(l, [l EXCEPT !.runType = "normal"])
           F(k) == Then(Reg(k, k), H)
           outs == SaturnEndRun(b)
<1>1. o \in Then(outs, F)
  BY DEF SaturnEndControlTask
<1> HIDE DEF F, H
<1>2. PICK z \in outs : o \in IF z.ok THEN F(z.m) ELSE {z}
  BY <1>1 DEF Then
<1> DEFINE k == z.m
           n == [k EXCEPT !.runType = "normal"]
<1>3. /\ z.ok = TRUE
      /\ Still(b, k) /\ SameTask(b, k) /\ SameResults(b, k)
      /\ k.site = "stop"
      /\ k.hw = "idle" \/ (k.hw = b.hw /\ "stop" \in b.may)
  BY <1>2, SaturnEndRunIs
<1> DEFINE routs == Reg(k, k)
<1>4. o \in Then(routs, H)
  BY <1>2, <1>3 DEF F
<1>5. PICK y \in routs : o \in IF y.ok THEN H(y.m) ELSE {y}
  BY <1>4 DEF Then
<1>6. y.m = k /\ (y.ok = TRUE \/ (y.ok = FALSE /\ "stop" \in k.may))
  <2>1. y \in Reg(k, k)
    BY <1>5
  <2> HIDE DEF k
  <2>2. (y.ok = TRUE /\ y.m = k) \/ (y.ok = FALSE /\ y.m = k /\ Breaks(k))
    BY <2>1, RegIs
  <2> QED
    BY <1>3, <2>2 DEF Breaks
<1>7. o \in Reg(k, n) \/ (o.ok = FALSE /\ o.m = k /\ "stop" \in k.may)
  BY <1>5, <1>6 DEF H
<1>8. /\ Still(k, n) /\ SameResults(k, n) /\ n.runType = "normal"
      /\ n.hw = k.hw /\ n.site = k.site
  BY <1>3, RunTypeIs DEF Still
<1> HIDE DEF n
<1>9. \/ o.ok = TRUE /\ o.m = n
      \/ o.ok = FALSE /\ o.m = k /\ "stop" \in k.may
  <2> HIDE DEF k
  <2>1. CASE o \in Reg(k, n)
    <3>1. \/ o.ok = TRUE /\ o.m = n
          \/ o.ok = FALSE /\ o.m = k /\ Breaks(k)
      BY <2>1, RegIs
    <3> QED
      BY <1>3, <3>1 DEF Breaks
  <2> QED
    BY <1>7, <2>1
<1> QED
  BY <1>3, <1>8, <1>9 DEF EndsTask, Still, SameTask, SameResults

\* dxp_end_control_task of each product.
LEMMA EndControlTaskIs ==
  ASSUME NEW b \in BoardSet, NEW o \in EndControlTask(b)
  PROVE  EndsTask(b, o)
<1>1. b.product \in {"xmap", "mercury", "stj", "saturn"}
  BY DEF BoardSet
<1>2. CASE b.product = "xmap"
  BY <1>2, XmapEndControlTaskIs DEF EndControlTask
<1>3. CASE b.product = "mercury"
  BY <1>3, XmapEndControlTaskIs, MercuryEndControlTaskIs DEF EndControlTask
<1>4. CASE b.product = "stj"
  BY <1>4, XmapEndControlTaskIs, MercuryEndControlTaskIs DEF EndControlTask
<1>5. CASE b.product = "saturn"
  BY <1>5, SaturnEndControlTaskIs DEF EndControlTask
<1> QED
  BY <1>1, <1>2, <1>3, <1>4, <1>5
-----------------------------------------------------------------------------
(* The beginning of a special run. *)

\* The special runs of the application's boards work, and runs end when told.
Works(b) == "task" \notin b.may /\ "stop" \notin b.may

\* What the DSP executes when a task was begun: it, or what ran before.
Executes(b, t) == IF b.hw = "idle" THEN t ELSE b.hw

\* The task may go wrong: the hardware fails, or another run is going on.
MayGoWrong(b) == "task" \in b.may \/ b.hw # "idle"

\* The registers of task t are written.
Prepared(b, c, t) ==
    /\ Still(b, c) /\ c.trace = b.trace /\ c.hw = b.hw /\ c.site = b.site
    /\ c.runType = "special" /\ c.task = t /\ c.kind = b.kind
    /\ c.fresh = b.fresh

\* Run Enable was set.
Begun(b, c, t) ==
    /\ Still(b, c) /\ c.trace = b.trace /\ c.site = b.site
    /\ c.hw = Executes(b, t)
    /\ c.runType = "special" /\ c.kind = b.kind /\ c.fresh = b.fresh

\* Task t has not begun: RUNTYPE may be written by then.
NotBegun(b, o) ==
    /\ o.ok = FALSE /\ "task" \in b.may
    /\ Still(b, o.m) /\ o.m.trace = b.trace /\ o.m.hw = b.hw
    /\ o.m.runType \in {b.runType, "special"}

\* It has begun and is over.
Over(b, o) ==
    o.ok = TRUE /\ Still(b, o.m) /\ o.m.runType = "special" /\ o.m.hw = "idle"

\* It has not ended in time, and the driver says so.
TimesOut(b, o, t) ==
    /\ o.ok = FALSE /\ MayGoWrong(b) /\ Still(b, o.m)
    /\ o.m.runType = "special" /\ o.m.hw \in {"idle", Executes(b, t)}

\* It has not ended in time, and the success of the clean-up is returned.
Cleaned(b, o) ==
    /\ o.ok = TRUE /\ MayGoWrong(b) /\ Still(b, o.m)
    /\ o.m.runType = "normal" /\ o.m.hw = "idle"

\* Nobody has waited for its end.
GoesOn(b, o, t, k) ==
    /\ o.ok = TRUE /\ Still(b, o.m) /\ o.m.trace = b.trace /\ o.m.site = b.site
    /\ o.m.hw = Executes(b, t) /\ o.m.runType = "special"
    /\ t = "trace" => o.m.kind = k

\* Where everything works and no other trace runs, a trace on an idle board
\* that has succeeded is of the kind k, and other tasks leave the trace alone.
TraceRight(b, o, t, k) ==
    Works(b) /\ b.hw # "trace" =>
        /\ t # "trace" => o.m.trace = b.trace
        /\ t = "trace" /\ o.ok /\ b.hw = "idle" => o.m.trace = k

\* The parameters of a special run of the xMAP, Mercury and STJ are written
\* one after the other, up to the first that fails.
LEMMA XmapSpecialIs ==
  ASSUME NEW b \in BoardSet, b.site = "task", NEW t \in Tasks,
         NEW o \in XmapSpecial(b, t)
  PROVE  NotBegun(b, o) \/ (o.ok = TRUE /\ Prepared(b, o.m, t))
<1> DEFINE F(k) == Reg(k, [k EXCEPT !.task = t])
           c == [b EXCEPT !.runType = "special"]
           d == [c EXCEPT !.task = t]
           outs == Reg(b, c)
<1>1. o \in Then(outs, F)
  BY DEF XmapSpecial
<1> HIDE DEF F
<1>2. PICK z \in outs : o \in IF z.ok THEN F(z.m) ELSE {z}
  BY <1>1 DEF Then
<1>3. /\ Still(b, c) /\ SameResults(b, c) /\ c.runType = "special"
      /\ c.hw = b.hw /\ c.site = b.site /\ c.task = b.task /\ c.kind = b.kind
  BY RunTypeIs
<1>4. F(c) = Reg(c, d)
  BY DEF F
<1> HIDE DEF c
<1>5. /\ Still(c, d) /\ SameResults(c, d) /\ d.runType = c.runType
      /\ d.hw = c.hw /\ d.site = c.site /\ d.task = t /\ d.kind = c.kind
  BY <1>3 DEF Still, SameResults, BoardSet
<1> HIDE DEF d
<1>6. (z.ok = TRUE /\ z.m = c) \/ (z.ok = FALSE /\ z.m = b /\ "task" \in b.may)
  <2>1. z \in Reg(b, c)
    BY <1>2
  <2>2. (z.ok = TRUE /\ z.m = c) \/ (z.ok = FALSE /\ z.m = b /\ Breaks(b))
    BY <2>1, RegIs
  <2> QED
    BY <2>2 DEF Breaks
<1>7. CASE z.ok = FALSE
  BY <1>2, <1>6, <1>7 DEF NotBegun, Still
<1>8. CASE z.ok = TRUE
  <2>1. o \in Reg(c, d)
    BY <1>2, <1>4, <1>6, <1>8
  <2>2. (o.ok = TRUE /\ o.m = d) \/ (o.ok = FALSE /\ o.m = c /\ Breaks(c))
    BY <2>1, RegIs
  <2> QED
    BY <1>3, <1>5, <2>2 DEF NotBegun, Prepared, Still, SameResults, Breaks
<1> QED
  BY <1>6, <1>7, <1>8

\* Run Enable on a board that is prepared.
LEMMA PreparedBegins ==
  ASSUME NEW b \in BoardSet, b.site = "task", NEW t \in Tasks,
         NEW k, Prepared(b, k, t), NEW o \in XmapBeginRun(k)
  PROVE  \/ NotBegun(b, o)
         \/ o.ok = TRUE /\ Begun(b, o.m, t) /\ o.m.applied = k.applied
<1>1. BeginsRun(k, o)
  BY XmapBeginRunIs
<1>2. k \in BoardSet
  BY DEF Prepared, Still
<1> DEFINE c == RunEnabled(k)
<1>3. /\ Still(k, c) /\ SameTask(k, c) /\ SameResults(k, c) /\ c.site = k.site
      /\ c.hw = Executes(b, t)
  BY <1>2, RunEnabledIs DEF Prepared, Executes
<1> HIDE DEF c
<1>4. (o.ok = TRUE /\ o.m = c) \/ (o.ok = FALSE /\ o.m = k /\ "task" \in k.may)
  BY <1>1 DEF BeginsRun, c, Breaks, Prepared
<1> QED
  BY <1>3, <1>4 DEF Prepared, NotBegun, Begun, Still, SameTask, SameResults

\* Waiting for the end of a task that has begun.
LEMMA BegunWaits ==
  ASSUME NEW b \in BoardSet, b.site = "task", NEW t \in Tasks, t # "scan",
         NEW c, Begun(b, c, t), NEW o, Waits(c, o)
  PROVE  /\ Over(b, o) \/ TimesOut(b, o, t)
         /\ TraceRight(b, o, t, b.kind)
         /\ o.m.site = "task"
<1>1. c \in BoardSet
  BY DEF Begun, Still
<1> DEFINE d == Completed(c)
<1>2. /\ Still(c, d) /\ SameTask(c, d) /\ d.site = c.site /\ d.hw = "idle"
      /\ d.trace = IF c.hw = "trace" THEN c.kind ELSE c.trace
  BY <1>1, CompletedIs
<1> HIDE DEF d
<1>3. \/ o.ok = TRUE /\ o.m = d
      \/ /\ o.ok = FALSE /\ o.m \in {c, d}
         /\ c.hw \in {"data", "scan"} \/ Breaks(c)
  BY DEF Waits, d
<1>4. c.hw \in {"data", "scan"} \/ Breaks(c) => MayGoWrong(b)
  BY DEF Begun, Executes, Breaks, MayGoWrong, Still, Tasks
<1>5. Over(b, o) \/ TimesOut(b, o, t)
  <2>1. Still(b, c) /\ Still(b, d) /\ c.runType = "special" /\ d.runType = "special"
    BY <1>2 DEF Begun, Still, SameTask
  <2> QED
    BY <1>2, <1>3, <1>4, <2>1 DEF Over, TimesOut, Begun
<1>6. TraceRight(b, o, t, b.kind)
  <2> SUFFICES ASSUME Works(b), b.hw # "trace"
               PROVE  /\ t # "trace" => o.m.trace = b.trace
                      /\ t = "trace" /\ o.ok /\ b.hw = "idle" => o.m.trace = b.kind
    BY DEF TraceRight
  <2> QED
    BY <1>2, <1>3 DEF Begun, Executes
<1>7. o.m.site = "task"
  BY <1>2, <1>3 DEF Begun
<1> QED
  BY <1>5, <1>6, <1>7
\* Polling Run Active: the run is over, or is ended, or a poll fails.
LEMMA XmapRunEnableActiveIs ==
  ASSUME NEW b \in BoardSet, NEW o \in XmapRunEnableActive(b)
  PROVE  \/ o.ok = TRUE /\ o.m = Completed(b)
         \/ /\ o.ok = FALSE /\ Still(b, o.m) /\ o.m.runType = b.runType
            /\ o.m.hw \in {b.hw, "idle"}
            /\ b.hw \in {"data", "scan"} \/ Breaks(b)
            /\ Works(b) /\ b.hw # "trace" => o.m.trace = b.trace
<1> DEFINE c == Completed(b)
<1>1. /\ Still(b, c) /\ SameTask(b, c) /\ c.hw = "idle"
      /\ b.hw # "trace" => c.trace = b.trace
  BY CompletedIs
<1>2. CASE o \in PollBreaks(b)
  <2>1. o.ok = FALSE /\ Breaks(b) /\ (o.m = b \/ o.m = c)
    BY <1>2, PollBreaksIs
  <2> QED
    BY <1>1, <2>1 DEF Still, SameTask
<1>3. CASE o \notin PollBreaks(b)
  <2>1. PICK p \in Polled(b) :
           o \in IF p.over THEN Done(p.m) ELSE UNION {Refused(e.m) : e \in XmapEndRun(p.m)}
    BY <1>3 DEF XmapRunEnableActive
  <2>2. \/ p.over = TRUE /\ p.m = Completed(b)
        \/ /\ p.over = FALSE /\ p.m = b
           /\ b.hw \in {"data", "scan"} \/ (b.hw # "idle" /\ Breaks(b))
    BY PolledIs
  <2>3. CASE p.over = TRUE
    BY <2>1, <2>2, <2>3, DoneIs
  <2>4. CASE p.over = FALSE
    <3>1. PICK e \in XmapEndRun(b) : o \in Refused(e.m)
      BY <2>1, <2>2, <2>4
    <3>2. o.ok = FALSE /\ o.m = e.m
      BY <3>1, RefusedIs
    <3>3. Ends(b, e)
      BY <3>1, XmapEndRunIs
    <3> QED
      BY <2>2, <2>4, <3>2, <3>3 DEF Ends, SameTask, Works
  <2> QED
    BY <2>2, <2>3, <2>4
<1> QED
  BY <1>2, <1>3

\* dxp_do_apply of the xMAP and the Mercury.  APPLYSTAT is set to what the DSP
\* never writes, so that reading zero means that this apply has been done: on
\* parameters as they are, and not by the end of a data run.
LEMMA XmapDoApplyIs ==
  ASSUME NEW b \in BoardSet, b.site = "task", NEW o \in XmapDoApply(b), NEW kind
  PROVE  /\ TraceRight(b, o, "apply", kind)
         /\ \/ NotBegun(b, o) \/ TimesOut(b, o, "apply")
            \/ Over(b, o) /\ b.hw # "data" /\ o.m.fresh
<1> DEFINE E(r) == IF r.applied THEN Done(r) ELSE Refused(r)
           D(q) == Then(Reg(q, q), E)
           C(n) == Then(XmapRunEnableActive(n), D)
           B(l) == Then(XmapBeginRun(l), C)
           A(k) == Then(Reg(k, ApplyStat(k)), B)
           outs == XmapSpecial(b, "apply")
<1>0. "apply" \in Tasks
  BY DEF Tasks
<1>1. o \in Then(outs, A)
  BY DEF XmapDoApply
<1> HIDE DEF A, B, C, D, E
<1>2. PICK z \in outs : o \in IF z.ok THEN A(z.m) ELSE {z}
  BY <1>1 DEF Then
<1>3. NotBegun(b, z) \/ (z.ok = TRUE /\ Prepared(b, z.m, "apply"))
  BY <1>0, <1>2, XmapSpecialIs
<1>4. NotBegun(b, o) => TraceRight(b, o, "apply", kind)
  BY DEF NotBegun, TraceRight
<1>5. CASE NotBegun(b, z)
  BY <1>2, <1>4, <1>5 DEF NotBegun
<1>6. CASE z.ok = TRUE /\ Prepared(b, z.m, "apply")
  <2> DEFINE k == z.m
             l == ApplyStat(k)
             louts == Reg(k, l)
  <2>1. o \in Then(louts, B)
    BY <1>2, <1>6 DEF A
  <2>2. PICK y \in louts : o \in IF y.ok THEN B(y.m) ELSE {y}
    BY <2>1 DEF Then
  <2>3. k \in BoardSet /\ k.site = "task" /\ Prepared(b, k, "apply")
    BY <1>6 DEF Prepared, Still
  <2>4. Prepared(b, l, "apply") /\ l.applied = FALSE
    BY <2>3 DEF Prepared, Still, ApplyStat, BoardSet
  <2>5. y \in Reg(k, l)
    BY <2>2
  <2> HIDE DEF k, l
  <2>6. (y.ok = TRUE /\ y.m = l) \/ (y.ok = FALSE /\ y.m = k /\ "task" \in k.may)
    <3>1. (y.ok = TRUE /\ y.m = l) \/ (y.ok = FALSE /\ y.m = k /\ Breaks(k))
      BY <2>5, RegIs
    <3> QED
      BY <2>3, <3>1 DEF Breaks
  <2>7. CASE y.ok = FALSE
    <3>1. o = y
      BY <2>2, <2>7
    <3>2. NotBegun(b, o)
      BY <2>3, <2>6, <2>7, <3>1 DEF Prepared, NotBegun, Still
    <3> QED
      BY <1>4, <3>2
  <2>8. CASE y.ok = TRUE
    <3> DEFINE bouts == XmapBeginRun(l)
    <3>1. o \in Then(bouts, C)
      BY <2>2, <2>6, <2>8 DEF B
    <3>2. PICK x \in bouts : o \in IF x.ok THEN C(x.m) ELSE {x}
      BY <3>1 DEF Then
    <3>3. \/ NotBegun(b, x)
          \/ x.ok = TRUE /\ Begun(b, x.m, "apply") /\ x.m.applied = l.applied
      BY <1>0, <2>4, <3>2, PreparedBegins
    <3>4. CASE NotBegun(b, x)
      <4>1. o = x
        BY <3>2, <3>4 DEF NotBegun
      <4> QED
        BY <1>4, <3>4, <4>1
    <3>5. CASE x.ok = TRUE /\ Begun(b, x.m, "apply") /\ x.m.applied = l.applied
      <4> DEFINE n == x.m
                 nouts == XmapRunEnableActive(n)
                 q == Completed(n)
      <4>1. o \in Then(nouts, D)
        BY <3>2, <3>5 DEF C
      <4>2. PICK w \in nouts : o \in IF w.ok THEN D(w.m) ELSE {w}
        BY <4>1 DEF Then
      <4>3. /\ Begun(b, n, "apply") /\ n.applied = FALSE
            /\ Still(b, n) /\ n \in BoardSet /\ n.site = "task" /\ n.trace = b.trace
            /\ n.runType = "special" /\ n.hw = Executes(b, "apply")
        BY <2>4, <3>5 DEF Begun, Still
      <4>4. w \in XmapRunEnableActive(n)
        BY <4>2
      <4> HIDE DEF n
      <4>5. /\ Still(n, q) /\ SameTask(n, q) /\ q.site = n.site /\ q.hw = "idle"
            /\ q.applied = (n.applied \/ n.hw = "apply")
            /\ q.fresh = (n.fresh \/ n.hw = "apply")
            /\ n.hw # "trace" => q.trace = n.trace
        BY <4>3, CompletedIs
      <4>6. \/ w.ok = TRUE /\ w.m = q
            \/ /\ w.ok = FALSE /\ Still(n, w.m) /\ w.m.runType = n.runType
               /\ w.m.hw \in {n.hw, "idle"}
               /\ n.hw \in {"data", "scan"} \/ Breaks(n)
               /\ Works(n) /\ n.hw # "trace" => w.m.trace = n.trace
        BY <4>3, <4>4, XmapRunEnableActiveIs
      <4> HIDE DEF q
      <4>7. /\ Works(b) => Works(n)
            /\ b.hw # "trace" => n.hw # "trace"
            /\ n.hw \in {"data", "scan"} \/ Breaks(n) => MayGoWrong(b)
        BY <4>3 DEF Works, Still, Executes, Breaks, MayGoWrong
      <4>8. CASE w.ok = FALSE
        <5>1. o = w
          BY <4>2, <4>8
        <5>2. TimesOut(b, o, "apply")
          BY <4>3, <4>6, <4>7, <4>8, <5>1 DEF TimesOut, Still
        <5>3. TraceRight(b, o, "apply", kind)
          BY <4>3, <4>6, <4>7, <4>8, <5>1 DEF TraceRight
        <5> QED
          BY <5>2, <5>3
      <4>9. CASE w.ok = TRUE
        <5> DEFINE qouts == Reg(q, q)
        <5>1. o \in Then(qouts, E)
          BY <4>2, <4>6, <4>9 DEF D
        <5>2. PICK v \in qouts : o \in IF v.ok THEN E(v.m) ELSE {v}
          BY <5>1 DEF Then
        <5>3. v \in Reg(q, q)
          BY <5>2
        <5>4. (v.ok = TRUE /\ v.m = q) \/ (v.ok = FALSE /\ v.m = q /\ "task" \in q.may)
          <6>1. (v.ok = TRUE /\ v.m = q) \/ (v.ok = FALSE /\ v.m = q /\ Breaks(q))
            BY <5>3, RegIs
          <6> QED
            BY <4>3, <4>5, <6>1 DEF Breaks
        <5>5. Still(b, q) /\ q.runType = "special" /\ q.hw = "idle"
          BY <4>3, <4>5 DEF Still, SameTask
        <5>6. o.m = q => TraceRight(b, o, "apply", kind)
          BY <4>3, <4>5, <4>7 DEF TraceRight
        <5>7. CASE v.ok = FALSE
          <6>1. o.ok = FALSE /\ o.m = q /\ "task" \in b.may
            BY <4>3, <4>5, <5>2, <5>4, <5>7 DEF Still
          <6> QED
            BY <5>5, <5>6, <6>1 DEF TimesOut, MayGoWrong
        <5>8. CASE v.ok = TRUE /\ q.applied
          <6>1. o \in Done(q)
            BY <5>2, <5>4, <5>8 DEF E
          <6>2. o.ok = TRUE /\ o.m = q
            BY <6>1, DoneIs
          <6>3. n.hw = "apply" /\ q.fresh
            BY <4>3, <4>5, <5>8
          <6>4. b.hw # "data"
            BY <4>3, <6>3 DEF Executes
          <6> QED
            BY <5>5, <5>6, <6>2, <6>3, <6>4 DEF Over
        <5>9. CASE v.ok = TRUE /\ ~q.applied
          <6>1. o \in Refused(q)
            BY <5>2, <5>4, <5>9 DEF E
          <6>2. o.ok = FALSE /\ o.m = q
            BY <6>1, RefusedIs
          <6>3. n.hw # "apply"
            BY <4>3, <4>5, <5>9
          <6>4. MayGoWrong(b)
            BY <4>3, <6>3 DEF Executes, MayGoWrong
          <6> QED
            BY <5>5, <5>6, <6>2, <6>4 DEF TimesOut
        <5> QED
          BY <5>4, <5>7, <5>8, <5>9
      <4> QED
        BY <4>6, <4>8, <4>9
    <3> QED
      BY <3>3, <3>4, <3>5
  <2> QED
    BY <2>6, <2>7, <2>8
<1> QED
  BY <1>3, <1>5, <1>6
\* What begins task t of kind k: the outcomes of dxp_begin_control_task.
Begins(b, o, t, k) ==
    /\ TraceRight(b, o, t, k) \/ GoesOn(b, o, t, k)
    /\ \/ NotBegun(b, o)
       \/ b.product # "saturn" /\ t # "scan" /\ TimesOut(b, o, t)
       \/ /\ b.product # "saturn" /\ t # "scan" /\ Over(b, o)
          /\ t = "apply" /\ b.product \in {"xmap", "mercury"} =>
                b.hw # "data" /\ o.m.fresh
       \/ b.product \in {"xmap", "mercury"} /\ t # "apply" /\ Cleaned(b, o)
       \/ (b.product = "saturn" \/ t = "scan") /\ GoesOn(b, o, t, k)

\* The boards that differ in the parameters of a trace only.
Like(b, c) ==
    /\ Still(b, c) /\ c.trace = b.trace /\ c.hw = b.hw /\ c.site = b.site
    /\ c.runType = b.runType

\* TRACETYPE is written.
LEMMA KindIs ==
  ASSUME NEW b \in BoardSet, NEW k \in Kinds
  PROVE  LET c == [b EXCEPT !.kind = k] IN
         Like(b, c) /\ c \in BoardSet /\ c.kind = k /\ c.task = b.task
  BY DEF Like, Still, BoardSet

\* The parameters of the trace do not matter for what a beginning may do.
LEMMA LikeBegins ==
  ASSUME NEW b, NEW c, Like(b, c), NEW o, NEW t, NEW k, Begins(c, o, t, k)
  PROVE  Begins(b, o, t, k)
<1> USE DEF Like
<1>1. Still(c, o.m) => Still(b, o.m)
  BY DEF Still
<1>2. Executes(c, t) = Executes(b, t) /\ (MayGoWrong(c) <=> MayGoWrong(b))
  BY DEF Executes, MayGoWrong, Still
<1>3. TraceRight(c, o, t, k) => TraceRight(b, o, t, k)
  BY DEF TraceRight, Works, Still
<1>4. NotBegun(c, o) => NotBegun(b, o)
  BY <1>1 DEF NotBegun, Still
<1>5. TimesOut(c, o, t) => TimesOut(b, o, t)
  BY <1>1, <1>2 DEF TimesOut
<1>6. /\ Over(c, o) => Over(b, o)
      /\ Cleaned(c, o) => Cleaned(b, o)
      /\ GoesOn(c, o, t, k) => GoesOn(b, o, t, k)
  BY <1>1, <1>2 DEF Over, Cleaned, GoesOn
<1>7. c.product = b.product
  BY DEF Still
<1> QED
  BY ONLY <1>3, <1>4, <1>5, <1>6, <1>7, Like(b, c), Begins(c, o, t, k) DEF Begins, Like

\* A trace that is not begun, and a task that is no trace.
LEMMA NotBegunTrace ==
  ASSUME NEW b, NEW o, NotBegun(b, o), NEW t, NEW k
  PROVE  Begins(b, o, t, k)
  BY DEF NotBegun, TraceRight, Begins

\* dxp_end_control_task cleans up after a timeout.
LEMMA CleanedUp ==
  ASSUME NEW b \in BoardSet, NEW t \in Tasks, NEW w, TimesOut(b, w, t),
         NEW k, TraceRight(b, w, t, k), NEW e \in XmapEndControlTask(w.m)
  PROVE  (Cleaned(b, e) \/ TimesOut(b, e, t)) /\ TraceRight(b, e, t, k)
<1>1. w.m \in BoardSet
  BY DEF TimesOut, Still
<1>2. EndsTask(w.m, e) /\ (e.ok => e.m.hw = "idle")
  BY <1>1, XmapEndControlTaskIs
<1>3. Still(b, e.m)
  BY <1>2 DEF EndsTask, TimesOut, Still
<1>4. Cleaned(b, e) \/ TimesOut(b, e, t)
  <2>1. CASE e.ok
    <3>1. e.ok = TRUE /\ e.m.runType = "normal" /\ e.m.hw = "idle"
      BY <1>2, <2>1 DEF EndsTask
    <3> QED
      BY <1>3, <3>1 DEF TimesOut, Cleaned
  <2>2. CASE ~e.ok
    <3>1. e.ok = FALSE /\ e.m.runType = w.m.runType /\ e.m.hw \in {w.m.hw, "idle"}
      BY <1>2, <2>2 DEF EndsTask
    <3> QED
      BY <1>3, <3>1 DEF TimesOut
  <2> QED
    BY <2>1, <2>2
<1>5. TraceRight(b, e, t, k)
  <2> SUFFICES ASSUME Works(b), b.hw # "trace"
               PROVE  /\ t # "trace" => e.m.trace = b.trace
                      /\ t = "trace" /\ e.ok /\ b.hw = "idle" => e.m.trace = k
    BY DEF TraceRight
  <2>1. e.m.trace = w.m.trace
    BY <1>2 DEF EndsTask, TimesOut, Still, Works
  <2>2. b.hw # "idle"
    BY DEF TimesOut, MayGoWrong, Works
  <2> QED
    BY <2>1, <2>2 DEF TraceRight
<1> QED
  BY <1>4, <1>5

\* A task that has begun, the wait for its end, and the clean-up.
LEMMA BegunCleaned ==
  ASSUME NEW b \in BoardSet, b.site = "task", b.product \in {"xmap", "mercury"},
         NEW t \in {"trace", "dac"}, NEW c, Begun(b, c, t),
         NEW x \in XmapWaitForBusy(c),
         NEW o \in IF x.ok THEN {x} ELSE XmapEndControlTask(x.m)
  PROVE  Begins(b, o, t, b.kind)
<1>1. t \in Tasks /\ t # "scan" /\ t # "apply"
  BY DEF Tasks
<1>2. Waits(c, x)
  BY XmapWaitForBusyIs
<1>3. (Over(b, x) \/ TimesOut(b, x, t)) /\ TraceRight(b, x, t, b.kind)
  BY <1>1, <1>2, BegunWaits
<1>4. CASE Over(b, x)
  <2>1. o = x
    BY <1>4 DEF Over
  <2> QED
    BY <1>1, <1>3, <1>4, <2>1 DEF Begins
<1>5. CASE TimesOut(b, x, t)
  <2>1. o \in XmapEndControlTask(x.m)
    BY <1>5 DEF TimesOut
  <2>2. (Cleaned(b, o) \/ TimesOut(b, o, t)) /\ TraceRight(b, o, t, b.kind)
    BY <1>1, <1>3, <1>5, <2>1, CleanedUp
  <2> QED
    BY <1>1, <2>2 DEF Begins
<1> QED
  BY <1>3, <1>4, <1>5

\* A register access of a special run.
LEMMA RegTask ==
  ASSUME NEW b, b.site = "task", NEW n, NEW o \in Reg(b, n)
  PROVE  \/ o.ok = TRUE /\ o.m = n
         \/ o.ok = FALSE /\ o.m = b /\ "task" \in b.may
<1>1. \/ o.ok = TRUE /\ o.m = n
      \/ o.ok = FALSE /\ o.m = b /\ Breaks(b)
  BY RegIs
<1> QED
  BY <1>1 DEF Breaks

\* The parameters of a trace of the xMAP: as those of a special run on a board
\* whose TRACETYPE was written.
LEMMA XmapTraceIs ==
  ASSUME NEW b \in BoardSet, b.site = "task", NEW k \in Kinds,
         NEW o \in XmapTrace(b, k)
  PROVE  \/ NotBegun(b, o)
         \/ o.ok = TRUE /\ Prepared([b EXCEPT !.kind = k], o.m, "trace")
<1> DEFINE c == [b EXCEPT !.runType = "special"]
           d == [c EXCEPT !.kind = k]
           e == [d EXCEPT !.task = "trace"]
           G(n) == Reg(n, [n EXCEPT !.task = "trace"])
           F(l) == Then(Reg(l, [l EXCEPT !.kind = k]), G)
           E(r) == Then(Reg(r, [r EXCEPT !.runType = "special"]), F)
<1>1. o \in Then(Reg(b, b), E)
  BY DEF XmapTrace
<1>2. E(b) = Then(Reg(b, c), F) /\ F(c) = Then(Reg(c, d), G) /\ G(d) = Reg(d, e)
  OBVIOUS
<1>3. /\ Still(b, c) /\ SameResults(b, c) /\ c.runType = "special"
      /\ c.hw = b.hw /\ c.site = b.site /\ c.task = b.task /\ c.kind = b.kind
  BY RunTypeIs
<1> HIDE DEF E, F, G, c
<1>4. /\ Still(c, d) /\ SameResults(c, d) /\ d.runType = c.runType
      /\ d.hw = c.hw /\ d.site = c.site /\ d.kind = k
  BY <1>3 DEF Still, SameResults, BoardSet
<1> HIDE DEF d
<1>5. /\ Still(d, e) /\ SameResults(d, e) /\ e.runType = d.runType
      /\ e.hw = d.hw /\ e.site = d.site /\ e.task = "trace" /\ e.kind = d.kind
  BY <1>4 DEF Still, SameResults, BoardSet, Tasks
<1> HIDE DEF e
<1> DEFINE a == [b EXCEPT !.kind = k]
<1>6. /\ Like(b, a) /\ a.kind = k /\ a.fresh = b.fresh
  BY KindIs DEF BoardSet
<1> HIDE DEF a
<1>7. PICK w \in Reg(b, b) : o \in IF w.ok THEN E(w.m) ELSE {w}
  BY <1>1 DEF Then
<1>8. (w.ok = TRUE /\ w.m = b) \/ (w.ok = FALSE /\ w.m = b /\ "task" \in b.may)
  <2>1. w \in Reg(b, b)
    BY <1>7
  <2> QED
    BY ONLY <2>1, b.site = "task", RegTask
<1>9. CASE w.ok = FALSE
  BY <1>7, <1>8, <1>9 DEF NotBegun, Still
<1>10. CASE w.ok = TRUE
  <2>1. o \in Then(Reg(b, c), F)
    BY <1>2, <1>7, <1>8, <1>10
  <2>2. PICK x \in Reg(b, c) : o \in IF x.ok THEN F(x.m) ELSE {x}
    BY <2>1 DEF Then
  <2>3. (x.ok = TRUE /\ x.m = c) \/ (x.ok = FALSE /\ x.m = b /\ "task" \in b.may)
    <3>1. x \in Reg(b, c)
      BY <2>2
    <3> QED
      BY ONLY <3>1, b.site = "task", RegTask
  <2>4. CASE x.ok = FALSE
    BY <2>2, <2>3, <2>4 DEF NotBegun, Still
  <2>5. CASE x.ok = TRUE
    <3>1. o \in Then(Reg(c, d), G)
      BY <1>2, <2>2, <2>3, <2>5
    <3>2. PICK y \in Reg(c, d) : o \in IF y.ok THEN G(y.m) ELSE {y}
      BY <3>1 DEF Then
    <3>3. (y.ok = TRUE /\ y.m = d) \/ (y.ok = FALSE /\ y.m = c /\ "task" \in b.may)
      <4>1. y \in Reg(c, d) /\ c.site = "task" /\ c.may = b.may
        BY <1>3, <3>2 DEF Still
      <4>2. (y.ok = TRUE /\ y.m = d) \/ (y.ok = FALSE /\ y.m = c /\ "task" \in c.may)
        BY <4>1, RegTask
      <4> QED
        BY <4>1, <4>2
    <3>4. CASE y.ok = FALSE
      <4>1. o = y
        BY <3>2, <3>4
      <4> QED
        BY <1>3, <3>3, <3>4, <4>1 DEF NotBegun, Still, SameResults
    <3>5. CASE y.ok = TRUE
      <4>1. o \in Reg(d, e)
        BY <1>2, <3>2, <3>3, <3>5
      <4>2. (o.ok = TRUE /\ o.m = e) \/ (o.ok = FALSE /\ o.m = d /\ Breaks(d))
        BY <4>1, RegIs
      <4>3. CASE o.ok = FALSE
        BY <1>3, <1>4, <4>2, <4>3 DEF NotBegun, Still, SameResults, Breaks
      <4>4. CASE o.ok = TRUE
        <5>1. Prepared(a, e, "trace")
          BY <1>3, <1>4, <1>5, <1>6 DEF Prepared, Like, Still, SameResults
        <5> QED
          BY <4>2, <4>4, <5>1 DEF a
      <4> QED
        BY <4>2, <4>3, <4>4
    <3> QED
      BY <3>3, <3>4, <3>5
  <2> QED
    BY <2>3, <2>4, <2>5
<1> QED
  BY <1>8, <1>9, <1>10

\* dxp__do_trace of the xMAP.
LEMMA XmapDoTraceIs ==
  ASSUME NEW b \in BoardSet, b.site = "task", NEW k \in Kinds,
         NEW o \in XmapDoTrace(b, k), b.product = "xmap"
  PROVE  Begins(b, o, "trace", k)
<1> DEFINE C(l) == UNION {IF x.ok THEN {x} ELSE XmapEndControlTask(x.m) : x \in XmapWaitForBusy(l)}
           B(n) == Then(XmapBeginRun(n), C)
           outs == XmapTrace(b, k)
           c == [b EXCEPT !.kind = k]
<1>0. "trace" \in Tasks
  BY DEF Tasks
<1>1. o \in Then(outs, B)
  BY DEF XmapDoTrace
<1> HIDE DEF B, C
<1>2. PICK z \in outs : o \in IF z.ok THEN B(z.m) ELSE {z}
  BY <1>1 DEF Then
<1>3. NotBegun(b, z) \/ (z.ok = TRUE /\ Prepared(c, z.m, "trace"))
  BY <1>2, XmapTraceIs
<1>4. Like(b, c) /\ c \in BoardSet /\ c.kind = k
  BY KindIs
<1> HIDE DEF c
<1>5. c.site = "task" /\ c.product = "xmap"
  BY <1>4 DEF Like, Still
<1>6. CASE NotBegun(b, z)
  <2>1. o = z
    BY <1>2, <1>6 DEF NotBegun
  <2> QED
    BY <1>6, <2>1, NotBegunTrace
<1>7. CASE z.ok = TRUE /\ Prepared(c, z.m, "trace")
  <2> DEFINE bouts == XmapBeginRun(z.m)
  <2> SUFFICES Begins(c, o, "trace", k)
    BY <1>4, LikeBegins
  <2>1. o \in Then(bouts, C)
    BY <1>2, <1>7 DEF B
  <2>2. PICK y \in bouts : o \in IF y.ok THEN C(y.m) ELSE {y}
    BY <2>1 DEF Then
  <2>3. NotBegun(c, y) \/ (y.ok = TRUE /\ Begun(c, y.m, "trace"))
    BY <1>0, <1>4, <1>5, <1>7, <2>2, PreparedBegins
  <2>4. CASE NotBegun(c, y)
    <3>1. o = y
      BY <2>2, <2>4 DEF NotBegun
    <3> QED
      BY <2>4, <3>1, NotBegunTrace
  <2>5. CASE y.ok = TRUE /\ Begun(c, y.m, "trace")
    <3>1. o \in C(y.m)
      BY <2>2, <2>5
    <3>2. PICK x \in XmapWaitForBusy(y.m) : o \in IF x.ok THEN {x} ELSE XmapEndControlTask(x.m)
      BY <3>1 DEF C
    <3>3. x \in XmapWaitForBusy(y.m) /\ o \in IF x.ok THEN {x} ELSE XmapEndControlTask(x.m)
      BY <3>2
    <3>4. Begins(c, o, "trace", c.kind)
      BY <1>4, <1>5, <2>5, <3>3, BegunCleaned
    <3> QED
      BY <1>4, <3>4
  <2> QED
    BY <2>3, <2>4, <2>5
<1> QED
  BY <1>3, <1>6, <1>7

\* dxp__do_specialrun of the Mercury.
LEMMA MercuryDoSpecialrunIs ==
  ASSUME NEW b \in BoardSet, b.site = "task", NEW t \in {"trace", "dac"}, NEW o \in MercuryDoSpecialrun(b, t),
         b.product = "mercury"
  PROVE  Begins(b, o, t, b.kind)
<1> DEFINE C(l) == UNION {IF x.ok THEN {x} ELSE MercuryEndControlTask(x.m) : x \in MercuryWaitForBusy(l)}
           B(k) == Then(MercuryBeginRun(k), C)
           outs == XmapSpecial(b, t)
<1>0. t \in Tasks
  BY DEF Tasks
<1>1. o \in Then(outs, B)
  BY DEF MercuryDoSpecialrun
<1> HIDE DEF B, C
<1>2. PICK z \in outs : o \in IF z.ok THEN B(z.m) ELSE {z}
  BY <1>1 DEF Then
<1>3. NotBegun(b, z) \/ (z.ok = TRUE /\ Prepared(b, z.m, t))
  BY <1>0, <1>2, XmapSpecialIs
<1>4. CASE NotBegun(b, z)
  <2>1. o = z
    BY <1>2, <1>4 DEF NotBegun
  <2> QED
    BY <1>4, <2>1, NotBegunTrace
<1>5. CASE z.ok = TRUE /\ Prepared(b, z.m, t)
  <2> DEFINE bouts == MercuryBeginRun(z.m)
  <2>1. o \in Then(bouts, C)
    BY <1>2, <1>5 DEF B
  <2>2. PICK y \in bouts : o \in IF y.ok THEN C(y.m) ELSE {y}
    BY <2>1 DEF Then
  <2>3. NotBegun(b, y) \/ (y.ok = TRUE /\ Begun(b, y.m, t))
    BY <1>0, <1>5, <2>2, PreparedBegins DEF MercuryBeginRun
  <2>4. CASE NotBegun(b, y)
    <3>1. o = y
      BY <2>2, <2>4 DEF NotBegun
    <3> QED
      BY <2>4, <3>1, NotBegunTrace
  <2>5. CASE y.ok = TRUE /\ Begun(b, y.m, t)
    <3>1. o \in C(y.m)
      BY <2>2, <2>5
    <3>2. PICK x \in MercuryWaitForBusy(y.m) : o \in IF x.ok THEN {x} ELSE MercuryEndControlTask(x.m)
      BY <3>1 DEF C
    <3>3. x \in XmapWaitForBusy(y.m) /\ o \in IF x.ok THEN {x} ELSE XmapEndControlTask(x.m)
      BY <3>2, MercuryEndControlTaskIs DEF MercuryWaitForBusy
    <3> QED
      BY <2>5, <3>3, BegunCleaned
  <2> QED
    BY <2>3, <2>4, <2>5
<1> QED
  BY <1>3, <1>4, <1>5
\* dxp_begin_control_task of the xMAP: an apply, or TRACEWAIT and a trace.
LEMMA XmapBeginControlTaskIs ==
  ASSUME NEW b \in BoardSet, b.site = "task", b.product = "xmap",
         NEW t \in {"apply", "trace"}, NEW k \in Kinds,
         NEW o \in XmapBeginControlTask(b, t, k)
  PROVE  Begins(b, o, t, k)
<1>1. CASE t = "apply"
  <2>1. o \in XmapDoApply(b)
    BY <1>1 DEF XmapBeginControlTask
  <2> QED
    BY <1>1, <2>1, XmapDoApplyIs DEF Begins
<1>2. CASE t = "trace"
  <2> DEFINE F(l) == XmapDoTrace(l, k)
             outs == Reg(b, b)
  <2>1. o \in Then(outs, F)
    BY <1>2 DEF XmapBeginControlTask, XmapProcessTraceWait
  <2> HIDE DEF F
  <2>2. PICK z \in outs : o \in IF z.ok THEN F(z.m) ELSE {z}
    BY <2>1 DEF Then
  <2>3. (z.ok = TRUE /\ z.m = b) \/ (z.ok = FALSE /\ z.m = b /\ Breaks(b))
    BY <2>2, RegIs
  <2>4. CASE z.ok = FALSE
    <3>1. o = z
      BY <2>2, <2>4
    <3>2. NotBegun(b, o)
      BY <2>3, <2>4, <3>1 DEF NotBegun, Still, Breaks
    <3> QED
      BY <3>2, NotBegunTrace
  <2>5. CASE z.ok = TRUE
    <3>1. o \in XmapDoTrace(b, k)
      BY <2>2, <2>3, <2>5 DEF F
    <3> QED
      BY <1>2, <3>1, XmapDoTraceIs
  <2> QED
    BY <2>3, <2>4, <2>5
<1> QED
  BY <1>1, <1>2

\* That of the Mercury: an apply, TRACECHAN and a trace, or the calibration.
LEMMA MercuryBeginControlTaskIs ==
  ASSUME NEW b \in BoardSet, b.site = "task", b.product = "mercury",
         NEW t \in {"apply", "trace", "dac"},
         NEW o \in MercuryBeginControlTask(b, t)
  PROVE  Begins(b, o, t, b.kind)
<1>1. CASE t = "apply"
  <2>1. o \in XmapDoApply(b)
    BY <1>1 DEF MercuryBeginControlTask, MercuryDoApply
  <2> QED
    BY <1>1, <2>1, XmapDoApplyIs DEF Begins
<1>2. CASE t = "trace"
  <2> DEFINE F(l) == MercuryDoSpecialrun(l, "trace")
             outs == Reg(b, b)
  <2>1. o \in Then(outs, F)
    BY <1>2 DEF MercuryBeginControlTask, MercuryDoTrace
  <2> HIDE DEF F
  <2>2. PICK z \in outs : o \in IF z.ok THEN F(z.m) ELSE {z}
    BY <2>1 DEF Then
  <2>3. (z.ok = TRUE /\ z.m = b) \/ (z.ok = FALSE /\ z.m = b /\ Breaks(b))
    BY <2>2, RegIs
  <2>4. CASE z.ok = FALSE
    <3>1. o = z
      BY <2>2, <2>4
    <3>2. NotBegun(b, o)
      BY <2>3, <2>4, <3>1 DEF NotBegun, Still, Breaks
    <3> QED
      BY <3>2, NotBegunTrace
  <2>5. CASE z.ok = TRUE
    <3>1. o \in MercuryDoSpecialrun(b, "trace")
      BY <2>2, <2>3, <2>5 DEF F
    <3> QED
      BY <1>2, <3>1, MercuryDoSpecialrunIs
  <2> QED
    BY <2>3, <2>4, <2>5
<1>3. CASE t = "dac"
  <2>1. o \in MercuryDoSpecialrun(b, "dac")
    BY <1>3 DEF MercuryBeginControlTask, MercuryCalibrateRcTime
  <2> QED
    BY <1>3, <2>1, MercuryDoSpecialrunIs
<1> QED
  BY <1>1, <1>2, <1>3
\* dxp__start_special_run of the STJ.
LEMMA StjStartSpecialRunIs ==
  ASSUME NEW b \in BoardSet, b.site = "task", NEW t \in Tasks,
         NEW o \in StjStartSpecialRun(b, t)
  PROVE  NotBegun(b, o) \/ (o.ok = TRUE /\ Begun(b, o.m, t))
<1> DEFINE F(k) == StjBeginRun(k)
           outs == XmapSpecial(b, t)
<1>1. o \in Then(outs, F)
  BY DEF StjStartSpecialRun
<1> HIDE DEF F
<1>2. PICK z \in outs : o \in IF z.ok THEN F(z.m) ELSE {z}
  BY <1>1 DEF Then
<1>3. NotBegun(b, z) \/ (z.ok = TRUE /\ Prepared(b, z.m, t))
  BY <1>2, XmapSpecialIs
<1>4. CASE NotBegun(b, z)
  <2>1. o = z
    BY <1>2, <1>4 DEF NotBegun
  <2> QED
    BY <1>4, <2>1
<1>5. CASE z.ok = TRUE /\ Prepared(b, z.m, t)
  <2>1. o \in XmapBeginRun(z.m)
    BY <1>2, <1>5 DEF F, StjBeginRun
  <2> QED
    BY <1>5, <2>1, PreparedBegins
<1> QED
  BY <1>3, <1>4, <1>5

\* dxp__do_special_run of the STJ leaves a run that times out as it is.
LEMMA StjDoSpecialRunIs ==
  ASSUME NEW b \in BoardSet, b.site = "task", b.product = "stj",
         NEW t \in {"trace", "dac"}, NEW o \in StjDoSpecialRun(b, t)
  PROVE  Begins(b, o, t, b.kind)
<1> DEFINE F(k) == StjWaitForBusy(k)
           outs == StjStartSpecialRun(b, t)
<1>0. t \in Tasks /\ t # "scan" /\ t # "apply"
  BY DEF Tasks
<1>1. o \in Then(outs, F)
  BY DEF StjDoSpecialRun
<1> HIDE DEF F
<1>2. PICK z \in outs : o \in IF z.ok THEN F(z.m) ELSE {z}
  BY <1>1 DEF Then
<1>3. NotBegun(b, z) \/ (z.ok = TRUE /\ Begun(b, z.m, t))
  BY <1>0, <1>2, StjStartSpecialRunIs
<1>4. CASE NotBegun(b, z)
  <2>1. o = z
    BY <1>2, <1>4 DEF NotBegun
  <2> QED
    BY <1>4, <2>1, NotBegunTrace
<1>5. CASE z.ok = TRUE /\ Begun(b, z.m, t)
  <2>1. o \in XmapWaitForBusy(z.m)
    BY <1>2, <1>5 DEF F, StjWaitForBusy
  <2>2. Waits(z.m, o)
    BY <2>1, XmapWaitForBusyIs
  <2>3. (Over(b, o) \/ TimesOut(b, o, t)) /\ TraceRight(b, o, t, b.kind)
    BY <1>0, <1>5, <2>2, BegunWaits
  <2> QED
    BY <1>0, <2>3 DEF Begins
<1> QED
  BY <1>3, <1>4, <1>5

\* dxp_do_apply of the STJ: that a run is over is all it asks.
LEMMA StjDoApplyIs ==
  ASSUME NEW b \in BoardSet, b.site = "task", b.product = "stj",
         NEW o \in StjDoApply(b), NEW kind
  PROVE  Begins(b, o, "apply", kind)
<1> DEFINE F(k) == StjRunEnableActive(k)
           outs == StjStartSpecialRun(b, "apply")
<1>0. "apply" \in Tasks
  BY DEF Tasks
<1>1. o \in Then(outs, F)
  BY DEF StjDoApply
<1> HIDE DEF F
<1>2. PICK z \in outs : o \in IF z.ok THEN F(z.m) ELSE {z}
  BY <1>1 DEF Then
<1>3. NotBegun(b, z) \/ (z.ok = TRUE /\ Begun(b, z.m, "apply"))
  BY <1>0, <1>2, StjStartSpecialRunIs
<1>4. CASE NotBegun(b, z)
  <2>1. o = z
    BY <1>2, <1>4 DEF NotBegun
  <2> QED
    BY <1>4, <2>1, NotBegunTrace
<1>5. CASE z.ok = TRUE /\ Begun(b, z.m, "apply")
  <2> DEFINE n == z.m
             q == Completed(n)
  <2>1. o \in XmapRunEnableActive(n)
    BY <1>2, <1>5 DEF F, StjRunEnableActive
  <2>2. /\ Still(b, n) /\ n \in BoardSet /\ n.site = "task" /\ n.trace = b.trace
        /\ n.runType = "special" /\ n.hw = Executes(b, "apply")
    BY <1>5 DEF Begun, Still
  <2> HIDE DEF n
  <2>3. /\ Still(n, q) /\ SameTask(n, q) /\ q.hw = "idle"
        /\ n.hw # "trace" => q.trace = n.trace
    BY <2>2, CompletedIs
  <2>4. \/ o.ok = TRUE /\ o.m = q
        \/ /\ o.ok = FALSE /\ Still(n, o.m) /\ o.m.runType = n.runType
           /\ o.m.hw \in {n.hw, "idle"}
           /\ n.hw \in {"data", "scan"} \/ Breaks(n)
           /\ Works(n) /\ n.hw # "trace" => o.m.trace = n.trace
    BY <2>1, <2>2, XmapRunEnableActiveIs
  <2> HIDE DEF q
  <2>5. /\ Works(b) => Works(n)
        /\ b.hw # "trace" => n.hw # "trace"
        /\ n.hw \in {"data", "scan"} \/ Breaks(n) => MayGoWrong(b)
    BY <2>2 DEF Works, Still, Executes, Breaks, MayGoWrong
  <2>6. TraceRight(b, o, "apply", kind)
    BY <2>2, <2>3, <2>4, <2>5 DEF TraceRight
  <2>7. Over(b, o) \/ TimesOut(b, o, "apply")
    BY <2>2, <2>3, <2>4, <2>5 DEF Over, TimesOut, Still, SameTask
  <2> QED
    BY <2>6, <2>7 DEF Begins
<1> QED
  BY <1>3, <1>4, <1>5

\* TRACEWAIT and TRACETYPE of the STJ.
LEMMA StjProcessTraceParamIs ==
  ASSUME NEW b \in BoardSet, b.site = "task", NEW k \in Kinds,
         NEW o \in StjProcessTraceParam(b, k)
  PROVE  \/ NotBegun(b, o)
         \/ o.ok = TRUE /\ Like(b, o.m) /\ o.m \in BoardSet /\ o.m.kind = k
<1> DEFINE F(l) == Reg(l, [l EXCEPT !.kind = k])
           outs == Reg(b, b)
           c == [b EXCEPT !.kind = k]
<1>1. o \in Then(outs, F)
  BY DEF StjProcessTraceParam
<1> HIDE DEF F
<1>2. PICK z \in outs : o \in IF z.ok THEN F(z.m) ELSE {z}
  BY <1>1 DEF Then
<1>3. (z.ok = TRUE /\ z.m = b) \/ (z.ok = FALSE /\ z.m = b /\ Breaks(b))
  BY <1>2, RegIs
<1>4. Breaks(b) => "task" \in b.may
  BY DEF Breaks
<1>5. CASE z.ok = FALSE
  <2>1. o = z
    BY <1>2, <1>5
  <2> QED
    BY <1>3, <1>4, <1>5, <2>1 DEF NotBegun, Still
<1>6. CASE z.ok = TRUE
  <2>1. o \in Reg(b, c)
    BY <1>2, <1>3, <1>6 DEF F
  <2>2. Like(b, c) /\ c \in BoardSet /\ c.kind = k
    BY KindIs
  <2> HIDE DEF c
  <2>3. (o.ok = TRUE /\ o.m = c) \/ (o.ok = FALSE /\ o.m = b /\ Breaks(b))
    BY <2>1, RegIs
  <2> QED
    BY <1>4, <2>2, <2>3 DEF NotBegun, Still
<1> QED
  BY <1>3, <1>5, <1>6

\* dxp_begin_control_task of the STJ.
LEMMA StjBeginControlTaskIs ==
  ASSUME NEW b \in BoardSet, b.site = "task", b.product = "stj",
         NEW t \in {"apply", "trace", "scan", "dac"}, NEW k \in Kinds,
         NEW o \in StjBeginControlTask(b, t, k)
  PROVE  Begins(b, o, t, IF t = "trace" THEN k ELSE b.kind)
<1>1. CASE t = "apply"
  <2>1. o \in StjDoApply(b)
    BY <1>1 DEF StjBeginControlTask
  <2> QED
    BY <1>1, <2>1, StjDoApplyIs
<1>2. CASE t = "trace"
  <2> DEFINE outs == StjProcessTraceParam(b, k)
  <2>1. o \in Then(outs, StjDoTrace)
    BY <1>2 DEF StjBeginControlTask
  <2>2. PICK z \in outs : o \in IF z.ok THEN StjDoTrace(z.m) ELSE {z}
    BY <2>1 DEF Then
  <2>3. \/ NotBegun(b, z)
        \/ z.ok = TRUE /\ Like(b, z.m) /\ z.m \in BoardSet /\ z.m.kind = k
    BY <2>2, StjProcessTraceParamIs
  <2>4. CASE NotBegun(b, z)
    <3>1. o = z
      BY <2>2, <2>4 DEF NotBegun
    <3> QED
      BY <2>4, <3>1, NotBegunTrace
  <2>5. CASE z.ok = TRUE /\ Like(b, z.m) /\ z.m \in BoardSet /\ z.m.kind = k
    <3>1. o \in StjDoSpecialRun(z.m, "trace")
      BY <2>2, <2>5 DEF StjDoTrace
    <3>2. z.m.site = "task" /\ z.m.product = "stj"
      BY <2>5 DEF Like, Still
    <3>3. Begins(z.m, o, "trace", k)
      BY <2>5, <3>1, <3>2, StjDoSpecialRunIs
    <3> QED
      BY <1>2, <2>5, <3>3, LikeBegins
  <2> QED
    BY <2>3, <2>4, <2>5
<1>3. CASE t = "scan"
  <2>1. o \in StjStartSpecialRun(b, "scan")
    BY <1>3 DEF StjBeginControlTask, StjBiasScan
  <2>2. NotBegun(b, o) \/ (o.ok = TRUE /\ Begun(b, o.m, "scan"))
    BY <1>3, <2>1, StjStartSpecialRunIs DEF Tasks
  <2>3. Begins(b, o, "scan", b.kind)
    BY <2>2, NotBegunTrace DEF Begun, GoesOn, Begins
  <2> QED
    BY <1>3, <2>3
<1>4. CASE t = "dac"
  <2>1. o \in StjDoSpecialRun(b, "dac")
    BY <1>4 DEF StjBeginControlTask, StjBiasSetDac
  <2> QED
    BY <1>4, <2>1, StjDoSpecialRunIs
<1> QED
  BY <1>1, <1>2, <1>3, <1>4
\* A task of the Saturn: RUNTASKS, the parameters of the trace, WHICHTEST, the
\* run.  Nothing is waited for.
LEMMA SaturnBeginControlTaskIs ==
  ASSUME NEW b \in BoardSet, b.site = "task", b.product = "saturn",
         NEW t \in Tasks, NEW k \in Kinds,
         NEW o \in SaturnBeginControlTask(b, t, k)
  PROVE  Begins(b, o, t, k)
<1> DEFINE C(n) == SaturnBeginRun(n)
           B(l) == Then(Reg(l, [l EXCEPT !.task = t, !.kind = k]), C)
           A(q) == Then(Reg(q, q), B)
           c == [b EXCEPT !.runType = "special"]
           d == [[c EXCEPT !.task = t] EXCEPT !.kind = k]
           outs == Reg(b, c)
<1>1. o \in Then(outs, A)
  BY DEF SaturnBeginControlTask
<1>2. B(c) = Then(Reg(c, d), C)
  BY DEF B
<1> HIDE DEF A, B, C
<1>3. PICK z \in outs : o \in IF z.ok THEN A(z.m) ELSE {z}
  BY <1>1 DEF Then
<1>4. /\ Still(b, c) /\ SameResults(b, c) /\ c.runType = "special"
      /\ c.hw = b.hw /\ c.site = b.site
  BY RunTypeIs
<1>5. A(c) = Then(Reg(c, c), B)
  BY DEF A
<1>6. z \in Reg(b, c)
  BY <1>3
<1>7. Breaks(b) => "task" \in b.may
  BY DEF Breaks
<1>8. Breaks(c) => "task" \in b.may
  BY <1>4 DEF Breaks, Still
<1> DEFINE e == [c EXCEPT !.task = t]
<1> HIDE DEF c
<1>9. /\ Still(c, e) /\ e.trace = c.trace /\ e.hw = c.hw /\ e.site = c.site
      /\ e.runType = c.runType /\ e.task = t /\ e.fresh = c.fresh
  BY <1>4 DEF Still, BoardSet
<1>10. d = [e EXCEPT !.kind = k]
  OBVIOUS
<1> HIDE DEF e, d
<1>11. Like(e, d) /\ d \in BoardSet /\ d.kind = k /\ d.task = e.task /\ d.fresh = e.fresh
  BY <1>9, <1>10 DEF Like, Still, BoardSet
<1>12. (z.ok = TRUE /\ z.m = c) \/ (z.ok = FALSE /\ z.m = b /\ "task" \in b.may)
  BY <1>6, <1>7, RegIs
<1>13. \A x : x.ok = FALSE /\ x.m \in {b, c} /\ "task" \in b.may => NotBegun(b, x)
  BY <1>4 DEF NotBegun, Still, SameResults
<1>14. CASE z.ok = FALSE
  <2>1. o = z
    BY <1>3, <1>14
  <2> QED
    BY <1>12, <1>13, <1>14, <2>1, NotBegunTrace
<1>15. CASE z.ok = TRUE
  <2> DEFINE couts == Reg(c, c)
  <2>1. o \in Then(couts, B)
    BY <1>3, <1>5, <1>12, <1>15
  <2>2. PICK y \in couts : o \in IF y.ok THEN B(y.m) ELSE {y}
    BY <2>1 DEF Then
  <2>3. y \in Reg(c, c)
    BY <2>2
  <2>4. (y.ok = TRUE /\ y.m = c) \/ (y.ok = FALSE /\ y.m = c /\ "task" \in b.may)
    <3>1. (y.ok = TRUE /\ y.m = c) \/ (y.ok = FALSE /\ y.m = c /\ Breaks(c))
      BY ONLY <2>3, RegIs
    <3> QED
      BY <1>8, <3>1
  <2>5. CASE y.ok = FALSE
    <3>1. o = y
      BY <2>2, <2>5
    <3> QED
      BY <1>13, <2>4, <2>5, <3>1, NotBegunTrace
  <2>6. CASE y.ok = TRUE
    <3> DEFINE douts == Reg(c, d)
    <3>1. o \in Then(douts, C)
      BY <1>2, <2>2, <2>4, <2>6
    <3>2. PICK x \in douts : o \in IF x.ok THEN C(x.m) ELSE {x}
      BY <3>1 DEF Then
    <3>3. x \in Reg(c, d)
      BY <3>2
    <3>4. (x.ok = TRUE /\ x.m = d) \/ (x.ok = FALSE /\ x.m = c /\ "task" \in b.may)
      BY <1>8, <3>3, RegIs
    <3>5. CASE x.ok = FALSE
      <4>1. o = x
        BY <3>2, <3>5
      <4> QED
        BY <1>13, <3>4, <3>5, <4>1, NotBegunTrace
    <3>6. CASE x.ok = TRUE
      <4> DEFINE a == [b EXCEPT !.kind = k]
      <4>1. o \in XmapBeginRun(d)
        BY <3>2, <3>4, <3>6 DEF C, SaturnBeginRun, XmapBeginRun
      <4>2. Like(b, a) /\ a \in BoardSet /\ a.kind = k /\ a.fresh = b.fresh
        BY KindIs DEF BoardSet
      <4> HIDE DEF a
      <4>3. Prepared(a, d, t) /\ a.site = "task" /\ a.product = "saturn"
        BY <1>4, <1>9, <1>11, <4>2 DEF Prepared, Like, Still, SameResults
      <4>4. NotBegun(a, o) \/ (o.ok = TRUE /\ Begun(a, o.m, t))
        BY <4>1, <4>2, <4>3, PreparedBegins
      <4>5. Begins(a, o, t, k)
        <5>1. CASE NotBegun(a, o)
          BY <5>1, NotBegunTrace
        <5>2. CASE o.ok = TRUE /\ Begun(a, o.m, t)
          <6>1. GoesOn(a, o, t, k)
            BY <4>2, <5>2 DEF Begun, GoesOn
          <6> QED
            BY <4>3, <6>1 DEF Begins
        <5> QED
          BY <4>4, <5>1, <5>2
      <4> QED
        BY <4>2, <4>5, LikeBegins
    <3> QED
      BY <3>4, <3>5, <3>6
  <2> QED
    BY <2>4, <2>5, <2>6
<1> QED
  BY <1>12, <1>14, <1>15
\* The tasks that the PSL of a product begins.
TasksOf(product) ==
    CASE product = "xmap" -> {"apply", "trace"}
      [] product = "mercury" -> {"apply", "trace", "dac"}
      [] product = "stj" -> {"apply", "trace", "scan", "dac"}
      [] product = "saturn" -> {"trace", "relay"}

\* The kind of a trace does not matter to other tasks.
LEMMA NoTraceNoKind ==
  ASSUME NEW b, NEW o, NEW t, t # "trace", NEW k, NEW j, Begins(b, o, t, k)
  PROVE  Begins(b, o, t, j)
<1>1. TraceRight(b, o, t, k) => TraceRight(b, o, t, j)
  BY DEF TraceRight
<1>2. GoesOn(b, o, t, k) => GoesOn(b, o, t, j)
  BY DEF GoesOn
<1> QED
  BY <1>1, <1>2 DEF Begins

\* dxp_begin_control_task of each product.  The Mercury's takes the kind of a
\* trace that is in its parameters.
LEMMA BeginControlTaskIs ==
  ASSUME NEW b \in BoardSet, b.site = "task", NEW t \in TasksOf(b.product),
         NEW k \in Kinds, b.product = "mercury" /\ t = "trace" => k = b.kind,
         NEW o \in BeginControlTask(b, t, k)
  PROVE  Begins(b, o, t, k)
<1>1. b.product \in {"xmap", "mercury", "stj", "saturn"}
  BY DEF BoardSet
<1>2. CASE b.product = "xmap"
  <2>1. t \in {"apply", "trace"} /\ o \in XmapBeginControlTask(b, t, k)
    BY <1>2 DEF TasksOf, BeginControlTask
  <2> QED
    BY <1>2, <2>1, XmapBeginControlTaskIs
<1>3. CASE b.product = "mercury"
  <2>1. t \in {"apply", "trace", "dac"} /\ o \in MercuryBeginControlTask(b, t)
    BY <1>3 DEF TasksOf, BeginControlTask
  <2>2. Begins(b, o, t, b.kind)
    BY <1>3, <2>1, MercuryBeginControlTaskIs
  <2> QED
    BY <1>3, <2>2, NoTraceNoKind
<1>4. CASE b.product = "stj"
  <2>1. t \in {"apply", "trace", "scan", "dac"} /\ o \in StjBeginControlTask(b, t, k)
    BY <1>4 DEF TasksOf, BeginControlTask
  <2>2. Begins(b, o, t, IF t = "trace" THEN k ELSE b.kind)
    BY <1>4, <2>1, StjBeginControlTaskIs
  <2>3. CASE t = "trace"
    BY <2>2, <2>3
  <2>4. CASE t # "trace"
    BY <2>2, <2>4, NoTraceNoKind
  <2> QED
    BY <2>3, <2>4
<1>5. CASE b.product = "saturn"
  <2>1. t \in Tasks /\ o \in SaturnBeginControlTask(b, t, k)
    BY <1>5 DEF TasksOf, BeginControlTask, Tasks
  <2> QED
    BY <1>5, <2>1, SaturnBeginControlTaskIs
<1> QED
  BY <1>1, <1>2, <1>3, <1>4, <1>5

-----------------------------------------------------------------------------
(* Xerxes' bookkeeping of special runs. *)

\* Xerxes alone believes in a run: dxp_start_control_task refuses.
Taken(b) == b.hw = "idle" /\ (b.run \/ b.ctask # "none")

\* Xerxes remembers a task, or forgets it.
Marked(b, c, r, x) ==
    /\ c \in BoardSet /\ c.product = b.product /\ c.may = b.may
    /\ c.hw = b.hw /\ c.runType = b.runType /\ c.trace = b.trace
    /\ c.fresh = b.fresh /\ c.kind = b.kind /\ c.site = b.site
    /\ c.run = r /\ c.ctask = x

\* What dxp_start_control_task may do.
Starts(b, o, t, k) ==
    \/ o.ok = FALSE /\ o.m = b /\ (Taken(b) \/ "task" \in b.may)
    \/ /\ ~Taken(b)
       /\ \E z : /\ Begins(b, z, t, k) /\ z.ok \in BOOLEAN
                 /\ z.ok = FALSE => o = z
                 /\ z.ok = TRUE => o.ok = TRUE /\ Marked(z.m, o.m, TRUE, t)

\* What dxp_stop_control_task may do.
Stops(b, o) ==
    \E z : /\ EndsTask(b, z)
           /\ z.ok = FALSE => o = z
           /\ z.ok = TRUE => o.ok = TRUE /\ Marked(z.m, o.m, FALSE, "none")

\* The marks of Xerxes are set.
LEMMA MarkedIs ==
  ASSUME NEW b \in BoardSet, NEW r \in BOOLEAN, NEW x \in Tasks \cup {"none"}
  PROVE  Marked(b, [b EXCEPT !.run = r, !.ctask = x], r, x)
<1> DEFINE c == [b EXCEPT !.run = r]
<1>1. c \in BoardSet /\ Marked(b, c, r, b.ctask)
  BY DEF Marked, BoardSet
<1> DEFINE d == [c EXCEPT !.ctask = x]
<1>2. d = [b EXCEPT !.run = r, !.ctask = x]
  OBVIOUS
<1> HIDE DEF c
<1>3. Marked(c, d, r, x)
  BY <1>1 DEF Marked, BoardSet
<1> HIDE DEF d
<1> QED
  BY <1>1, <1>2, <1>3 DEF Marked

\* dxp_run_active of each product is an access.
LEMMA RunActiveIs ==
  ASSUME NEW b \in BoardSet, NEW o \in RunActive(b)
  PROVE  (o.ok = TRUE /\ o.m = b) \/ (o.ok = FALSE /\ o.m = b /\ b.site \in b.may)
<1>1. b.product \in {"xmap", "mercury", "stj", "saturn"}
  BY DEF BoardSet
<1>2. o \in Reg(b, b)
  BY <1>1 DEF RunActive, XmapRunActive, MercuryRunActive, StjRunActive, SaturnRunActive
<1>3. (o.ok = TRUE /\ o.m = b) \/ (o.ok = FALSE /\ o.m = b /\ Breaks(b))
  BY ONLY <1>2, RegIs
<1> QED
  BY <1>3 DEF Breaks

\* dxp_start_control_task.
LEMMA StartControlTaskIs ==
  ASSUME NEW b \in BoardSet, b.site = "task", NEW t \in TasksOf(b.product),
         NEW k \in Kinds, b.product = "mercury" /\ t = "trace" => k = b.kind,
         NEW o \in StartControlTask(b, t, k)
  PROVE  Starts(b, o, t, k)
<1> DEFINE M(l) == Done([l EXCEPT !.run = TRUE, !.ctask = t])
           F(a) == IF ~Active(a) /\ (a.run \/ a.ctask # "none") THEN Refused(a)
                   ELSE Then(BeginControlTask(a, t, k), M)
           outs == RunActive(b)
<1>1. o \in Then(outs, F)
  BY DEF StartControlTask
<1>2. F(b) = IF Taken(b) THEN Refused(b) ELSE Then(BeginControlTask(b, t, k), M)
  BY DEF F, Taken, Active
<1> HIDE DEF F, M
<1>3. PICK y \in outs : o \in IF y.ok THEN F(y.m) ELSE {y}
  BY <1>1 DEF Then
<1>4. (y.ok = TRUE /\ y.m = b) \/ (y.ok = FALSE /\ y.m = b /\ b.site \in b.may)
  BY <1>3, RunActiveIs
<1>5. CASE y.ok = FALSE
  <2>1. o = y
    BY <1>3, <1>5
  <2> QED
    BY <1>4, <1>5, <2>1 DEF Starts
<1>6. CASE y.ok = TRUE /\ Taken(b)
  <2>1. o \in Refused(b)
    BY <1>2, <1>3, <1>4, <1>6
  <2> QED
    BY <1>6, <2>1, RefusedIs DEF Starts
<1>7. CASE y.ok = TRUE /\ ~Taken(b)
  <2> DEFINE bouts == BeginControlTask(b, t, k)
  <2>1. o \in Then(bouts, M)
    BY <1>2, <1>3, <1>4, <1>7
  <2>2. PICK z \in bouts : o \in IF z.ok THEN M(z.m) ELSE {z}
    BY <2>1 DEF Then
  <2>3. Begins(b, z, t, k)
    BY <2>2, BeginControlTaskIs
  <2>4. z.ok \in BOOLEAN /\ z.m \in BoardSet
    BY <2>3 DEF Begins, NotBegun, TimesOut, Over, Cleaned, GoesOn, Still
  <2>5. z.ok = FALSE => o = z
    BY <2>2
  <2>6. ASSUME z.ok = TRUE
        PROVE  o.ok = TRUE /\ Marked(z.m, o.m, TRUE, t)
    <3>1. o \in Done([z.m EXCEPT !.run = TRUE, !.ctask = t])
      BY <2>2, <2>6 DEF M
    <3>2. t \in Tasks \cup {"none"}
      BY DEF TasksOf, Tasks, BoardSet
    <3>3. o.ok = TRUE /\ o.m = [z.m EXCEPT !.run = TRUE, !.ctask = t]
      BY ONLY <3>1, DoneIs
    <3> QED
      BY <2>4, <3>2, <3>3, MarkedIs, ZenonT(60)
  <2> QED
    BY <1>7, <2>3, <2>4, <2>5, <2>6 DEF Starts
<1> QED
  BY <1>4, <1>5, <1>6, <1>7

\* dxp_stop_control_task.
LEMMA StopControlTaskIs ==
  ASSUME NEW b \in BoardSet, NEW o \in StopControlTask(b)
  PROVE  Stops(b, o)
<1> DEFINE M(l) == Done([l EXCEPT !.run = FALSE, !.ctask = "none"])
           outs == EndControlTask(b)
<1>1. o \in Then(outs, M)
  BY DEF StopControlTask
<1> HIDE DEF M
<1>2. PICK z \in outs : o \in IF z.ok THEN M(z.m) ELSE {z}
  BY <1>1 DEF Then
<1>3. EndsTask(b, z)
  BY <1>2, EndControlTaskIs
<1>4. z.ok \in BOOLEAN /\ z.m \in BoardSet
  BY <1>3 DEF EndsTask, Still
<1>5. z.ok = FALSE => o = z
  BY <1>2
<1>6. ASSUME z.ok = TRUE
      PROVE  o.ok = TRUE /\ Marked(z.m, o.m, FALSE, "none")
  <2>1. o \in Done([z.m EXCEPT !.run = FALSE, !.ctask = "none"])
    BY <1>2, <1>6 DEF M
  <2>2. o.ok = TRUE /\ o.m = [z.m EXCEPT !.run = FALSE, !.ctask = "none"]
    BY ONLY <2>1, DoneIs
  <2> QED
    BY <1>4, <2>2, MarkedIs
<1> QED
  BY <1>3, <1>5, <1>6 DEF Stops
-----------------------------------------------------------------------------
(* The PSLs: special runs. *)

\* No call changes the product, or where the hardware may fail.
Kept(b, c) == c \in BoardSet /\ c.product = b.product /\ c.may = b.may

Believed(c) == c.run = TRUE /\ c.ctask # "none"

\* What the call o of the application may do with a special run of task t, by
\* the actions of RunControl.
Refuses(b, x) ==
    /\ x.ok = FALSE /\ Taken(b)
    /\ x.m.hw = b.hw /\ x.m.run = b.run /\ x.m.ctask = b.ctask
    /\ x.m.runType = b.runType
Finishes(b, x, o) ==
    /\ x.ok = TRUE /\ o # "scan" /\ (o = "trace" => b.product = "mercury")
    /\ o = "apply" /\ b.product \in {"xmap", "mercury"} => b.hw # "data"
    /\ x.m.hw = "idle" /\ x.m.runType = "normal"
    /\ x.m.run = FALSE /\ x.m.ctask = "none"
IsNotStopped(b, x, o) ==
    /\ x.ok = FALSE /\ "stop" \in b.may /\ o # "scan"
    /\ x.m.hw = "idle" /\ Believed(x.m)
Unseen(b, x, o) ==
    /\ x.ok = TRUE /\ b.product = "xmap" /\ o \notin {"apply", "scan"}
    /\ MayGoWrong(b)
    /\ x.m.hw = "idle" /\ x.m.runType = "normal" /\ Believed(x.m)
IsToBeRead(b, x, o) ==
    /\ x.ok = TRUE /\ b.product # "mercury" /\ o = "trace"
    /\ x.m.hw = "idle" /\ x.m.runType = "special" /\ Believed(x.m)
SaturnTimesOut(b, x, o, t) ==
    /\ x.ok = FALSE /\ b.product = "saturn" /\ o # "scan" /\ MayGoWrong(b)
    /\ x.m.hw \in {"idle", Executes(b, t)} /\ x.m.runType = "special"
    /\ Believed(x.m)
Scans(b, x, o, t) ==
    /\ x.ok = TRUE /\ b.product = "stj" /\ o = "scan"
    /\ x.m.hw = Executes(b, t) /\ x.m.runType = "special" /\ Believed(x.m)

TaskResult(b, x, o, t) ==
    \/ Refuses(b, x)
    \/ /\ ~Taken(b)
       /\ \/ NotBegun(b, x)
          \/ b.product # "saturn" /\ o # "scan" /\ TimesOut(b, x, t)
          \/ Finishes(b, x, o) \/ IsNotStopped(b, x, o)
          \/ Unseen(b, x, o) \/ IsToBeRead(b, x, o)
          \/ SaturnTimesOut(b, x, o, t) \/ Scans(b, x, o, t)

\* A call's outcome x: what it does to the run and to the trace.
TaskEffect(b, x, o, t, k) ==
    /\ x.ok \in BOOLEAN /\ Kept(b, x.m)
    /\ TaskResult(b, x, o, t) /\ TraceRight(b, x, t, k)

\* A special run that has not been started.
LEMMA StartFails ==
  ASSUME NEW b \in BoardSet, NEW t, NEW k, NEW o, Starts(b, o, t, k), o.ok # TRUE,
         NEW name, name = "scan" => t = "scan"
  PROVE  TaskEffect(b, o, name, t, k)
<1>1. CASE o.ok = FALSE /\ o.m = b /\ (Taken(b) \/ "task" \in b.may)
  <2>1. Kept(b, o.m) /\ TraceRight(b, o, t, k)
    BY <1>1 DEF Kept, TraceRight
  <2>2. CASE Taken(b)
    BY <1>1, <2>1, <2>2 DEF TaskEffect, TaskResult, Refuses
  <2>3. CASE ~Taken(b)
    <3>1. NotBegun(b, o)
      BY <1>1, <2>3 DEF NotBegun, Still
    <3> QED
      BY <1>1, <2>1, <2>3, <3>1 DEF TaskEffect, TaskResult
  <2> QED
    BY <2>2, <2>3
<1>2. CASE /\ ~Taken(b)
           /\ \E z : /\ Begins(b, z, t, k) /\ z.ok \in BOOLEAN
                     /\ z.ok = FALSE => o = z
                     /\ z.ok = TRUE => o.ok = TRUE /\ Marked(z.m, o.m, TRUE, t)
  <2>1. PICK z : /\ Begins(b, z, t, k) /\ z.ok \in BOOLEAN
                 /\ z.ok = FALSE => o = z
                 /\ z.ok = TRUE => o.ok = TRUE
    BY <1>2
  <2>2. o = z /\ o.ok = FALSE /\ Begins(b, o, t, k)
    BY <2>1
  <2>3. TraceRight(b, o, t, k)
    BY <2>2 DEF Begins, GoesOn
  <2>4. NotBegun(b, o) \/ (b.product # "saturn" /\ t # "scan" /\ TimesOut(b, o, t))
    BY <2>2 DEF Begins, Over, Cleaned, GoesOn
  <2>5. Kept(b, o.m)
    BY <2>4 DEF NotBegun, TimesOut, Still, Kept
  <2> QED
    BY <1>2, <2>2, <2>3, <2>4, <2>5 DEF TaskEffect, TaskResult
<1> QED
  BY <1>1, <1>2 DEF Starts

\* One that has: it is over, or was cleaned up, or goes on.
IsOver(b, o, t, k) ==
    /\ b.product # "saturn" /\ t # "scan" /\ TraceRight(b, o, t, k)
    /\ t = "apply" /\ b.product \in {"xmap", "mercury"} => b.hw # "data" /\ o.m.fresh
    /\ o.m.runType = "special" /\ o.m.hw = "idle"
WasCleaned(b, o, t, k) ==
    /\ b.product \in {"xmap", "mercury"} /\ t # "apply" /\ MayGoWrong(b)
    /\ TraceRight(b, o, t, k)
    /\ o.m.runType = "normal" /\ o.m.hw = "idle"
IsGoingOn(b, o, t, k) ==
    /\ b.product = "saturn" \/ t = "scan"
    /\ o.m.trace = b.trace /\ o.m.site = b.site
    /\ o.m.hw = Executes(b, t) /\ o.m.runType = "special"
    /\ t = "trace" => o.m.kind = k

\* A special run that has been started.
LEMMA StartSucceeds ==
  ASSUME NEW b \in BoardSet, NEW t \in Tasks, NEW k, NEW o, Starts(b, o, t, k),
         o.ok = TRUE
  PROVE  /\ ~Taken(b) /\ Kept(b, o.m) /\ o.m.run = TRUE /\ o.m.ctask = t
         /\ Believed(o.m)
         /\ IsOver(b, o, t, k) \/ WasCleaned(b, o, t, k) \/ IsGoingOn(b, o, t, k)
<1>1. PICK z : /\ Begins(b, z, t, k) /\ z.ok \in BOOLEAN
               /\ z.ok = FALSE => o = z
               /\ z.ok = TRUE => o.ok = TRUE /\ Marked(z.m, o.m, TRUE, t)
  BY DEF Starts
<1>2. ~Taken(b)
  BY DEF Starts
<1>3. z.ok = TRUE /\ Marked(z.m, o.m, TRUE, t)
  BY <1>1
<1>4. Still(b, z.m)
  BY <1>1, <1>3 DEF Begins, NotBegun, Over, Cleaned, GoesOn, TimesOut
<1>5. /\ Kept(b, o.m) /\ o.m.run = TRUE /\ o.m.ctask = t
      /\ Believed(o.m)
  BY <1>3, <1>4 DEF Marked, Kept, Still, Believed, Tasks
<1>6. /\ o.m.hw = z.m.hw /\ o.m.runType = z.m.runType /\ o.m.trace = z.m.trace
      /\ o.m.fresh = z.m.fresh /\ o.m.kind = z.m.kind /\ o.m.site = z.m.site
  BY <1>3 DEF Marked
<1>7. TraceRight(b, z, t, k) => TraceRight(b, o, t, k)
  BY <1>3, <1>6 DEF TraceRight
<1>8. ~NotBegun(b, z) /\ ~TimesOut(b, z, t)
  BY <1>3 DEF NotBegun, TimesOut
<1>9. CASE GoesOn(b, z, t, k) /\ (b.product = "saturn" \/ t = "scan")
  BY <1>2, <1>5, <1>6, <1>9 DEF GoesOn, IsGoingOn
<1>10. CASE b.product \in {"xmap", "mercury"} /\ t # "apply" /\ Cleaned(b, z)
  <2>1. TraceRight(b, z, t, k)
    BY <1>1, <1>3, <1>10 DEF Begins, Cleaned, GoesOn
  <2> QED
    BY <1>2, <1>5, <1>6, <1>7, <1>10, <2>1 DEF Cleaned, WasCleaned
<1>11. CASE /\ b.product # "saturn" /\ t # "scan" /\ Over(b, z)
            /\ t = "apply" /\ b.product \in {"xmap", "mercury"} =>
                  b.hw # "data" /\ z.m.fresh
  <2>1. TraceRight(b, z, t, k) \/ GoesOn(b, z, t, k)
    BY <1>1 DEF Begins
  <2>2. TraceRight(b, z, t, k)
    <3>1. CASE GoesOn(b, z, t, k)
      <4>1. z.m.trace = b.trace /\ z.m.hw = Executes(b, t) /\ z.m.hw = "idle"
        BY <1>11, <3>1 DEF GoesOn, Over
      <4>2. FALSE
        BY <4>1 DEF Executes, Tasks
      <4> QED
        BY <4>2
    <3> QED
      BY <2>1, <3>1
  <2> QED
    BY <1>2, <1>5, <1>6, <1>7, <1>11, <2>2 DEF Over, IsOver
<1> QED
  BY <1>1, <1>8, <1>9, <1>10, <1>11 DEF Begins

\* A special run that is stopped as soon as it is over.
LEMMA StoppedAtOnce ==
  ASSUME NEW b \in BoardSet, b.product # "saturn", NEW t \in Tasks, t # "scan",
         NEW k, NEW z, Starts(b, z, t, k),
         NEW o \in IF z.ok THEN StopControlTask(z.m) ELSE {z}, z.ok \in BOOLEAN,
         NEW name, name # "scan", name = "trace" => b.product = "mercury",
         name = "apply" => t = "apply"
  PROVE  /\ TaskEffect(b, o, name, t, k)
         /\ o.ok /\ t = "apply" /\ b.product \in {"xmap", "mercury"} => o.m.fresh
<1>1. CASE z.ok = FALSE
  <2>1. o = z
    BY <1>1
  <2> QED
    BY <1>1, <2>1, StartFails
<1>2. CASE z.ok = TRUE
  <2>1. PICK y : /\ EndsTask(z.m, y)
                 /\ y.ok = FALSE => o = y
                 /\ y.ok = TRUE => o.ok = TRUE /\ Marked(y.m, o.m, FALSE, "none")
    <3>1. z.m \in BoardSet
      BY <1>2, StartSucceeds DEF Kept
    <3>2. Stops(z.m, o)
      BY <1>2, <3>1, StopControlTaskIs
    <3> QED
      BY <3>2 DEF Stops
  <2>2. /\ ~Taken(b) /\ Kept(b, z.m) /\ Believed(z.m) /\ z.m.hw = "idle"
        /\ TraceRight(b, z, t, k)
        /\ t = "apply" /\ b.product \in {"xmap", "mercury"} => b.hw # "data" /\ z.m.fresh
    <3>1. ~Taken(b) /\ Kept(b, z.m) /\ Believed(z.m)
      BY <1>2, StartSucceeds
    <3>2. IsOver(b, z, t, k) \/ WasCleaned(b, z, t, k) \/ IsGoingOn(b, z, t, k)
      BY <1>2, StartSucceeds
    <3> QED
      BY <3>1, <3>2 DEF IsOver, WasCleaned, IsGoingOn
  <2>3. y.ok \in BOOLEAN /\ Still(z.m, y.m) /\ y.m.hw = "idle" /\ (z.m.fresh => y.m.fresh)
    BY <2>1, <2>2 DEF EndsTask
  <2>4. Kept(b, y.m)
    BY <2>2, <2>3 DEF Kept, Still
  <2>5. TraceRight(b, y, t, k)
    <3> SUFFICES ASSUME Works(b), b.hw # "trace"
                 PROVE  /\ t # "trace" => y.m.trace = b.trace
                        /\ t = "trace" /\ y.ok /\ b.hw = "idle" => y.m.trace = k
      BY DEF TraceRight
    <3>1. y.m.trace = z.m.trace
      BY <2>1, <2>2 DEF EndsTask, Works, Kept
    <3> QED
      BY <1>2, <2>2, <3>1 DEF TraceRight
  <2>6. CASE y.ok = FALSE
    <3>1. o = y /\ "stop" \in b.may /\ Believed(o.m) /\ o.m.hw = "idle"
      BY <2>1, <2>2, <2>3, <2>6 DEF EndsTask, Kept, Still, Believed
    <3>2. IsNotStopped(b, o, name)
      BY <2>6, <3>1 DEF IsNotStopped
    <3> QED
      BY <2>2, <2>4, <2>5, <2>6, <3>1, <3>2 DEF TaskEffect, TaskResult
  <2>7. CASE y.ok = TRUE
    <3>1. o.ok = TRUE /\ Marked(y.m, o.m, FALSE, "none") /\ y.m.runType = "normal"
      BY <2>1, <2>7 DEF EndsTask
    <3>2. Kept(b, o.m)
      BY <2>4, <3>1 DEF Marked, Kept
    <3>3. TraceRight(b, o, t, k)
      BY <2>5, <2>7, <3>1 DEF TraceRight, Marked
    <3>4. Finishes(b, o, name)
      BY <2>2, <2>3, <3>1 DEF Finishes, Marked
    <3>5. t = "apply" /\ b.product \in {"xmap", "mercury"} => o.m.fresh
      BY <2>2, <2>3, <3>1 DEF Marked
    <3> QED
      BY <2>2, <3>1, <3>2, <3>3, <3>4, <3>5 DEF TaskEffect, TaskResult
  <2> QED
    BY <2>3, <2>6, <2>7
<1> QED
  BY <1>1, <1>2
\* BUSY of the Saturn is polled after a task has been started.
LEMMA SaturnWaitsIs ==
  ASSUME NEW b \in BoardSet, b.site = "task", b.product = "saturn",
         NEW t \in {"trace", "relay"}, NEW k \in Kinds,
         NEW o \in SaturnDoControlTaskWithoutStop(b, t, k),
         NEW name, name # "scan"
  PROVE  \/ o.ok = FALSE /\ TaskEffect(b, o, name, t, k)
         \/ /\ o.ok = TRUE /\ ~Taken(b) /\ Kept(b, o.m) /\ Believed(o.m)
            /\ o.m.hw = "idle" /\ o.m.runType = "special" /\ TraceRight(b, o, t, k)
<1> DEFINE F(l) == {[ok |-> p.over, m |-> p.m] : p \in Polled(l)} \cup PollBreaks(l)
           outs == StartControlTask(b, t, k)
<1>1. o \in Then(outs, F)
  BY DEF SaturnDoControlTaskWithoutStop
<1> HIDE DEF F
<1>2. PICK z \in outs : o \in IF z.ok THEN F(z.m) ELSE {z}
  BY <1>1 DEF Then
<1>3. t \in TasksOf(b.product) /\ t \in Tasks /\ t # "scan" /\ t # "apply"
  BY DEF TasksOf, Tasks
<1>4. Starts(b, z, t, k)
  BY <1>2, <1>3, StartControlTaskIs
<1>5. z.ok \in BOOLEAN
  BY <1>4 DEF Starts
<1>6. CASE z.ok = FALSE
  <2>1. o = z
    BY <1>2, <1>6
  <2> QED
    BY <1>3, <1>4, <1>6, <2>1, StartFails
<1>7. CASE z.ok = TRUE
  <2> DEFINE n == z.m
             q == Completed(n)
  <2>1. /\ ~Taken(b) /\ Kept(b, n) /\ Believed(n)
        /\ IsOver(b, z, t, k) \/ WasCleaned(b, z, t, k) \/ IsGoingOn(b, z, t, k)
    BY <1>3, <1>4, <1>7, StartSucceeds
  <2>2. IsGoingOn(b, z, t, k)
    BY <2>1 DEF IsOver, WasCleaned
  <2>3. o \in F(n)
    BY <1>2, <1>7
  <2>4. /\ n \in BoardSet /\ n.trace = b.trace /\ n.site = "task"
        /\ n.hw = Executes(b, t) /\ n.runType = "special"
        /\ t = "trace" => n.kind = k
    BY <2>1, <2>2 DEF IsGoingOn, Kept
  <2> HIDE DEF n
  <2>5. /\ Still(n, q) /\ SameTask(n, q) /\ q.hw = "idle"
        /\ q.trace = IF n.hw = "trace" THEN n.kind ELSE n.trace
    BY <2>4, CompletedIs
  <2> HIDE DEF q
  <2>6. \/ o.ok = TRUE /\ o.m = q
        \/ /\ o.ok = FALSE /\ o.m \in {n, q}
           /\ n.hw \in {"data", "scan"} \/ Breaks(n)
    <3>1. CASE o \in PollBreaks(n)
      BY <3>1, PollBreaksIs DEF q
    <3>2. CASE o \in {[ok |-> p.over, m |-> p.m] : p \in Polled(n)}
      <4>1. PICK p \in Polled(n) : o = [ok |-> p.over, m |-> p.m]
        BY <3>2
      <4>2. o.ok = p.over /\ o.m = p.m
        BY <4>1
      <4> QED
        BY <4>2, PolledIs DEF q
    <3> QED
      BY <2>3, <3>1, <3>2 DEF F
  <2>7. n.hw \in {"data", "scan"} \/ Breaks(n) => MayGoWrong(b)
    BY <2>1, <2>4 DEF Executes, Breaks, MayGoWrong, Kept
  <2>8. Kept(b, q) /\ Believed(q) /\ q.runType = "special"
    BY <2>1, <2>4, <2>5 DEF Kept, Believed, Still, SameTask
  <2>9. TraceRight(b, o, t, k)
    <3> SUFFICES ASSUME Works(b), b.hw # "trace"
                 PROVE  /\ t # "trace" => o.m.trace = b.trace
                        /\ t = "trace" /\ o.ok /\ b.hw = "idle" => o.m.trace = k
      BY DEF TraceRight
    <3> QED
      BY <2>4, <2>5, <2>6 DEF Executes
  <2>10. CASE o.ok = TRUE
    BY <2>1, <2>5, <2>6, <2>8, <2>9, <2>10
  <2>11. CASE o.ok = FALSE
    <3>1. /\ o.m \in {n, q} /\ MayGoWrong(b)
          /\ o.m.hw \in {"idle", Executes(b, t)} /\ o.m.runType = "special"
          /\ Kept(b, o.m) /\ Believed(o.m)
      BY <2>1, <2>4, <2>5, <2>6, <2>7, <2>8, <2>11
    <3>2. SaturnTimesOut(b, o, name, t)
      BY <2>11, <3>1 DEF SaturnTimesOut
    <3> QED
      BY <2>1, <2>9, <2>11, <3>1, <3>2 DEF TaskEffect, TaskResult
  <2> QED
    BY <2>6, <2>10, <2>11
<1> QED
  BY <1>5, <1>6, <1>7

\* pslDoADCTrace of the Saturn: the task waits for its data to be read.
LEMMA SaturnDoADCTraceIs ==
  ASSUME NEW b \in BoardSet, b.site = "task", b.product = "saturn",
         NEW o \in SaturnDoADCTrace(b)
  PROVE  TaskEffect(b, o, "trace", "trace", "adc")
<1>1. \/ o.ok = FALSE /\ TaskEffect(b, o, "trace", "trace", "adc")
      \/ /\ o.ok = TRUE /\ ~Taken(b) /\ Kept(b, o.m) /\ Believed(o.m)
         /\ o.m.hw = "idle" /\ o.m.runType = "special" /\ TraceRight(b, o, "trace", "adc")
  BY SaturnWaitsIs DEF SaturnDoADCTrace, Kinds
<1>2. CASE o.ok = FALSE
  BY <1>1, <1>2
<1>3. CASE o.ok = TRUE
  <2>1. IsToBeRead(b, o, "trace")
    BY <1>1, <1>3 DEF IsToBeRead
  <2> QED
    BY <1>1, <1>3, <2>1 DEF TaskEffect, TaskResult
<1> QED
  BY <1>1, <1>2, <1>3

\* pslDoControlTask of the Saturn stops the task.
LEMMA SaturnDoControlTaskIs ==
  ASSUME NEW b \in BoardSet, b.site = "task", b.product = "saturn",
         NEW o \in SaturnDoControlTask(b, "relay")
  PROVE  TaskEffect(b, o, "apply", "relay", b.kind)
<1> DEFINE F(l) == StopControlTask(l)
           outs == SaturnDoControlTaskWithoutStop(b, "relay", b.kind)
<1>1. o \in Then(outs, F)
  BY DEF SaturnDoControlTask
<1> HIDE DEF F
<1>2. PICK z \in outs : o \in IF z.ok THEN F(z.m) ELSE {z}
  BY <1>1 DEF Then
<1>3. b.kind \in Kinds
  BY DEF BoardSet
<1>4. \/ z.ok = FALSE /\ TaskEffect(b, z, "apply", "relay", b.kind)
      \/ /\ z.ok = TRUE /\ ~Taken(b) /\ Kept(b, z.m) /\ Believed(z.m)
         /\ z.m.hw = "idle" /\ z.m.runType = "special"
         /\ TraceRight(b, z, "relay", b.kind)
  BY <1>2, <1>3, SaturnWaitsIs
<1>5. CASE z.ok = FALSE
  <2>1. o = z
    BY <1>2, <1>5
  <2> QED
    BY <1>4, <1>5, <2>1
<1>6. CASE z.ok = TRUE
  <2>1. z.m \in BoardSet /\ o \in StopControlTask(z.m)
    BY <1>2, <1>4, <1>6 DEF F, Kept
  <2>2. Stops(z.m, o)
    BY <2>1, StopControlTaskIs
  <2>3. PICK y : /\ EndsTask(z.m, y)
                 /\ y.ok = FALSE => o = y
                 /\ y.ok = TRUE => o.ok = TRUE /\ Marked(y.m, o.m, FALSE, "none")
    BY <2>2 DEF Stops
  <2>4. y.ok \in BOOLEAN /\ Still(z.m, y.m) /\ y.m.hw = "idle"
    BY <1>4, <1>6, <2>3 DEF EndsTask
  <2>5. Kept(b, y.m)
    BY <1>4, <1>6, <2>4 DEF Kept, Still
  <2>6. TraceRight(b, y, "relay", b.kind)
    BY <1>4, <1>6, <2>3 DEF TraceRight, EndsTask, Works, Kept
  <2>7. CASE y.ok = FALSE
    <3>1. o = y /\ "stop" \in b.may /\ Believed(o.m) /\ o.m.hw = "idle"
      BY <1>4, <1>6, <2>3, <2>4, <2>7 DEF EndsTask, Kept, Still, Believed
    <3>2. IsNotStopped(b, o, "apply")
      BY <2>7, <3>1 DEF IsNotStopped
    <3> QED
      BY <1>4, <1>6, <2>5, <2>6, <2>7, <3>1, <3>2 DEF TaskEffect, TaskResult
  <2>8. CASE y.ok = TRUE
    <3>1. o.ok = TRUE /\ Marked(y.m, o.m, FALSE, "none") /\ y.m.runType = "normal"
      BY <2>3, <2>8 DEF EndsTask
    <3>2. Kept(b, o.m) /\ TraceRight(b, o, "relay", b.kind)
      BY <2>5, <2>6, <3>1 DEF Marked, Kept, TraceRight
    <3>3. Finishes(b, o, "apply")
      BY <2>4, <3>1 DEF Finishes, Marked
    <3> QED
      BY <1>4, <1>6, <3>1, <3>2, <3>3 DEF TaskEffect, TaskResult
  <2> QED
    BY <2>4, <2>7, <2>8
<1> QED
  BY <1>4, <1>5, <1>6
\* The parameters of a trace do not matter for what its call does.
LEMMA LikeEffect ==
  ASSUME NEW b, NEW c, Like(b, c), NEW x, NEW o, NEW t, NEW k,
         TaskEffect(c, x, o, t, k)
  PROVE  TaskEffect(b, x, o, t, k)
<1>1. /\ c.product = b.product /\ c.may = b.may /\ c.run = b.run /\ c.ctask = b.ctask
      /\ c.trace = b.trace /\ c.hw = b.hw /\ c.runType = b.runType
  BY DEF Like, Still
<1>2. /\ Executes(c, t) = Executes(b, t) /\ (MayGoWrong(c) <=> MayGoWrong(b))
      /\ (Taken(c) <=> Taken(b)) /\ (Still(c, x.m) => Still(b, x.m))
  BY <1>1 DEF Executes, MayGoWrong, Taken, Still
<1>3. TraceRight(c, x, t, k) => TraceRight(b, x, t, k)
  BY <1>1 DEF TraceRight, Works
<1>4. /\ NotBegun(c, x) => NotBegun(b, x)
      /\ TimesOut(c, x, t) => TimesOut(b, x, t)
      /\ Refuses(c, x) => Refuses(b, x)
  BY <1>1, <1>2 DEF NotBegun, TimesOut, Refuses
<1>5. /\ Finishes(c, x, o) => Finishes(b, x, o)
      /\ IsNotStopped(c, x, o) => IsNotStopped(b, x, o)
      /\ Unseen(c, x, o) => Unseen(b, x, o)
      /\ IsToBeRead(c, x, o) => IsToBeRead(b, x, o)
  BY <1>1, <1>2 DEF Finishes, IsNotStopped, Unseen, IsToBeRead
<1>6. /\ SaturnTimesOut(c, x, o, t) => SaturnTimesOut(b, x, o, t)
      /\ Scans(c, x, o, t) => Scans(b, x, o, t)
  BY <1>1, <1>2 DEF SaturnTimesOut, Scans
<1>7. Kept(c, x.m) => Kept(b, x.m)
  BY <1>1 DEF Kept
<1>8. TaskResult(c, x, o, t) => TaskResult(b, x, o, t)
  BY <1>1, <1>2, <1>4, <1>5, <1>6 DEF TaskResult
<1> QED
  BY <1>3, <1>7, <1>8 DEF TaskEffect

\* A task of the xMAP, the Mercury and the STJ that is over when it has begun.
LEMMA TaskOnceIs ==
  ASSUME NEW b \in BoardSet, b.site = "task", b.product # "saturn",
         NEW t \in TasksOf(b.product), t \in {"apply", "dac"},
         NEW o \in TaskOnce(b, t), NEW name \in {"apply", "task"},
         name = "apply" => t = "apply"
  PROVE  /\ TaskEffect(b, o, name, t, b.kind)
         /\ o.ok /\ t = "apply" /\ b.product \in {"xmap", "mercury"} => o.m.fresh
<1> DEFINE F(l) == StopControlTask(l)
           outs == StartControlTask(b, t, b.kind)
<1>1. o \in Then(outs, F)
  BY DEF TaskOnce
<1> HIDE DEF F
<1>2. PICK z \in outs : o \in IF z.ok THEN F(z.m) ELSE {z}
  BY <1>1 DEF Then
<1>3. b.kind \in Kinds /\ t \in Tasks /\ t # "scan"
  BY DEF BoardSet, Tasks
<1>4. Starts(b, z, t, b.kind)
  BY <1>2, <1>3, StartControlTaskIs
<1>5. z.ok \in BOOLEAN
  BY <1>4 DEF Starts
<1>6. o \in IF z.ok THEN StopControlTask(z.m) ELSE {z}
  BY <1>2 DEF F
<1>7. name # "scan" /\ name # "trace"
  OBVIOUS
<1> QED
  BY <1>3, <1>4, <1>5, <1>6, <1>7, StoppedAtOnce

\* A trace of the xMAP and the STJ stays begun until its data are read.
LEMMA WaitingTrace ==
  ASSUME NEW b \in BoardSet, b.site = "task", b.product \in {"xmap", "stj"},
         NEW k \in Kinds, NEW o \in StartControlTask(b, "trace", k)
  PROVE  TaskEffect(b, o, "trace", "trace", k)
<1>1. "trace" \in TasksOf(b.product) /\ "trace" \in Tasks /\ b.product # "mercury"
  BY DEF TasksOf, Tasks
<1>2. Starts(b, o, "trace", k)
  BY <1>1, StartControlTaskIs
<1>3. o.ok \in BOOLEAN
  BY <1>2 DEF Starts
<1>4. CASE o.ok = FALSE
  BY <1>2, <1>4, StartFails
<1>5. CASE o.ok = TRUE
  <2>1. /\ ~Taken(b) /\ Kept(b, o.m) /\ Believed(o.m)
        /\ IsOver(b, o, "trace", k) \/ WasCleaned(b, o, "trace", k)
           \/ IsGoingOn(b, o, "trace", k)
    BY <1>1, <1>2, <1>5, StartSucceeds
  <2>2. CASE IsOver(b, o, "trace", k)
    <3>1. IsToBeRead(b, o, "trace") /\ TraceRight(b, o, "trace", k)
      BY <1>1, <1>5, <2>1, <2>2 DEF IsToBeRead, IsOver
    <3> QED
      BY <1>5, <2>1, <3>1 DEF TaskEffect, TaskResult
  <2>3. CASE WasCleaned(b, o, "trace", k)
    <3>1. Unseen(b, o, "trace") /\ TraceRight(b, o, "trace", k)
      BY <1>1, <1>5, <2>1, <2>3 DEF Unseen, WasCleaned
    <3> QED
      BY <1>5, <2>1, <3>1 DEF TaskEffect, TaskResult
  <2> QED
    BY <2>1, <2>2, <2>3 DEF IsGoingOn
<1> QED
  BY <1>3, <1>4, <1>5

\* That of the Mercury is stopped at once: TRACEWAIT and TRACETYPE, then the task.
LEMMA MercuryDoTracePslIs ==
  ASSUME NEW b \in BoardSet, b.site = "task", b.product = "mercury",
         NEW k \in Kinds, NEW o \in MercuryDoTracePsl(b, k)
  PROVE  TaskEffect(b, o, "trace", "trace", k)
<1> DEFINE C(n) == StopControlTask(n)
           B(l) == Then(StartControlTask(l, "trace", k), C)
           A(l) == Then(Reg(l, [l EXCEPT !.kind = k]), B)
           c == [b EXCEPT !.kind = k]
           outs == Reg(b, b)
<1>1. o \in Then(outs, A)
  BY DEF MercuryDoTracePsl
<1>2. A(b) = Then(Reg(b, c), B)
  BY DEF A
<1> HIDE DEF A, B, C
<1>3. PICK z \in outs : o \in IF z.ok THEN A(z.m) ELSE {z}
  BY <1>1 DEF Then
<1>4. (z.ok = TRUE /\ z.m = b) \/ (z.ok = FALSE /\ z.m = b /\ Breaks(b))
  BY <1>3, RegIs
<1>5. \A x : x.ok = FALSE /\ x.m = b /\ Breaks(b) => TaskEffect(b, x, "trace", "trace", k)
  <2> SUFFICES ASSUME NEW x, x.ok = FALSE, x.m = b, Breaks(b)
               PROVE  TaskEffect(b, x, "trace", "trace", k)
    OBVIOUS
  <2>1. Starts(b, x, "trace", k)
    BY DEF Starts, Breaks
  <2> QED
    BY <2>1, StartFails
<1>6. CASE z.ok = FALSE
  <2>1. o = z
    BY <1>3, <1>6
  <2> QED
    BY <1>4, <1>5, <1>6, <2>1
<1>7. CASE z.ok = TRUE
  <2> DEFINE couts == Reg(b, c)
  <2>1. o \in Then(couts, B)
    BY <1>2, <1>3, <1>4, <1>7
  <2>2. PICK y \in couts : o \in IF y.ok THEN B(y.m) ELSE {y}
    BY <2>1 DEF Then
  <2>3. y \in Reg(b, c)
    BY <2>2
  <2>4. Like(b, c) /\ c \in BoardSet /\ c.kind = k
    BY KindIs
  <2> HIDE DEF c
  <2>5. (y.ok = TRUE /\ y.m = c) \/ (y.ok = FALSE /\ y.m = b /\ Breaks(b))
    BY ONLY <2>3, RegIs
  <2>6. CASE y.ok = FALSE
    <3>1. o = y
      BY <2>2, <2>6
    <3> QED
      BY <1>5, <2>5, <2>6, <3>1
  <2>7. CASE y.ok = TRUE
    <3> DEFINE souts == StartControlTask(c, "trace", k)
    <3>1. o \in Then(souts, C)
      BY <2>2, <2>5, <2>7 DEF B
    <3>2. PICK x \in souts : o \in IF x.ok THEN C(x.m) ELSE {x}
      BY <3>1 DEF Then
    <3>3. c.site = "task" /\ c.product = "mercury"
      BY <2>4 DEF Like, Still
    <3>4. "trace" \in TasksOf(c.product) /\ "trace" \in Tasks
      BY <3>3 DEF TasksOf, Tasks
    <3>5. Starts(c, x, "trace", k)
      BY <2>4, <3>2, <3>3, <3>4, StartControlTaskIs
    <3>6. x.ok \in BOOLEAN
      BY <3>5 DEF Starts
    <3>7. o \in IF x.ok THEN StopControlTask(x.m) ELSE {x}
      BY <3>2 DEF C
    <3>8. TaskEffect(c, o, "trace", "trace", k)
      BY <2>4, <3>3, <3>4, <3>5, <3>6, <3>7, StoppedAtOnce
    <3> QED
      BY <2>4, <3>8, LikeEffect
  <2> QED
    BY <2>5, <2>6, <2>7
<1> QED
  BY <1>4, <1>6, <1>7
\* The offsets of the STJ and the Mercury: a parameter, then the task.
LEMMA AdjustOffsetsIs ==
  ASSUME NEW b \in BoardSet, b.site = "task", b.product \in {"mercury", "stj"},
         NEW o \in StjAdjustOffsets(b) \cup MercuryAdjustOffsets(b)
  PROVE  TaskEffect(b, o, "task", "dac", b.kind)
<1> DEFINE F(l) == TaskOnce(l, "dac")
           outs == Reg(b, b)
<1>1. o \in Then(outs, F)
  BY DEF StjAdjustOffsets, MercuryAdjustOffsets
<1> HIDE DEF F
<1>2. PICK z \in outs : o \in IF z.ok THEN F(z.m) ELSE {z}
  BY <1>1 DEF Then
<1>3. (z.ok = TRUE /\ z.m = b) \/ (z.ok = FALSE /\ z.m = b /\ Breaks(b))
  BY <1>2, RegIs
<1>4. CASE z.ok = FALSE
  <2>1. o = z
    BY <1>2, <1>4
  <2>2. Starts(b, o, "dac", b.kind)
    BY <1>3, <1>4, <2>1 DEF Starts, Breaks
  <2> QED
    BY <1>4, <2>1, <2>2, StartFails
<1>5. CASE z.ok = TRUE
  <2>1. o \in TaskOnce(b, "dac")
    BY <1>2, <1>3, <1>5 DEF F
  <2>2. "dac" \in TasksOf(b.product) /\ b.product # "saturn"
    BY DEF TasksOf
  <2> QED
    BY <2>1, <2>2, TaskOnceIs
<1> QED
  BY <1>3, <1>4, <1>5

\* The "apply" board operation of each product; the Saturn's is its relay.
ApplyTask(product) == IF product = "saturn" THEN "relay" ELSE "apply"

\* An apply of any driver runs the task it is for or fails; where it succeeds, the xMAP and the Mercury have applied.
LEMMA ApplyTasksIs ==
  ASSUME NEW b \in BoardSet, b.site = "task", NEW o \in ApplyTasks(b)
  PROVE  /\ TaskEffect(b, o, "apply", ApplyTask(b.product), b.kind)
         /\ o.ok /\ b.product \in {"xmap", "mercury"} => o.m.fresh
<1>1. b.product \in {"xmap", "mercury", "stj", "saturn"}
  BY DEF BoardSet
<1>2. CASE b.product = "saturn"
  <2>1. o \in SaturnDoControlTask(b, "relay")
    BY <1>2 DEF ApplyTasks
  <2> QED
    BY <1>2, <2>1, SaturnDoControlTaskIs DEF ApplyTask
<1>3. CASE b.product # "saturn"
  <2>1. o \in TaskOnce(b, "apply")
    BY <1>1, <1>3 DEF ApplyTasks, XmapApply, MercuryApply, StjApply
  <2>2. "apply" \in TasksOf(b.product)
    BY <1>1, <1>3 DEF TasksOf
  <2> QED
    BY <1>3, <2>1, <2>2, TaskOnceIs DEF ApplyTask
<1> QED
  BY <1>2, <1>3

\* The other special runs that are stopped at once.
LEMMA OtherTasksIs ==
  ASSUME NEW b \in BoardSet, b.site = "task", NEW o \in OtherTasks(b)
  PROVE  TaskEffect(b, o, "task", "dac", b.kind)
<1>1. b.product \in {"mercury", "stj"}
  BY DEF OtherTasks
<1>2. "dac" \in TasksOf(b.product) /\ b.product # "saturn"
  BY <1>1 DEF TasksOf
<1>3. CASE o \in TaskOnce(b, "dac")
  BY <1>2, <1>3, TaskOnceIs
<1>4. CASE o \in StjAdjustOffsets(b) \cup MercuryAdjustOffsets(b)
  BY <1>1, <1>4, AdjustOffsetsIs
<1> QED
  BY <1>1, <1>3, <1>4 DEF OtherTasks, StjSetBiasDac, MercuryCalibrateRc

\* psl__BeginBiasScan of the STJ.
LEMMA BeginBiasScanIs ==
  ASSUME NEW b \in BoardSet, b.site = "task", b.product = "stj",
         NEW o \in StjBeginBiasScan(b)
  PROVE  TaskEffect(b, o, "scan", "scan", b.kind)
<1>1. "scan" \in TasksOf(b.product) /\ "scan" \in Tasks /\ b.kind \in Kinds
  BY DEF TasksOf, Tasks, BoardSet
<1>2. Starts(b, o, "scan", b.kind)
  BY <1>1, StartControlTaskIs DEF StjBeginBiasScan
<1>3. o.ok \in BOOLEAN
  BY <1>2 DEF Starts
<1>4. CASE o.ok = FALSE
  BY <1>2, <1>4, StartFails
<1>5. CASE o.ok = TRUE
  <2>1. /\ ~Taken(b) /\ Kept(b, o.m) /\ Believed(o.m)
        /\ IsOver(b, o, "scan", b.kind) \/ WasCleaned(b, o, "scan", b.kind)
           \/ IsGoingOn(b, o, "scan", b.kind)
    BY <1>1, <1>2, <1>5, StartSucceeds
  <2>2. IsGoingOn(b, o, "scan", b.kind)
    BY <2>1 DEF IsOver, WasCleaned
  <2>3. Scans(b, o, "scan", "scan") /\ TraceRight(b, o, "scan", b.kind)
    BY <1>5, <2>1, <2>2 DEF Scans, IsGoingOn, TraceRight
  <2> QED
    BY <1>5, <2>1, <2>3 DEF TaskEffect, TaskResult
<1> QED
  BY <1>3, <1>4, <1>5

\* The traces of each product; the Saturn has one kind.
LEMMA DoTraceIs ==
  ASSUME NEW b \in BoardSet, b.site = "task", NEW k \in Kinds,
         b.product = "saturn" => k = "adc", NEW o \in DoTrace(b, k)
  PROVE  TaskEffect(b, o, "trace", "trace", k)
<1>1. b.product \in {"xmap", "mercury", "stj", "saturn"}
  BY DEF BoardSet
<1>2. CASE b.product = "saturn"
  BY <1>2, SaturnDoADCTraceIs DEF DoTrace
<1>3. CASE b.product = "mercury"
  BY <1>3, MercuryDoTracePslIs DEF DoTrace
<1>4. CASE b.product \in {"xmap", "stj"}
  <2>1. o \in StartControlTask(b, "trace", k)
    BY <1>4 DEF DoTrace, XmapDoTracePsl, StjDoTracePsl
  <2> QED
    BY <1>4, <2>1, WaitingTrace
<1> QED
  BY <1>1, <1>2, <1>3, <1>4

-----------------------------------------------------------------------------
(* The PSLs: the data of a special run. *)

\* What reading them may do: the task is stopped and its data are read, unless
\* the board cannot be reached any more; or it is not stopped.
ReadEffect(b, o) ==
    /\ o.ok \in BOOLEAN /\ Kept(b, o.m)
    /\ Works(b) /\ b.hw # "trace" => o.m.trace = b.trace
    /\ \/ /\ b.product \in {"mercury", "saturn"} => b.hw = "idle"
          /\ o.m.hw = "idle" /\ o.m.runType = "normal"
          /\ o.m.run = FALSE /\ o.m.ctask = "none"
          /\ o.ok \/ "stop" \in b.may
       \/ /\ o.ok = FALSE
          /\ \/ "task" \in b.may \/ "stop" \in b.may
             \/ b.product \in {"mercury", "saturn"} /\ b.hw # "idle"
          /\ o.m.run = b.run /\ o.m.ctask = b.ctask /\ o.m.runType = b.runType
          /\ o.m.hw = b.hw \/ ("stop" \in b.may /\ o.m.hw = "idle")

\* The task is stopped.
LEMMA StopReads ==
  ASSUME NEW b \in BoardSet, b.product \in {"mercury", "saturn"} => b.hw = "idle",
         NEW o \in StopControlTask(b)
  PROVE  ReadEffect(b, o) /\ (o.ok => o.m.hw = "idle" /\ o.m.site = "stop")
<1>1. PICK y : /\ EndsTask(b, y)
               /\ y.ok = FALSE => o = y
               /\ y.ok = TRUE => o.ok = TRUE /\ Marked(y.m, o.m, FALSE, "none")
  BY StopControlTaskIs DEF Stops
<1>2. /\ y.ok \in BOOLEAN /\ Still(b, y.m) /\ y.m.hw \in {b.hw, "idle"}
      /\ y.m.site = "stop" /\ (y.ok = FALSE => "stop" \in b.may)
      /\ Works(b) => y.m.trace = b.trace
      /\ y.ok = TRUE => y.m.hw = "idle" /\ y.m.runType = "normal"
      /\ y.ok = FALSE => y.m.runType = b.runType
  <2>1. y.ok = TRUE => y.m.hw = "idle"
    BY <1>1 DEF EndsTask, BoardSet
  <2> QED
    BY <1>1, <2>1 DEF EndsTask, Works
<1>3. CASE y.ok = FALSE
  BY <1>1, <1>2, <1>3 DEF ReadEffect, Kept, Still
<1>4. CASE y.ok = TRUE
  BY <1>1, <1>2, <1>4 DEF ReadEffect, Kept, Still, Marked
<1> QED
  BY <1>2, <1>3, <1>4

\* dxp_get_control_task_data refuses while the board is active.
LEMMA GetControlTaskDataIs ==
  ASSUME NEW b \in BoardSet, NEW o \in GetControlTaskData(b)
  PROVE  /\ o.m = b
         /\ \/ o.ok = TRUE /\ b.hw = "idle"
            \/ o.ok = FALSE /\ (b.hw # "idle" \/ b.site \in b.may)
<1> DEFINE F(k) == IF Active(k) THEN Refused(k) ELSE ControlTaskData(k)
           outs == RunActive(b)
<1>1. o \in Then(outs, F)
  BY DEF GetControlTaskData
<1>2. F(b) = IF b.hw # "idle" THEN Refused(b) ELSE ControlTaskData(b)
  BY DEF F, Active
<1> HIDE DEF F
<1>3. PICK y \in outs : o \in IF y.ok THEN F(y.m) ELSE {y}
  BY <1>1 DEF Then
<1>4. (y.ok = TRUE /\ y.m = b) \/ (y.ok = FALSE /\ y.m = b /\ b.site \in b.may)
  BY <1>3, RunActiveIs
<1>5. CASE y.ok = FALSE
  <2>1. o = y
    BY <1>3, <1>5
  <2> QED
    BY <1>4, <1>5, <2>1
<1>6. CASE y.ok = TRUE /\ b.hw # "idle"
  <2>1. o \in Refused(b)
    BY <1>2, <1>3, <1>4, <1>6
  <2> QED
    BY <1>6, <2>1, RefusedIs
<1>7. CASE y.ok = TRUE /\ b.hw = "idle"
  <2>1. o \in ControlTaskData(b)
    BY <1>2, <1>3, <1>4, <1>7
  <2>2. b.product \in {"xmap", "mercury", "stj", "saturn"}
    BY DEF BoardSet
  <2>3. o \in Reg(b, b)
    BY <2>1, <2>2 DEF ControlTaskData, XmapControlTaskData, MercuryControlTaskData,
       StjControlTaskData, SaturnControlTaskData, XmapGetAdcTrace, MercuryGetAdcTrace,
       StjGetAdcTrace
  <2>4. (o.ok = TRUE /\ o.m = b) \/ (o.ok = FALSE /\ o.m = b /\ Breaks(b))
    BY ONLY <2>3, RegIs
  <2> QED
    BY <1>7, <2>4 DEF Breaks
<1> QED
  BY <1>4, <1>5, <1>6, <1>7

\* The trace of the xMAP and the STJ: the task is stopped, then read.
LEMMA StopThenRead ==
  ASSUME NEW b \in BoardSet, b.product \in {"xmap", "stj"},
         NEW o \in XmapGetADCTrace(b) \cup StjGetADCTrace(b)
  PROVE  ReadEffect(b, o)
<1> DEFINE F(k) == GetControlTaskData(k)
           outs == StopControlTask(b)
<1>1. o \in Then(outs, F)
  BY DEF XmapGetADCTrace, StjGetADCTrace
<1> HIDE DEF F
<1>2. PICK y \in outs : o \in IF y.ok THEN F(y.m) ELSE {y}
  BY <1>1 DEF Then
<1>3. ReadEffect(b, y) /\ (y.ok => y.m.hw = "idle" /\ y.m.site = "stop")
  BY <1>2, StopReads
<1>4. y.ok \in BOOLEAN /\ y.m \in BoardSet /\ y.m.may = b.may
  BY <1>3 DEF ReadEffect, Kept
<1>5. CASE y.ok = FALSE
  <2>1. o = y
    BY <1>2, <1>5
  <2> QED
    BY <1>3, <2>1
<1>6. CASE y.ok = TRUE
  <2>1. o \in GetControlTaskData(y.m)
    BY <1>2, <1>6 DEF F
  <2>2. o.m = y.m /\ (o.ok = TRUE \/ (o.ok = FALSE /\ "stop" \in b.may))
    BY <1>3, <1>4, <1>6, <2>1, GetControlTaskDataIs
  <2> QED
    BY <1>3, <1>4, <1>6, <2>2 DEF ReadEffect
<1> QED
  BY <1>4, <1>5, <1>6

\* That of the Mercury and the Saturn: it is read, then the task is stopped.
LEMMA ReadThenStop ==
  ASSUME NEW b \in BoardSet, b.site = "task", b.product \in {"mercury", "saturn"},
         NEW o \in MercuryGetADCTrace(b) \cup SaturnGetControlTaskDataWithStop(b)
  PROVE  ReadEffect(b, o)
<1> DEFINE F(k) == StopControlTask(k)
           outs == GetControlTaskData(b)
<1>1. o \in Then(outs, F)
  BY DEF MercuryGetADCTrace, SaturnGetControlTaskDataWithStop
<1> HIDE DEF F
<1>2. PICK y \in outs : o \in IF y.ok THEN F(y.m) ELSE {y}
  BY <1>1 DEF Then
<1>3. /\ y.m = b
      /\ \/ y.ok = TRUE /\ b.hw = "idle"
         \/ y.ok = FALSE /\ (b.hw # "idle" \/ "task" \in b.may)
  BY <1>2, GetControlTaskDataIs
<1>4. CASE y.ok = FALSE
  <2>1. o = y
    BY <1>2, <1>4
  <2> QED
    BY <1>3, <1>4, <2>1 DEF ReadEffect, Kept
<1>5. CASE y.ok = TRUE
  <2>1. o \in StopControlTask(b) /\ b.hw = "idle"
    BY <1>2, <1>3, <1>5 DEF F
  <2> QED
    BY <2>1, StopReads
<1> QED
  BY <1>3, <1>4, <1>5

\* Reading a trace of each product.
LEMMA GetTraceIs ==
  ASSUME NEW b \in BoardSet, b.site = "task", NEW o \in GetTrace(b)
  PROVE  ReadEffect(b, o)
<1>1. b.product \in {"xmap", "mercury", "stj", "saturn"}
  BY DEF BoardSet
<1>2. CASE b.product \in {"xmap", "stj"}
  <2>1. o \in XmapGetADCTrace(b) \cup StjGetADCTrace(b)
    BY <1>2 DEF GetTrace
  <2> QED
    BY <1>2, <2>1, StopThenRead
<1>3. CASE b.product \in {"mercury", "saturn"}
  <2>1. o \in MercuryGetADCTrace(b) \cup SaturnGetControlTaskDataWithStop(b)
    BY <1>3 DEF GetTrace
  <2> QED
    BY <1>3, <2>1, ReadThenStop
<1> QED
  BY <1>1, <1>2, <1>3

-----------------------------------------------------------------------------
(* Data runs. *)

\* What dxp_start_one_run may do: nothing, because a layer knows of a run or the
\* hardware fails, or set Run Enable and remember the run.
StartEffect(b, o) ==
    \/ /\ o.ok = FALSE /\ Kept(b, o.m)
       /\ b.hw # "idle" \/ b.run \/ b.ctask # "none" \/ "start" \in b.may
       /\ o.m.hw = b.hw /\ o.m.runType = b.runType /\ o.m.trace = b.trace
       /\ o.m.run = b.run /\ o.m.ctask = b.ctask
    \/ /\ o.ok = TRUE /\ Kept(b, o.m)
       /\ b.hw = "idle" /\ b.run = FALSE /\ b.ctask = "none"
       /\ o.m.hw = (IF b.runType = "normal" THEN "data" ELSE b.task)
       /\ o.m.runType = b.runType /\ o.m.trace = b.trace
       /\ o.m.run = TRUE /\ o.m.ctask = b.ctask

\* dxp_begin_run of each product.
LEMMA BeginRunIs ==
  ASSUME NEW b \in BoardSet, NEW o \in BeginRun(b)
  PROVE  BeginsRun(b, o)
<1>1. b.product \in {"xmap", "mercury", "stj", "saturn"}
  BY DEF BoardSet
<1>2. SaturnBeginRun(b) = XmapBeginRun(b)
  BY DEF SaturnBeginRun, XmapBeginRun
<1>3. o \in XmapBeginRun(b)
  BY <1>1, <1>2 DEF BeginRun, MercuryBeginRun, StjBeginRun
<1> QED
  BY <1>3, XmapBeginRunIs

\* Xerxes remembers the run, or forgets it.
LEMMA RunMarkedIs ==
  ASSUME NEW b \in BoardSet, NEW r \in BOOLEAN
  PROVE  LET c == [b EXCEPT !.run = r] IN
         /\ Kept(b, c) /\ c.run = r /\ c.ctask = b.ctask /\ c.hw = b.hw
         /\ c.runType = b.runType /\ c.trace = b.trace /\ c.site = b.site
  BY DEF Kept, BoardSet

\* dxp_start_one_run.
LEMMA StartOneRunIs ==
  ASSUME NEW b \in BoardSet, b.site = "start", NEW o \in StartOneRun(b)
  PROVE  StartEffect(b, o)
<1> DEFINE M(l) == Done([l EXCEPT !.run = TRUE])
           F(k) == IF Active(k) \/ k.run \/ k.ctask # "none" THEN Refused(k)
                   ELSE Then(BeginRun(k), M)
           outs == RunActive(b)
<1>1. o \in Then(outs, F)
  BY DEF StartOneRun
<1>2. F(b) = IF b.hw # "idle" \/ b.run \/ b.ctask # "none" THEN Refused(b)
             ELSE Then(BeginRun(b), M)
  BY DEF F, Active
<1> HIDE DEF F, M
<1>3. PICK y \in outs : o \in IF y.ok THEN F(y.m) ELSE {y}
  BY <1>1 DEF Then
<1>4. (y.ok = TRUE /\ y.m = b) \/ (y.ok = FALSE /\ y.m = b /\ "start" \in b.may)
  BY <1>3, RunActiveIs
<1>5. \A x : x.ok = FALSE /\ x.m = b
               /\ (b.hw # "idle" \/ b.run \/ b.ctask # "none" \/ "start" \in b.may)
             => StartEffect(b, x)
  BY DEF StartEffect, Kept
<1>6. CASE y.ok = FALSE
  <2>1. o = y
    BY <1>3, <1>6
  <2> QED
    BY <1>4, <1>5, <1>6, <2>1
<1>7. CASE y.ok = TRUE /\ (b.hw # "idle" \/ b.run \/ b.ctask # "none")
  <2>1. o \in Refused(b)
    BY <1>2, <1>3, <1>4, <1>7
  <2>2. o.ok = FALSE /\ o.m = b
    BY ONLY <2>1, RefusedIs
  <2> QED
    BY <1>5, <1>7, <2>2
<1>8. CASE y.ok = TRUE /\ ~(b.hw # "idle" \/ b.run \/ b.ctask # "none")
  <2> DEFINE bouts == BeginRun(b)
  <2>1. o \in Then(bouts, M)
    BY <1>2, <1>3, <1>4, <1>8
  <2>2. PICK z \in bouts : o \in IF z.ok THEN M(z.m) ELSE {z}
    BY <2>1 DEF Then
  <2>3. BeginsRun(b, z)
    BY <2>2, BeginRunIs
  <2>4. CASE z.ok = FALSE
    <3>1. o = z
      BY <2>2, <2>4
    <3>2. o.ok = FALSE /\ o.m = b /\ "start" \in b.may
      BY <2>3, <2>4, <3>1 DEF BeginsRun, Breaks
    <3> QED
      BY <1>5, <3>2
  <2>5. CASE z.ok = TRUE
    <3> DEFINE c == RunEnabled(b)
               d == [c EXCEPT !.run = TRUE]
    <3>1. z.m = c
      BY <2>3, <2>5 DEF BeginsRun
    <3>2. /\ Still(b, c) /\ SameTask(b, c) /\ SameResults(b, c)
          /\ b.hw = "idle" => c.hw = IF b.runType = "normal" THEN "data" ELSE b.task
      BY RunEnabledIs
    <3>3. o \in Done(d)
      BY <2>2, <2>5, <3>1 DEF M
    <3> HIDE DEF c
    <3>4. /\ Kept(c, d) /\ d.run = TRUE /\ d.ctask = c.ctask /\ d.hw = c.hw
          /\ d.runType = c.runType /\ d.trace = c.trace
      BY <3>2, RunMarkedIs DEF Still
    <3> HIDE DEF d
    <3>5. o.ok = TRUE /\ o.m = d
      BY ONLY <3>3, DoneIs
    <3>6. b.hw = "idle" /\ b.run = FALSE /\ b.ctask = "none"
      BY <1>8 DEF BoardSet
    <3> QED
      BY <3>2, <3>4, <3>5, <3>6 DEF StartEffect, Kept, Still, SameTask, SameResults
  <2> QED
    BY <2>3, <2>4, <2>5 DEF BeginsRun
<1> QED
  BY <1>4, <1>6, <1>7, <1>8

\* What dxp_stop_one_run may do: nothing when Xerxes knows of no run, or forget
\* the run, which the board then ends or does not.
StopBoardEffect(b, o) ==
    /\ o.ok \in BOOLEAN
    /\ Kept(b, o.m) /\ o.m.run = FALSE /\ o.m.ctask = b.ctask
    /\ o.m.runType = b.runType
    /\ o.m.hw \in {b.hw, "idle"}
    /\ b.run = FALSE => o.ok = TRUE /\ o.m.hw = b.hw
    /\ b.run = TRUE /\ o.ok = TRUE => o.m.hw = "idle" \/ (b.product = "saturn" /\ "stop" \in b.may)
    /\ o.ok = FALSE => b.run = TRUE /\ "stop" \in b.may /\ b.product # "saturn"
    /\ "stop" \notin b.may => o.m.trace = b.trace

\* dxp_stop_one_run of each product.
LEMMA StopOneRunIs ==
  ASSUME NEW b \in BoardSet, NEW o \in StopOneRun(b)
  PROVE  StopBoardEffect(b, o)
<1>1. CASE ~b.run
  <2>1. o \in Done(b)
    BY <1>1 DEF StopOneRun
  <2>2. o.ok = TRUE /\ o.m = b
    BY ONLY <2>1, DoneIs
  <2>3. b.run = FALSE
    BY <1>1 DEF BoardSet
  <2> QED
    BY <2>2, <2>3 DEF StopBoardEffect, Kept
<1>2. CASE b.run
  <2> DEFINE c == [b EXCEPT !.run = FALSE]
  <2>1. o \in EndRun(c)
    BY <1>2 DEF StopOneRun
  <2>2. b.run = TRUE
    BY <1>2 DEF BoardSet
  <2>3. /\ Kept(b, c) /\ c.run = FALSE /\ c.ctask = b.ctask /\ c.hw = b.hw
        /\ c.runType = b.runType /\ c.trace = b.trace
    BY RunMarkedIs
  <2> HIDE DEF c
  <2>4. c \in BoardSet /\ c.product \in {"xmap", "mercury", "stj", "saturn"}
    BY <2>3 DEF Kept, BoardSet
  <2>5. CASE c.product = "saturn"
    <3>1. o \in SaturnEndRun(c)
      BY <2>1, <2>5 DEF EndRun
    <3>2. /\ o.ok = TRUE
          /\ Still(c, o.m) /\ SameTask(c, o.m) /\ SameResults(c, o.m)
          /\ o.m.hw = "idle" \/ (o.m.hw = c.hw /\ "stop" \in c.may)
      BY <2>4, <3>1, SaturnEndRunIs
    <3> QED
      BY <2>2, <2>3, <2>5, <3>2 DEF StopBoardEffect, Kept, Still, SameTask, SameResults
  <2>6. CASE c.product # "saturn"
    <3>1. o \in XmapEndRun(c)
      BY <2>1, <2>4, <2>6, MercuryEndRunIs DEF EndRun
    <3>2. Ends(c, o)
      BY <2>4, <3>1, XmapEndRunIs
    <3> QED
      BY <2>2, <2>3, <2>6, <3>2 DEF StopBoardEffect, Ends, Kept, Still, SameTask
  <2> QED
    BY <2>5, <2>6
<1> QED
  BY <1>1, <1>2

\* What pslStopRun may do.
StopEffect(b, o) ==
    /\ Kept(b, o.m) /\ o.m.run = FALSE /\ o.m.ctask = b.ctask
    /\ o.m.runType = b.runType
    /\ "stop" \notin b.may /\ b.hw # "trace" => o.m.trace = b.trace
    /\ \/ o.ok = TRUE /\ o.m.hw = IF b.run \/ b.product = "saturn" THEN "idle" ELSE b.hw
       \/ /\ o.ok = TRUE /\ b.product = "saturn" /\ "stop" \in b.may
          /\ o.m.hw = b.hw
       \/ /\ o.ok = FALSE /\ b.run = TRUE /\ "stop" \in b.may
          /\ o.m.hw \in {b.hw, "idle"}
       \/ /\ o.ok = FALSE /\ b.run = FALSE /\ b.product = "saturn"
          /\ b.hw # "idle" /\ o.m.hw = b.hw

\* pslStopRun of the Saturn: BUSY is polled when the run has been ended.
LEMMA SaturnStopRunIs ==
  ASSUME NEW b \in BoardSet, b.product = "saturn", NEW o \in SaturnStopRun(b)
  PROVE  StopEffect(b, o)
<1> DEFINE F(k) == {[ok |-> p.over, m |-> p.m] : p \in Polled(At(k, "stop"))}
                   \cup (IF "stop" \in k.may THEN {[ok |-> TRUE, m |-> k]} ELSE {})
           outs == StopOneRun(b)
<1>1. o \in Then(outs, F)
  BY Zenon DEF SaturnStopRun
<1> HIDE DEF F
<1>2. PICK z \in outs : o \in IF z.ok THEN F(z.m) ELSE {z}
  BY <1>1 DEF Then
<1>3. StopBoardEffect(b, z)
  BY <1>2, StopOneRunIs
<1> DEFINE k == z.m
           a == At(k, "stop")
<1>4. /\ z.ok = TRUE
      /\ Kept(b, k) /\ k.run = FALSE /\ k.ctask = b.ctask /\ k.runType = b.runType
      /\ k.hw \in {b.hw, "idle"}
      /\ b.run = FALSE => k.hw = b.hw
      /\ b.run = TRUE => k.hw = "idle" \/ "stop" \in b.may
      /\ "stop" \notin b.may => k.trace = b.trace
  BY <1>3 DEF StopBoardEffect
<1>5. o \in F(k)
  BY <1>2, <1>4
<1> HIDE DEF k
<1>6. b.run \in BOOLEAN
  BY DEF BoardSet
<1>7. CASE "stop" \in k.may /\ o = [ok |-> TRUE, m |-> k]
  <2>1. o.ok = TRUE /\ o.m = k /\ "stop" \in b.may
    BY <1>4, <1>7 DEF Kept
  <2> QED
    BY <1>4, <1>6, <2>1 DEF StopEffect
<1>8. CASE o \in {[ok |-> p.over, m |-> p.m] : p \in Polled(a)}
  <2>1. PICK p \in Polled(a) : o = [ok |-> p.over, m |-> p.m]
    BY <1>8
  <2>2. o.ok = p.over /\ o.m = p.m
    BY <2>1
  <2>3. /\ Still(k, a) /\ SameTask(k, a) /\ SameResults(k, a) /\ a.hw = k.hw
    BY <1>4, AtIs DEF Kept
  <2> HIDE DEF a
  <2> DEFINE c == Completed(a)
  <2>4. /\ Still(a, c) /\ SameTask(a, c) /\ c.hw = "idle"
        /\ a.hw # "trace" => c.trace = a.trace
    BY <2>3, CompletedIs DEF Still
  <2>5. \/ p.over = TRUE /\ p.m = c
        \/ p.over = FALSE /\ p.m = a /\ a.hw # "idle"
    BY PolledIs
  <2> HIDE DEF c
  <2>6. CASE p.over = TRUE /\ p.m = c
    BY <1>4, <1>6, <2>2, <2>3, <2>4, <2>6
       DEF StopEffect, Kept, Still, SameTask, SameResults
  <2>7. CASE p.over = FALSE /\ p.m = a /\ a.hw # "idle"
    BY <1>4, <1>6, <2>2, <2>3, <2>7
       DEF StopEffect, Kept, Still, SameTask, SameResults
  <2> QED
    BY <2>5, <2>6, <2>7
<1> QED
  BY <1>5, <1>7, <1>8 DEF F

\* pslStopRun of each product.
LEMMA PslStopRunIs ==
  ASSUME NEW b \in BoardSet, NEW o \in PslStopRun(b)
  PROVE  StopEffect(b, o)
<1>1. b.product \in {"xmap", "mercury", "stj", "saturn"} /\ b.run \in BOOLEAN
  BY DEF BoardSet
<1>2. CASE b.product = "saturn"
  BY <1>2, SaturnStopRunIs DEF PslStopRun
<1>3. CASE b.product # "saturn"
  <2>1. o \in StopOneRun(b)
    BY <1>1, <1>3 DEF PslStopRun, XmapStopRun, MercuryStopRun, StjStopRun
  <2>2. StopBoardEffect(b, o)
    BY <2>1, StopOneRunIs
  <2> QED
    BY <1>1, <1>3, <2>2 DEF StopBoardEffect, StopEffect
<1> QED
  BY <1>2, <1>3

-----------------------------------------------------------------------------
(* Type correctness. *)

\* Every variable has its type; between calls the accesses of the board are
\* those of special runs, and the faults are those of the behaviour.
TypeOK ==
    /\ orderly \in BOOLEAN /\ multi \in BOOLEAN /\ over \in BOOLEAN
    /\ runActive \in BOOLEAN /\ (runActive => multi)
    /\ board.product = "saturn" => ~multi
    /\ board \in BoardSet /\ board.product \in Products /\ board.site = "task"
    /\ board.may = {s \in Faults : orderly => s = "start"}
    /\ op \in {"none", "start", "stop", "apply", "trace", "task", "scan", "read"}
    /\ rest \in {<<>>, <<Det>>} /\ status \in {"ok", "busy", "error"}
    /\ asked \subseteq {Mod}

\* A board that a call has left is one of the boards, at the site of tasks.
LEMMA KeptType ==
  ASSUME TypeOK, NEW c, Kept(board, c), board' = At(c, "task"), orderly' = orderly
  PROVE  /\ board' \in BoardSet /\ board'.product = board.product
         /\ board'.site = "task" /\ board'.may = board.may
         /\ board'.hw = c.hw /\ board'.runType = c.runType /\ board'.run = c.run
         /\ board'.ctask = c.ctask /\ board'.trace = c.trace /\ board'.fresh = c.fresh
<1>1. c \in BoardSet /\ c.product = board.product /\ c.may = board.may
  BY DEF Kept
<1>2. /\ Still(c, board') /\ SameTask(c, board') /\ SameResults(c, board')
      /\ board'.hw = c.hw /\ board'.site = "task"
  BY <1>1, AtIs
<1> QED
  BY <1>1, <1>2 DEF Still, SameTask, SameResults

-----------------------------------------------------------------------------
(* The state of RunControl. *)

\* The run of the board as RunControl has it.
RunOf(h) == IF h \in {"idle", "data"} THEN h ELSE "special"

\* A function on the one module.
One(x) == [m \in {Mod} |-> x]

\* The variables of RunControl are functions on one module.
LEMMA OneIs ==
  ASSUME NEW x, NEW y
  PROVE  /\ One(x)[Mod] = x
         /\ [One(x) EXCEPT ![Mod] = y] = One(y)
         /\ x = y => One(x) = One(y)
  BY DEF One

\* Where the hardware may fail is what RunControl calls faulty.
LEMMA FaultyIs ==
  ASSUME TypeOK, NEW s \in board.may
  PROVE  RC!Faulty(s)
  BY DEF TypeOK, RC!Faulty

\* The layers of RunControl are as they were when those of the board are.
LEMMA LayersSame ==
  ASSUME runActive' = runActive, over' = over,
         board'.run = board.run, board'.hw = board.hw,
         board'.ctask = board.ctask, board'.runType = board.runType
  PROVE  UNCHANGED RC!layers
<1>1. UNCHANGED One(runActive) /\ UNCHANGED One(board.run)
  BY DEF One
<1>2. UNCHANGED One(board.ctask # "none") /\ UNCHANGED One(board.runType)
  BY DEF One
<1>3. UNCHANGED One(RunOf(board.hw))
  BY DEF One, RunOf
<1> QED
  BY <1>1, <1>2, <1>3 DEF RC!layers, One, RunOf

\* A special run of the application, as RunControl has it.
TaskCalled(x, name) ==
    /\ MayDoTask
    /\ op' = name /\ asked' = {Mod} /\ Outcome(x)
    /\ UNCHANGED <<orderly, multi, rest, runActive, over>>

\* RunControl allows the call, and sees what it returns.
LEMMA TaskCallIs ==
  ASSUME TypeOK, NEW x, NEW name, TaskCalled(x, name)
  PROVE  /\ RC!MayDoTask(Mod)
         /\ x.ok = TRUE => RC!TaskCall(name, Mod, "ok")
         /\ x.ok = FALSE => RC!TaskCall(name, Mod, "error")
         /\ RC!XerxesActive(Mod) <=> board.run \/ board.ctask # "none"
         /\ RC!HwActive(Mod) <=> board.hw # "idle"
         /\ ~Taken(board) => RC!TaskAllowed(Mod)
<1>1. RC!MayDoTask(Mod)
  BY ProductsAssumption DEF TaskCalled, MayDoTask, RC!MayDoTask, TypeOK
<1>2. /\ x.ok = TRUE => RC!TaskCall(name, Mod, "ok")
      /\ x.ok = FALSE => RC!TaskCall(name, Mod, "error")
  BY DEF TaskCalled, Outcome, RC!TaskCall
<1>3. RC!XerxesActive(Mod) <=> board.run \/ board.ctask # "none"
  BY DEF RC!XerxesActive
<1>4. RC!HwActive(Mod) <=> board.hw # "idle"
  BY DEF RC!HwActive
<1>5. ~Taken(board) => RC!TaskAllowed(Mod)
  BY <1>1, <1>3, <1>4 DEF Taken, RC!TaskAllowed
<1> QED
  BY <1>1, <1>2, <1>3, <1>4, <1>5

\* What Xerxes, the board and RUNTYPE are after a step, as RunControl has it.
Leaves(r, c, h, y) ==
    /\ board'.run = r /\ (board'.ctask # "none") = c
    /\ RunOf(board'.hw) = h /\ board'.runType = y

\* The variables of RunControl after a step that leaves these.
LEMMA LeavesIs ==
  ASSUME NEW r, NEW c, NEW h, NEW y, Leaves(r, c, h, y)
  PROVE  /\ One(board.run)' = [One(board.run) EXCEPT ![Mod] = r]
         /\ One(board.ctask # "none")' = [One(board.ctask # "none") EXCEPT ![Mod] = c]
         /\ One(RunOf(board.hw))' = [One(RunOf(board.hw)) EXCEPT ![Mod] = h]
         /\ One(board.runType)' = [One(board.runType) EXCEPT ![Mod] = y]
  BY OneIs DEF Leaves, One

\* A step that leaves the marks of a task that has begun.
LEMMA LeavesStarted ==
  ASSUME NEW h, NEW y, Leaves(TRUE, TRUE, h, y)
  PROVE  /\ RC!TaskStarted(Mod)
         /\ One(RunOf(board.hw))' = [One(RunOf(board.hw)) EXCEPT ![Mod] = h]
         /\ One(board.runType)' = [One(board.runType) EXCEPT ![Mod] = y]
  BY LeavesIs DEF RC!TaskStarted, One

\* A step that leaves those of a task that has been stopped.
LEMMA LeavesStopped ==
  ASSUME Leaves(FALSE, FALSE, "idle", "normal")
  PROVE  RC!TaskStopped(Mod) /\ One(RunOf(board.hw))' = RC!RunOver(Mod)
<1>1. /\ One(board.run)' = [One(board.run) EXCEPT ![Mod] = FALSE]
      /\ One(board.ctask # "none")' = [One(board.ctask # "none") EXCEPT ![Mod] = FALSE]
      /\ One(RunOf(board.hw))' = [One(RunOf(board.hw)) EXCEPT ![Mod] = "idle"]
      /\ One(board.runType)' = [One(board.runType) EXCEPT ![Mod] = "normal"]
  BY DEF Leaves, One
<1>2. RC!TaskStopped(Mod)
  BY ONLY <1>1 DEF RC!TaskStopped, One
<1>3. One(RunOf(board.hw))' = RC!RunOver(Mod)
  BY ONLY <1>1 DEF RC!RunOver, One, RunOf
<1> QED
  BY <1>2, <1>3

\* A step that leaves what Xerxes knows.
LEMMA LeavesXerxes ==
  ASSUME board'.run = board.run, board'.ctask = board.ctask
  PROVE  UNCHANGED <<One(board.run), One(board.ctask # "none")>>
  BY DEF One

\* What the DSP executes when a task was begun, as RunControl has it.
LEMMA GoesOnIs ==
  ASSUME NEW t \in Tasks
  PROVE  One(RunOf(Executes(board, t))) = RC!RunGoesOn(Mod)
<1> DEFINE h == IF board.hw = "idle" THEN "special" ELSE RunOf(board.hw)
<1>1. RunOf(Executes(board, t)) = h
  BY DEF RunOf, Executes, Tasks
<1>2. RC!RunGoesOn(Mod) = [One(RunOf(board.hw)) EXCEPT ![Mod] = h]
  BY DEF RC!RunGoesOn, RC!HwActive, One, RunOf
<1> HIDE DEF h
<1> QED
  BY <1>1, <1>2, OneIs

\* Every outcome of a special run is one of RunControl's.
LEMMA TaskMaps ==
  ASSUME TypeOK, NEW x, NEW name \in {"apply", "trace", "task", "scan"},
         NEW t \in Tasks, NEW k, TaskEffect(board, x, name, t, k),
         TaskCalled(x, name)
  PROVE  RC!TaskStep(Mod)
<1>1. x.ok \in BOOLEAN /\ Kept(board, x.m) /\ TaskResult(board, x, name, t)
  BY DEF TaskEffect
<1>2. /\ board' = At(x.m, "task") /\ orderly' = orderly /\ runActive' = runActive
      /\ over' = over
  BY DEF TaskCalled, Outcome
<1>3. /\ board'.hw = x.m.hw /\ board'.runType = x.m.runType /\ board'.run = x.m.run
      /\ board'.ctask = x.m.ctask
  BY <1>1, <1>2, KeptType
<1>4. /\ RC!MayDoTask(Mod)
      /\ x.ok = TRUE => RC!TaskCall(name, Mod, "ok")
      /\ x.ok = FALSE => RC!TaskCall(name, Mod, "error")
      /\ RC!XerxesActive(Mod) <=> board.run \/ board.ctask # "none"
      /\ RC!HwActive(Mod) <=> board.hw # "idle"
      /\ ~Taken(board) => RC!TaskAllowed(Mod)
  BY TaskCallIs
<1>5. name # "scan" => name \in RC!TaskNames
  BY DEF RC!TaskNames
<1>6. /\ name \in RC!TaskNames \cup {"scan"}
  BY <1>5
<1>7. MayGoWrong(board) => RC!Faulty("task") \/ RC!HwActive(Mod)
  BY <1>4, FaultyIs DEF MayGoWrong
<1>8. UNCHANGED One(runActive) /\ UNCHANGED (IF over THEN {Mod} ELSE {})
  BY <1>2 DEF One
<1>9. /\ One(RunOf("idle")) = RC!RunOver(Mod)
  BY OneIs DEF RC!RunOver, RunOf, One
<1>10. One(RunOf(Executes(board, t))) = RC!RunGoesOn(Mod)
  BY GoesOnIs
<1>11. One(RunOf(board.hw))' = One(RunOf(x.m.hw)) /\ One(board.runType)' = One(x.m.runType)
  BY <1>3 DEF One, RunOf
<1>12. CASE Refuses(board, x)
  <2>1. /\ board'.hw = board.hw /\ board'.run = board.run
        /\ board'.ctask = board.ctask /\ board'.runType = board.runType
    BY <1>3, <1>12 DEF Refuses
  <2>2. UNCHANGED RC!layers
    BY <1>2, <2>1, LayersSame
  <2>3. RC!TaskRefused(name, Mod)
    BY <1>4, <1>12, <2>2 DEF Refuses, Taken, RC!TaskRefused
  <2> QED
    BY <1>6, <2>3 DEF RC!TaskStep
<1>13. CASE NotBegun(board, x) /\ ~Taken(board)
  <2>1. /\ RC!Faulty("task") /\ RC!TaskCall(name, Mod, "error")
        /\ RC!TaskAllowed(Mod)
    BY <1>4, <1>13, FaultyIs DEF NotBegun
  <2>2. /\ board'.hw = board.hw /\ board'.run = board.run
        /\ board'.ctask = board.ctask /\ board'.runType \in {board.runType, "special"}
    BY <1>3, <1>13 DEF NotBegun, Still
  <2>3. UNCHANGED <<One(board.run), One(board.ctask # "none"), One(RunOf(board.hw))>>
    BY <2>2 DEF One, RunOf
  <2>4. One(board.runType)' \in
            {One(board.runType), [One(board.runType) EXCEPT ![Mod] = "special"]}
    BY <2>2, OneIs DEF One
  <2>5. RC!TaskNotBegun(name, Mod)
    BY <1>8, <2>1, <2>3, <2>4 DEF RC!TaskNotBegun, One, RunOf
  <2> QED
    BY <1>6, <2>5 DEF RC!TaskStep
<1>14. CASE board.product # "saturn" /\ name # "scan" /\ TimesOut(board, x, t) /\ ~Taken(board)
  <2>1. /\ RC!Faulty("task") \/ RC!HwActive(Mod)
        /\ RC!TaskCall(name, Mod, "error") /\ RC!TaskAllowed(Mod)
    BY <1>4, <1>7, <1>14 DEF TimesOut
  <2>2. /\ board'.hw \in {"idle", Executes(board, t)} /\ board'.run = board.run
        /\ board'.ctask = board.ctask /\ board'.runType = "special"
    BY <1>3, <1>14 DEF TimesOut, Still
  <2>3. UNCHANGED <<One(board.run), One(board.ctask # "none")>>
    BY <2>2 DEF One
  <2>4. One(board.runType)' = [One(board.runType) EXCEPT ![Mod] = "special"]
    BY <2>2, OneIs DEF One
  <2>5. One(RunOf(board.hw))' \in {RC!RunOver(Mod), RC!RunGoesOn(Mod)}
    BY <1>3, <1>9, <1>10, <1>11, <2>2
  <2>6. RC!TaskTimesOut(name, Mod)
    BY <1>8, <1>14, <2>1, <2>3, <2>4, <2>5 DEF RC!TaskTimesOut, One, RunOf
  <2> QED
    BY <1>5, <1>14, <2>6 DEF RC!TaskStep
<1>15. CASE Finishes(board, x, name) /\ ~Taken(board)
  <2>1. /\ RC!TaskCall(name, Mod, "ok") /\ RC!TaskAllowed(Mod)
        /\ name # "scan" /\ (name = "trace" => board.product = "mercury")
        /\ name = "apply" /\ board.product \in {"xmap", "mercury"} => board.hw # "data"
    BY <1>4, <1>15 DEF Finishes
  <2>2. Leaves(FALSE, FALSE, "idle", "normal")
    BY <1>3, <1>15 DEF Finishes, Leaves, RunOf
  <2>3. RC!TaskStopped(Mod) /\ One(RunOf(board.hw))' = RC!RunOver(Mod)
    BY <2>2, LeavesStopped
  <2>4. One(RunOf(board.hw))[Mod] = RunOf(board.hw)
    BY OneIs
  <2>5. RunOf(board.hw) = "data" => board.hw = "data"
    BY DEF RunOf
  <2>6. RC!TaskDone(name, Mod)
    BY <1>8, <2>1, <2>3, <2>4, <2>5 DEF RC!TaskDone, One, RunOf
  <2> QED
    BY <1>5, <2>1, <2>6 DEF RC!TaskStep
<1>16. CASE IsNotStopped(board, x, name) /\ ~Taken(board)
  <2>1. /\ RC!Faulty("stop") /\ RC!TaskCall(name, Mod, "error")
        /\ RC!TaskAllowed(Mod) /\ name # "scan"
    BY <1>4, <1>16, FaultyIs DEF IsNotStopped
  <2>2. /\ Leaves(TRUE, TRUE, "idle", x.m.runType)
        /\ x.m.runType \in {"normal", "special"}
    BY <1>1, <1>3, <1>16 DEF IsNotStopped, Leaves, RunOf, Believed, Kept, BoardSet
  <2>3. /\ RC!TaskStarted(Mod)
        /\ One(board.runType)' = [One(board.runType) EXCEPT ![Mod] = x.m.runType]
    BY <2>2, LeavesStarted
  <2>4. One(RunOf(board.hw))' = RC!RunOver(Mod)
    BY <1>9, <1>11, <1>16 DEF IsNotStopped
  <2>5. RC!TaskNotStopped(name, Mod)
    BY <1>8, <2>1, <2>2, <2>3, <2>4 DEF RC!TaskNotStopped, One, RunOf
  <2> QED
    BY <1>5, <2>1, <2>5 DEF RC!TaskStep
<1>17. CASE Unseen(board, x, name) /\ ~Taken(board)
  <2>1. /\ RC!Faulty("task") \/ RC!HwActive(Mod)
        /\ RC!TaskCall(name, Mod, "ok") /\ RC!TaskAllowed(Mod)
        /\ name \notin {"scan", "apply"} /\ board.product = "xmap"
    BY <1>4, <1>7, <1>17 DEF Unseen
  <2>2. Leaves(TRUE, TRUE, "idle", "normal")
    BY <1>3, <1>17 DEF Unseen, Leaves, RunOf, Believed
  <2>3. /\ RC!TaskStarted(Mod)
        /\ One(board.runType)' = [One(board.runType) EXCEPT ![Mod] = "normal"]
    BY <2>2, LeavesStarted
  <2>4. One(RunOf(board.hw))' = RC!RunOver(Mod)
    BY <1>9, <1>11, <1>17 DEF Unseen
  <2>5. RC!TimeoutUnseen(name, Mod)
    BY <1>8, <2>1, <2>3, <2>4 DEF RC!TimeoutUnseen, One, RunOf
  <2> QED
    BY <1>5, <2>1, <2>5 DEF RC!TaskStep
<1>18. CASE IsToBeRead(board, x, name) /\ ~Taken(board)
  <2>1. /\ RC!TaskCall(name, Mod, "ok") /\ RC!TaskAllowed(Mod)
        /\ name = "trace" /\ board.product # "mercury"
    BY <1>4, <1>18 DEF IsToBeRead
  <2>2. Leaves(TRUE, TRUE, "idle", "special")
    BY <1>3, <1>18 DEF IsToBeRead, Leaves, RunOf, Believed
  <2>3. /\ RC!TaskStarted(Mod)
        /\ One(board.runType)' = [One(board.runType) EXCEPT ![Mod] = "special"]
    BY <2>2, LeavesStarted
  <2>4. One(RunOf(board.hw))' = RC!RunOver(Mod)
    BY <1>9, <1>11, <1>18 DEF IsToBeRead
  <2>5. RC!TaskWaits("trace", Mod)
    BY <1>8, <2>1, <2>3, <2>4 DEF RC!TaskWaits, One, RunOf
  <2> QED
    BY <2>5 DEF RC!TaskStep
<1>19. CASE SaturnTimesOut(board, x, name, t) /\ ~Taken(board)
  <2>1. /\ RC!Faulty("task") \/ RC!HwActive(Mod)
        /\ RC!TaskCall(name, Mod, "error") /\ RC!TaskAllowed(Mod)
        /\ name # "scan" /\ board.product = "saturn"
    BY <1>4, <1>7, <1>19 DEF SaturnTimesOut
  <2>2. Leaves(TRUE, TRUE, RunOf(x.m.hw), "special")
    BY <1>3, <1>19 DEF SaturnTimesOut, Leaves, Believed
  <2>3. /\ RC!TaskStarted(Mod)
        /\ One(board.runType)' = [One(board.runType) EXCEPT ![Mod] = "special"]
    BY <2>2, LeavesStarted
  <2>4. One(RunOf(board.hw))' \in {RC!RunOver(Mod), RC!RunGoesOn(Mod)}
    BY <1>9, <1>10, <1>11, <1>19 DEF SaturnTimesOut
  <2>5. RC!SaturnTaskTimesOut(name, Mod)
    BY <1>8, <2>1, <2>3, <2>4 DEF RC!SaturnTaskTimesOut, One, RunOf
  <2> QED
    BY <1>5, <2>1, <2>5 DEF RC!TaskStep
<1>20. CASE Scans(board, x, name, t) /\ ~Taken(board)
  <2>1. /\ RC!TaskCall("scan", Mod, "ok") /\ RC!TaskAllowed(Mod)
        /\ board.product = "stj"
    BY <1>4, <1>20 DEF Scans
  <2>2. Leaves(TRUE, TRUE, RunOf(x.m.hw), "special")
    BY <1>3, <1>20 DEF Scans, Leaves, Believed
  <2>3. /\ RC!TaskStarted(Mod)
        /\ One(board.runType)' = [One(board.runType) EXCEPT ![Mod] = "special"]
    BY <2>2, LeavesStarted
  <2>4. One(RunOf(board.hw))' = RC!RunGoesOn(Mod)
    BY <1>10, <1>11, <1>20 DEF Scans
  <2>5. RC!ScanBegins(Mod)
    BY <1>8, <2>1, <2>3, <2>4 DEF RC!ScanBegins, One, RunOf
  <2> QED
    BY <2>5 DEF RC!TaskStep
<1> QED
  BY <1>1, <1>12, <1>13, <1>14, <1>15, <1>16, <1>17, <1>18, <1>19, <1>20 DEF TaskResult

\* So is every outcome of reading the data of a special run.
LEMMA ReadMaps ==
  ASSUME TypeOK, NEW x, ReadEffect(board, x), TaskCalled(x, "read")
  PROVE  RC!TaskStep(Mod)
<1>1. x.ok \in BOOLEAN /\ Kept(board, x.m)
  BY DEF ReadEffect
<1>2. /\ board' = At(x.m, "task") /\ orderly' = orderly /\ runActive' = runActive
      /\ over' = over
  BY DEF TaskCalled, Outcome
<1>3. /\ board'.hw = x.m.hw /\ board'.runType = x.m.runType /\ board'.run = x.m.run
      /\ board'.ctask = x.m.ctask
  BY <1>1, <1>2, KeptType
<1>4. /\ RC!MayDoTask(Mod)
      /\ x.ok = TRUE => RC!TaskCall("read", Mod, "ok")
      /\ x.ok = FALSE => RC!TaskCall("read", Mod, "error")
      /\ RC!HwActive(Mod) <=> board.hw # "idle"
  BY TaskCallIs
<1>5. UNCHANGED One(runActive) /\ UNCHANGED (IF over THEN {Mod} ELSE {})
  BY <1>2 DEF One
<1>6. /\ "stop" \in board.may => RC!Faulty("stop")
      /\ "task" \in board.may => RC!Faulty("task")
  BY FaultyIs
<1>7. CASE /\ board.product \in {"mercury", "saturn"} => board.hw = "idle"
           /\ x.m.hw = "idle" /\ x.m.runType = "normal"
           /\ x.m.run = FALSE /\ x.m.ctask = "none"
           /\ x.ok \/ "stop" \in board.may
  <2>1. Leaves(FALSE, FALSE, "idle", "normal")
    BY <1>3, <1>7 DEF Leaves, RunOf
  <2>2. RC!TaskStopped(Mod) /\ One(RunOf(board.hw))' = RC!RunOver(Mod)
    BY <2>1, LeavesStopped
  <2>3. \/ RC!TaskCall("read", Mod, "ok")
        \/ RC!Faulty("stop") /\ RC!TaskCall("read", Mod, "error")
    BY <1>1, <1>4, <1>6, <1>7
  <2>4. RC!ReadTrace(Mod)
    BY <1>4, <1>5, <1>7, <2>2, <2>3 DEF RC!ReadTrace, One, RunOf
  <2> QED
    BY <2>4 DEF RC!TaskStep
<1>8. CASE /\ x.ok = FALSE
           /\ \/ "task" \in board.may \/ "stop" \in board.may
              \/ board.product \in {"mercury", "saturn"} /\ board.hw # "idle"
           /\ x.m.run = board.run /\ x.m.ctask = board.ctask
           /\ x.m.runType = board.runType
           /\ x.m.hw = board.hw \/ ("stop" \in board.may /\ x.m.hw = "idle")
  <2>1. UNCHANGED <<One(board.run), One(board.ctask # "none"), One(board.runType)>>
    BY <1>3, <1>8 DEF One
  <2>2. One(RunOf(board.hw))' = One(RunOf(x.m.hw))
    BY <1>3 DEF One, RunOf
  <2>3. One(RunOf("idle")) = RC!RunOver(Mod)
    BY OneIs DEF RC!RunOver, RunOf, One
  <2>4. \/ One(RunOf(board.hw))' = One(RunOf(board.hw))
        \/ RC!Faulty("stop") /\ One(RunOf(board.hw))' = RC!RunOver(Mod)
    BY <1>6, <1>8, <2>2, <2>3
  <2>5. One(RunOf(board.hw))' \in
           {One(RunOf(board.hw))} \cup (IF RC!Faulty("stop") THEN {RC!RunOver(Mod)} ELSE {})
    BY <2>4
  <2>6. RC!ReadRefused(Mod)
    BY <1>4, <1>5, <1>6, <1>8, <2>1, <2>5 DEF RC!ReadRefused, One, RunOf
  <2> QED
    BY <2>6 DEF RC!TaskStep
<1> QED
  BY <1>7, <1>8 DEF ReadEffect

\* The walk of a call visits the one detChan.
LEMMA WalkIs ==
  ASSUME rest = <<Det>>
  PROVE  /\ rest # <<>> /\ Head(rest) = Det /\ Tail(rest) = <<>>
         /\ [d \in {Det} |-> Mod][Head(rest)] = Mod
  OBVIOUS

\* A walk with the outcome x of the PSL.
Walked(x, tag) ==
    /\ UNCHANGED <<orderly, multi, op, asked>>
    /\ rest' = <<>>
    /\ board' = At(x.m, "task")
    /\ runActive' = IF x.ok /\ multi THEN tag ELSE runActive
    /\ status' = IF x.ok THEN "busy" ELSE "error"

\* RunControl goes on with the walk, or returns the error.
LEMMA WalkedIs ==
  ASSUME TypeOK, rest = <<Det>>, status = "busy", NEW x, NEW tag, Walked(x, tag)
  PROVE  /\ x.ok = TRUE =>
               RC!Advance /\ runActive' = IF multi THEN tag ELSE runActive
         /\ x.ok = FALSE => RC!Fail /\ runActive' = runActive
  BY WalkIs DEF Walked, RC!Advance, RC!Fail

\* The call has only to walk on.
LEMMA SkipIs ==
  ASSUME TypeOK, NEW x \in Done(board), NEW tag, Walked(x, tag), runActive = tag,
         over' = over
  PROVE  x.ok = TRUE /\ UNCHANGED RC!layers
<1>1. x.ok = TRUE /\ x.m = board
  BY ONLY x \in Done(board), DoneIs
<1>2. Kept(board, x.m)
  BY <1>1 DEF Kept, TypeOK
<1>3. /\ board'.hw = board.hw /\ board'.runType = board.runType
      /\ board'.run = board.run /\ board'.ctask = board.ctask
  BY <1>1, <1>2, KeptType DEF Walked
<1> QED
  BY <1>1, <1>3, LayersSame DEF Walked

\* The board at the site of a data run is as Handel left it.
LEMMA AtSite ==
  ASSUME TypeOK, NEW s \in {"start", "stop"}
  PROVE  LET b == At(board, s) IN
         /\ b \in BoardSet /\ b.site = s /\ b.product = board.product
         /\ b.may = board.may /\ b.hw = board.hw /\ b.runType = board.runType
         /\ b.run = board.run /\ b.ctask = board.ctask /\ b.task = board.task
         /\ b.trace = board.trace
<1>1. board \in BoardSet
  BY DEF TypeOK
<1> QED
  BY <1>1, AtIs DEF Still, SameTask, SameResults

\* Handel's flags are tagged, where there are any.
LEMMA TagIs ==
  ASSUME NEW tag, runActive' = IF multi THEN tag ELSE runActive
  PROVE  RC!TagAllRunActive(Mod, tag)
  BY DEF RC!TagAllRunActive

\* Every outcome of a start on a board is one of RunControl's.
LEMMA StartMaps ==
  ASSUME TypeOK, op = "start", status = "busy", rest = <<Det>>, NEW x,
         x \in (IF Started THEN Done(board) ELSE StartOneRun(At(board, "start"))),
         Walked(x, TRUE), over' = (over /\ (Started \/ status' = "error"))
  PROVE  RC!StartOne
<1>1. /\ runActive \in BOOLEAN /\ multi \in BOOLEAN /\ over \in BOOLEAN
      /\ orderly' = orderly /\ (Started <=> multi /\ runActive)
  BY DEF TypeOK, Walked, Started
<1>2. CASE Started
  <2>1. x \in Done(board)
    BY <1>2
  <2>2. x.ok = TRUE /\ UNCHANGED RC!layers
    BY <1>1, <1>2, <2>1, SkipIs
  <2>3. RC!Advance
    BY <2>2, WalkedIs
  <2> QED
    BY <1>1, <1>2, <2>2, <2>3, WalkIs DEF RC!StartOne
<1>3. CASE ~Started
  <2> DEFINE b == At(board, "start")
  <2>1. x \in StartOneRun(b)
    BY <1>3
  <2>2. /\ b \in BoardSet /\ b.site = "start" /\ b.product = board.product
        /\ b.may = board.may /\ b.hw = board.hw /\ b.runType = board.runType
        /\ b.run = board.run /\ b.ctask = board.ctask /\ b.task = board.task
    BY AtSite
  <2>3. StartEffect(b, x)
    BY <2>1, <2>2, StartOneRunIs
  <2> HIDE DEF b
  <2>4. x.ok \in BOOLEAN /\ Kept(board, x.m)
    BY <2>2, <2>3 DEF StartEffect, Kept
  <2>5. /\ board'.hw = x.m.hw /\ board'.runType = x.m.runType /\ board'.run = x.m.run
        /\ board'.ctask = x.m.ctask
    BY <1>1, <2>4, KeptType DEF Walked
  <2>6. board.product # "udxp"
    BY ProductsAssumption DEF TypeOK
  <2>7. CASE x.ok = FALSE
    <3>1. RC!Fail /\ runActive' = runActive /\ over' = over
      BY <1>1, <1>3, <2>7, WalkedIs DEF Walked
    <3>2. UNCHANGED RC!layers
      BY <2>2, <2>3, <2>5, <2>7, <3>1, LayersSame DEF StartEffect
    <3>3. board.hw # "idle" \/ board.run \/ board.ctask # "none" \/ RC!Faulty("start")
      BY <2>2, <2>3, <2>7, FaultyIs DEF StartEffect
    <3>4. RC!BoardStartFails(Mod)
      BY <2>6, <3>2, <3>3 DEF RC!BoardStartFails, RC!HwActive, RC!XerxesActive
    <3> QED
      BY <1>1, <1>3, <3>1, <3>4, WalkIs DEF RC!StartOne
  <2>8. CASE x.ok = TRUE
    <3> DEFINE h == IF board.runType = "normal" THEN "data" ELSE "special"
    <3>1. /\ RC!Advance /\ runActive' = IF multi THEN TRUE ELSE runActive
          /\ over' = FALSE
      BY <1>1, <1>3, <2>8, WalkedIs DEF Walked
    <3>2. /\ board.hw = "idle" /\ board.run = FALSE /\ board.ctask = "none"
          /\ board'.hw = (IF board.runType = "normal" THEN "data" ELSE board.task)
          /\ board'.runType = board.runType
          /\ board'.run = TRUE /\ board'.ctask = board.ctask
      BY <2>2, <2>3, <2>5, <2>8 DEF StartEffect
    <3>3. RunOf(board'.hw) = h
      BY <3>2 DEF RunOf, TypeOK, BoardSet, Tasks
    <3>4. RC!Begun(Mod) = h
      BY <3>2 DEF RC!Begun, RC!HwActive
    <3>5. ~RC!HwActive(Mod) /\ ~RC!XerxesActive(Mod)
      BY <3>2 DEF RC!HwActive, RC!XerxesActive
    <3> HIDE DEF h
    <3>6. Leaves(TRUE, FALSE, h, board.runType)
      BY <3>2, <3>3 DEF Leaves
    <3>7. /\ One(board.run)' = [One(board.run) EXCEPT ![Mod] = TRUE]
          /\ One(RunOf(board.hw))' = [One(RunOf(board.hw)) EXCEPT ![Mod] = h]
      BY <3>6, OneIs DEF Leaves, One
    <3>8. UNCHANGED <<One(board.ctask # "none"), One(board.runType)>>
      BY <3>1, <3>2 DEF One
    <3>9. RC!BoardStartRun(Mod)
      BY <2>6, <3>4, <3>5, <3>7 DEF RC!BoardStartRun, One, RunOf
    <3>10. RC!TagAllRunActive(Mod, TRUE)
      BY <3>1, TagIs
    <3>11. (IF over' THEN {Mod} ELSE {}) = (IF over THEN {Mod} ELSE {}) \ {Mod}
      BY <1>1, <3>1
    <3>12. One(multi)[Mod] => ~One(runActive)[Mod]
      BY <1>1, <1>3, OneIs
    <3> QED
      BY <3>1, <3>8, <3>9, <3>10, <3>11, <3>12, WalkIs DEF RC!StartOne, One
  <2> QED
    BY <2>4, <2>7, <2>8
<1> QED
  BY <1>1, <1>2, <1>3

\* Every outcome of a stop on a board is one of RunControl's.
LEMMA StopMaps ==
  ASSUME TypeOK, op = "stop", status = "busy", rest = <<Det>>, NEW x,
         x \in (IF Stopped THEN Done(board) ELSE PslStopRun(At(board, "stop"))),
         Walked(x, FALSE), over' = over
  PROVE  RC!StopOne
<1>1. /\ runActive \in BOOLEAN /\ multi \in BOOLEAN
      /\ orderly' = orderly /\ (Stopped <=> multi /\ ~runActive)
  BY DEF TypeOK, Walked, Stopped
<1>2. CASE Stopped
  <2>1. x \in Done(board)
    BY <1>2
  <2>2. x.ok = TRUE /\ UNCHANGED RC!layers
    BY <1>1, <1>2, <2>1, SkipIs
  <2>3. RC!Advance
    BY <2>2, WalkedIs
  <2>4. RC!StopSkipped(Mod)
    BY <1>1, <1>2, <2>2, <2>3 DEF RC!StopSkipped
  <2> QED
    BY <2>4, WalkIs DEF RC!StopOne
<1>3. CASE ~Stopped
  <2> DEFINE b == At(board, "stop")
             h == IF board.run \/ board.product = "saturn" THEN "idle" ELSE board.hw
  <2>1. x \in PslStopRun(b)
    BY <1>3
  <2>2. /\ b \in BoardSet /\ b.product = board.product
        /\ b.may = board.may /\ b.hw = board.hw /\ b.runType = board.runType
        /\ b.run = board.run /\ b.ctask = board.ctask
    BY AtSite
  <2>3. StopEffect(b, x)
    BY <2>1, <2>2, PslStopRunIs
  <2> HIDE DEF b
  <2>4. /\ Kept(board, x.m) /\ x.m.run = FALSE /\ x.m.ctask = board.ctask
        /\ x.m.runType = board.runType
        /\ \/ x.ok = TRUE /\ x.m.hw = h
           \/ /\ x.ok = TRUE /\ board.product = "saturn" /\ "stop" \in board.may
              /\ x.m.hw = board.hw
           \/ /\ x.ok = FALSE /\ board.run = TRUE /\ "stop" \in board.may
              /\ x.m.hw \in {board.hw, "idle"}
           \/ /\ x.ok = FALSE /\ board.run = FALSE /\ board.product = "saturn"
              /\ board.hw # "idle" /\ x.m.hw = board.hw
    BY <2>2, <2>3 DEF StopEffect, Kept
  <2>5. /\ board'.hw = x.m.hw /\ board'.runType = x.m.runType /\ board'.run = x.m.run
        /\ board'.ctask = x.m.ctask
    BY <1>1, <2>4, KeptType DEF Walked
  <2>6. board.product # "udxp"
    BY ProductsAssumption DEF TypeOK
  <2>7. /\ One(board.run)' = [One(board.run) EXCEPT ![Mod] = FALSE]
        /\ UNCHANGED <<One(board.ctask # "none"), One(board.runType)>>
    BY <2>4, <2>5, OneIs DEF One
  <2>8. One(RunOf(board.hw))' = One(RunOf(x.m.hw))
    BY <2>5 DEF One, RunOf
  <2>9. [One(RunOf(board.hw)) EXCEPT ![Mod] = "idle"] = One(RunOf("idle"))
    BY OneIs DEF RunOf
  <2>0. One(multi)[Mod] => One(runActive)[Mod]
    BY <1>1, <1>3, OneIs
  <2>10. ASSUME x.ok = TRUE, RC!BoardStopRun(Mod) \/ RC!SaturnStopUnread(Mod)
         PROVE  RC!StopOne
    <3>1. RC!Advance /\ runActive' = IF multi THEN FALSE ELSE runActive
      BY <2>10, WalkedIs
    <3>2. RC!TagAllRunActive(Mod, FALSE)
      BY <3>1, TagIs
    <3> QED
      BY <2>0, <2>7, <2>10, <3>1, <3>2, WalkIs DEF RC!StopOne, One
  <2>11. CASE x.ok = TRUE /\ x.m.hw = h
    <3>1. One(RunOf(board.hw))' =
             IF board.run \/ board.product = "saturn"
             THEN [One(RunOf(board.hw)) EXCEPT ![Mod] = "idle"]
             ELSE One(RunOf(board.hw))
      BY <2>8, <2>9, <2>11
    <3>2. One(board.run)[Mod] = board.run
      BY OneIs
    <3>3. RC!BoardStopRun(Mod)
      BY <2>6, <2>7, <3>1, <3>2 DEF RC!BoardStopRun, RC!StopBoard, One, RunOf
    <3> QED
      BY <2>10, <2>11, <3>3
  <2>12. CASE /\ x.ok = TRUE /\ board.product = "saturn" /\ "stop" \in board.may
              /\ x.m.hw = board.hw
    <3>1. RC!Faulty("stop") /\ UNCHANGED One(RunOf(board.hw))
      BY <2>8, <2>12, FaultyIs
    <3>2. RC!SaturnStopUnread(Mod)
      BY <2>7, <2>12, <3>1 DEF RC!SaturnStopUnread, One, RunOf
    <3> QED
      BY <2>10, <2>12, <3>2
  <2>13. CASE /\ x.ok = FALSE /\ board.run = TRUE /\ "stop" \in board.may
              /\ x.m.hw \in {board.hw, "idle"}
    <3>1. RC!Fail /\ runActive' = runActive /\ RC!Faulty("stop")
      BY <2>13, WalkedIs, FaultyIs
    <3>2. One(RunOf(board.hw))' \in
             {One(RunOf(board.hw)), [One(RunOf(board.hw)) EXCEPT ![Mod] = "idle"]}
      BY <2>8, <2>9, <2>13
    <3>3. One(board.run)[Mod] = TRUE /\ UNCHANGED One(runActive)
      BY <2>13, <3>1 DEF One
    <3>4. RC!StopFails(Mod)
      BY <2>6, <2>7, <3>1, <3>2, <3>3 DEF RC!StopFails, One, RunOf
    <3> QED
      BY <2>0, <3>4, WalkIs DEF RC!StopOne, One
  <2>14. CASE /\ x.ok = FALSE /\ board.run = FALSE /\ board.product = "saturn"
              /\ board.hw # "idle" /\ x.m.hw = board.hw
    <3>1. RC!Fail /\ runActive' = runActive
      BY <2>14, WalkedIs
    <3>2. UNCHANGED RC!layers
      BY <2>4, <2>5, <2>14, <3>1, LayersSame
    <3>3. RC!HwActive(Mod)
      BY <2>14 DEF RC!HwActive
    <3>4. RC!SaturnStillBusy(Mod)
      BY <2>14, <3>1, <3>2, <3>3 DEF RC!SaturnStillBusy
    <3> QED
      BY <2>0, <3>4, WalkIs DEF RC!StopOne, One
  <2> QED
    BY <2>4, <2>11, <2>12, <2>13, <2>14
<1> QED
  BY <1>1, <1>2, <1>3

-----------------------------------------------------------------------------
(* The steps. *)

\* What a special run does to the board and to the traces asked for.
TaskMade(x, name, t, k) ==
    /\ name \in {"apply", "trace", "task", "scan"} /\ t \in Tasks /\ k \in Kinds
    /\ name = "scan" => t = "scan"
    /\ TaskEffect(board, x, name, t, k) /\ TaskCalled(x, name)
    /\ t = "trace" =>
          want' = IF status' = "ok" /\ board.hw = "idle" THEN k ELSE "none"
    /\ t # "trace" => UNCHANGED want

\* What reading the data of a special run does.
DataRead(x) ==
    /\ ReadEffect(board, x) /\ TaskCalled(x, "read")
    /\ want' = want

\* A special run has one of the outcomes of the PSL.
LEMMA TaskIs ==
  ASSUME NEW name, NEW outs, Task(name, outs), orderly' = orderly, multi' = multi
  PROVE  \E x \in outs : TaskCalled(x, name)
  BY DEF Task, TaskCalled

\* The "apply" board operation.
LEMMA ApplyIs ==
  ASSUME TypeOK, Apply, orderly' = orderly, multi' = multi
  PROVE  \E x, t : /\ TaskMade(x, "apply", t, board.kind)
                   /\ x.ok /\ board.product \in {"xmap", "mercury"} => x.m.fresh
<1>1. PICK x \in ApplyTasks(board) : TaskCalled(x, "apply")
  BY TaskIs DEF Apply
<1>2. board \in BoardSet /\ board.site = "task" /\ board.kind \in Kinds
  BY DEF TypeOK, BoardSet
<1> DEFINE t == ApplyTask(board.product)
<1>3. t \in Tasks /\ t # "trace"
  BY DEF ApplyTask, Tasks
<1>4. /\ TaskEffect(board, x, "apply", t, board.kind)
      /\ x.ok /\ board.product \in {"xmap", "mercury"} => x.m.fresh
  BY <1>2, ApplyTasksIs
<1>5. UNCHANGED want
  BY DEF Apply
<1>6. TaskMade(x, "apply", t, board.kind)
  BY <1>1, <1>2, <1>3, <1>4, <1>5 DEF TaskMade
<1> QED
  BY <1>4, <1>6

\* The other special runs that are stopped at once.
LEMMA OtherTaskIs ==
  ASSUME TypeOK, OtherTask, orderly' = orderly, multi' = multi
  PROVE  \E x : TaskMade(x, "task", "dac", board.kind)
<1>1. PICK x \in OtherTasks(board) : TaskCalled(x, "task")
  BY TaskIs DEF OtherTask
<1>2. board \in BoardSet /\ board.site = "task" /\ board.kind \in Kinds
  BY DEF TypeOK, BoardSet
<1>3. TaskEffect(board, x, "task", "dac", board.kind)
  BY <1>2, OtherTasksIs
<1>4. UNCHANGED want /\ "dac" \in Tasks
  BY DEF OtherTask, Tasks
<1> QED
  BY <1>1, <1>2, <1>3, <1>4 DEF TaskMade

\* The bias scan.
LEMMA ScanIs ==
  ASSUME TypeOK, BeginBiasScan, orderly' = orderly, multi' = multi
  PROVE  \E x : TaskMade(x, "scan", "scan", board.kind)
<1>1. PICK x \in StjBeginBiasScan(board) : TaskCalled(x, "scan")
  BY TaskIs DEF BeginBiasScan
<1>2. board \in BoardSet /\ board.site = "task" /\ board.kind \in Kinds
  BY DEF TypeOK, BoardSet
<1>3. board.product = "stj" /\ UNCHANGED want /\ "scan" \in Tasks
  BY DEF BeginBiasScan, Tasks
<1>4. TaskEffect(board, x, "scan", "scan", board.kind)
  BY <1>2, <1>3, BeginBiasScanIs
<1> QED
  BY <1>1, <1>2, <1>3, <1>4 DEF TaskMade

\* A trace.
LEMMA TraceIs ==
  ASSUME TypeOK, NEW k \in Kinds, Trace(k), orderly' = orderly, multi' = multi
  PROVE  \E x : TaskMade(x, "trace", "trace", k)
<1>1. PICK x \in DoTrace(board, k) : TaskCalled(x, "trace")
  BY TaskIs DEF Trace
<1>2. board \in BoardSet /\ board.site = "task"
  BY DEF TypeOK
<1>3. /\ board.product = "saturn" => k = "adc"
      /\ want' = IF status' = "ok" /\ board.hw = "idle" THEN k ELSE "none"
      /\ "trace" \in Tasks
  BY DEF Trace, Active, Tasks
<1>4. TaskEffect(board, x, "trace", "trace", k)
  BY <1>2, <1>3, DoTraceIs
<1> QED
  BY <1>1, <1>3, <1>4 DEF TaskMade

\* The data of a trace, or the end of a bias scan.
LEMMA DataReadIs ==
  ASSUME TypeOK, ReadTrace \/ EndBiasScan, orderly' = orderly, multi' = multi
  PROVE  \E x : DataRead(x)
<1>1. board \in BoardSet /\ board.site = "task"
  BY DEF TypeOK
<1>2. CASE ReadTrace
  <2>1. PICK x \in GetTrace(board) : TaskCalled(x, "read")
    BY <1>2, TaskIs DEF ReadTrace
  <2>2. ReadEffect(board, x)
    BY <1>1, GetTraceIs
  <2> QED
    BY <1>2, <2>1, <2>2 DEF ReadTrace, DataRead
<1>3. CASE EndBiasScan
  <2>1. PICK x \in StjEndBiasScan(board) : TaskCalled(x, "read")
    BY <1>3, TaskIs DEF EndBiasScan
  <2>2. board.product = "stj"
    BY <1>3 DEF EndBiasScan
  <2>3. ReadEffect(board, x)
    BY <1>1, <2>2, StopReads DEF StjEndBiasScan
  <2> QED
    BY <1>3, <2>1, <2>3 DEF EndBiasScan, DataRead
<1> QED
  BY <1>2, <1>3

\* A start or a stop walks to the one detChan, if it has not.
LEMMA StartRunIs ==
  ASSUME TypeOK, StartRun, orderly' = orderly, multi' = multi
  PROVE  /\ op = "start" /\ status = "busy" /\ rest = <<Det>>
         /\ UNCHANGED want /\ over' = (over /\ (Started \/ status' = "error"))
         /\ \E x : /\ x \in (IF Started THEN Done(board)
                             ELSE StartOneRun(At(board, "start")))
                   /\ Walked(x, TRUE)
<1> DEFINE outs == IF Started THEN Done(board) ELSE StartOneRun(At(board, "start"))
<1>1. op = "start" /\ status = "busy" /\ rest = <<Det>> /\ Walk(outs, TRUE)
  BY DEF StartRun, TypeOK
<1> HIDE DEF outs
<1>2. UNCHANGED want /\ \E x \in outs : Walked(x, TRUE)
  BY <1>1 DEF Walk, Walked
<1>3. over' = (over /\ (Started \/ status' = "error"))
  BY DEF StartRun
<1> QED
  BY <1>1, <1>2, <1>3 DEF outs

\* A stop.
LEMMA StopRunIs ==
  ASSUME TypeOK, StopRun, orderly' = orderly, multi' = multi
  PROVE  /\ op = "stop" /\ status = "busy" /\ rest = <<Det>>
         /\ UNCHANGED <<want, over>>
         /\ \E x : /\ x \in (IF Stopped THEN Done(board)
                             ELSE PslStopRun(At(board, "stop")))
                   /\ Walked(x, FALSE)
<1> DEFINE outs == IF Stopped THEN Done(board) ELSE PslStopRun(At(board, "stop"))
<1>1. op = "stop" /\ status = "busy" /\ rest = <<Det>> /\ Walk(outs, FALSE)
  BY DEF StopRun, TypeOK
<1> HIDE DEF outs
<1>2. UNCHANGED want /\ \E x \in outs : Walked(x, FALSE)
  BY <1>1 DEF Walk, Walked
<1>3. UNCHANGED over
  BY DEF StopRun
<1> QED
  BY <1>1, <1>2, <1>3 DEF outs

\* The outcomes of a start, from the board as it was.
LEMMA StartEffectIs ==
  ASSUME TypeOK, NEW x,
         x \in (IF Started THEN Done(board) ELSE StartOneRun(At(board, "start")))
  PROVE  /\ Started => x.ok = TRUE /\ x.m = board
         /\ ~Started => StartEffect(board, x)
         /\ Kept(board, x.m) /\ x.ok \in BOOLEAN
<1>2. CASE Started
  <2>1. x \in Done(board)
    BY <1>2
  <2>2. x.ok = TRUE /\ x.m = board
    BY ONLY <2>1, DoneIs
  <2> QED
    BY <1>2, <2>2 DEF Kept, TypeOK
<1>3. CASE ~Started
  <2> DEFINE b == At(board, "start")
  <2>1. x \in StartOneRun(b)
    BY <1>3
  <2>2. /\ b \in BoardSet /\ b.site = "start" /\ b.product = board.product
        /\ b.may = board.may /\ b.hw = board.hw /\ b.runType = board.runType
        /\ b.run = board.run /\ b.ctask = board.ctask /\ b.task = board.task
        /\ b.trace = board.trace
    BY AtSite
  <2>3. StartEffect(b, x)
    BY <2>1, <2>2, StartOneRunIs
  <2> HIDE DEF b
  <2>4. StartEffect(board, x) /\ Kept(board, x.m) /\ x.ok \in BOOLEAN
    BY <2>2, <2>3 DEF StartEffect, Kept
  <2> QED
    BY <1>3, <2>4
<1> QED
  BY <1>2, <1>3

\* The outcomes of a stop.
LEMMA StopEffectIs ==
  ASSUME TypeOK, NEW x,
         x \in (IF Stopped THEN Done(board) ELSE PslStopRun(At(board, "stop")))
  PROVE  /\ Stopped => x.ok = TRUE /\ x.m = board
         /\ ~Stopped => StopEffect(board, x)
         /\ Kept(board, x.m) /\ x.ok \in BOOLEAN
<1>2. CASE Stopped
  <2>1. x \in Done(board)
    BY <1>2
  <2>2. x.ok = TRUE /\ x.m = board
    BY ONLY <2>1, DoneIs
  <2> QED
    BY <1>2, <2>2 DEF Kept, TypeOK
<1>3. CASE ~Stopped
  <2> DEFINE b == At(board, "stop")
  <2>1. x \in PslStopRun(b)
    BY <1>3
  <2>2. /\ b \in BoardSet /\ b.product = board.product
        /\ b.may = board.may /\ b.hw = board.hw /\ b.runType = board.runType
        /\ b.run = board.run /\ b.ctask = board.ctask /\ b.trace = board.trace
    BY AtSite
  <2>3. StopEffect(b, x)
    BY <2>1, <2>2, PslStopRunIs
  <2> HIDE DEF b
  <2>4. StopEffect(board, x) /\ Kept(board, x.m) /\ x.ok \in BOOLEAN
    BY <2>2, <2>3 DEF StopEffect, Kept
  <2> QED
    BY <1>3, <2>4
<1> QED
  BY <1>2, <1>3

\* A call that keeps the board keeps the types.
LEMMA CalledType ==
  ASSUME TypeOK, NEW x, Kept(board, x.m), x.ok \in BOOLEAN,
         \/ \E name \in {"apply", "trace", "task", "scan", "read"} : TaskCalled(x, name)
         \/ \E tag \in BOOLEAN : Walked(x, tag) /\ over' \in BOOLEAN
  PROVE  TypeOK'
<1>1. board' = At(x.m, "task") /\ orderly' = orderly /\ multi' = multi
  BY DEF TaskCalled, Outcome, Walked
<1>2. /\ board' \in BoardSet /\ board'.product = board.product
      /\ board'.site = "task" /\ board'.may = board.may
  BY <1>1, KeptType
<1>3. board'.may = {s \in Faults : orderly' => s = "start"}
  BY <1>1, <1>2 DEF TypeOK
<1>4. CASE \E name \in {"apply", "trace", "task", "scan", "read"} : TaskCalled(x, name)
  BY <1>1, <1>2, <1>3, <1>4 DEF TaskCalled, Outcome, TypeOK
<1>5. CASE \E tag \in BOOLEAN : Walked(x, tag) /\ over' \in BOOLEAN
  BY <1>1, <1>2, <1>3, <1>5 DEF Walked, TypeOK
<1> QED
  BY <1>4, <1>5

\* The parameter that is to be applied is all that Handel writes of the board.
LEMMA ParameterIs ==
  ASSUME TypeOK, ParameterSet
  PROVE  /\ Kept(board, board') /\ board'.site = "task"
         /\ board'.hw = board.hw /\ board'.run = board.run
         /\ board'.ctask = board.ctask /\ board'.runType = board.runType
         /\ board'.trace = board.trace
  BY DEF ParameterSet, TypeOK, Kept, BoardSet

\* A run that ends on its own leaves Xerxes and Handel as they were.
LEMMA RunEndsIs ==
  ASSUME TypeOK, RunEnds
  PROVE  /\ Kept(board, board') /\ board'.site = "task"
         /\ board.hw # "idle" /\ board'.hw = "idle" /\ board'.run = board.run
         /\ board'.ctask = board.ctask /\ board'.runType = board.runType
         /\ board.hw # "trace" => board'.trace = board.trace
<1>1. board \in BoardSet /\ board.hw # "idle" /\ board' = Completed(board)
  BY DEF TypeOK, RunEnds, Active
<1>2. /\ Still(board, board') /\ SameTask(board, board') /\ board'.site = board.site
      /\ board'.hw = "idle"
      /\ board'.trace = IF board.hw = "trace" THEN board.kind ELSE board.trace
  BY <1>1, CompletedIs
<1> QED
  BY <1>1, <1>2 DEF Still, SameTask, Kept, TypeOK

\* Every step keeps the types.
LEMMA TypeNext ==
  ASSUME TypeOK, [Next]_vars
  PROVE  TypeOK'
<1>1. CASE UNCHANGED vars
  BY <1>1 DEF vars, TypeOK
<1>2. CASE Next
  <2>1. orderly' = orderly /\ multi' = multi
    BY <1>2 DEF Next
  <2>2. ASSUME NEW x, NEW name, NEW t, NEW k, TaskMade(x, name, t, k)
        PROVE  TypeOK'
    <3>1. /\ Kept(board, x.m) /\ x.ok \in BOOLEAN
          /\ TaskCalled(x, name) /\ name \in {"apply", "trace", "task", "scan"}
      BY <2>2 DEF TaskMade, TaskEffect
    <3> QED
      BY <3>1, CalledType
  <2>3. CASE Call("start") \/ Call("stop")
    BY <2>1, <2>3 DEF Call, TypeOK
  <2>4. CASE Return
    BY <2>1, <2>4 DEF Return, TypeOK
  <2>5. CASE StartRun
    <3>1. PICK x : /\ x \in (IF Started THEN Done(board)
                             ELSE StartOneRun(At(board, "start")))
                   /\ Walked(x, TRUE) /\ over' \in BOOLEAN
      BY <2>1, <2>5, StartRunIs DEF TypeOK
    <3>2. Kept(board, x.m) /\ x.ok \in BOOLEAN
      BY <3>1, StartEffectIs
    <3> QED
      BY <3>1, <3>2, CalledType
  <2>6. CASE StopRun
    <3>1. PICK x : /\ x \in (IF Stopped THEN Done(board)
                             ELSE PslStopRun(At(board, "stop")))
                   /\ Walked(x, FALSE) /\ over' \in BOOLEAN
      BY <2>1, <2>6, StopRunIs DEF TypeOK
    <3>2. Kept(board, x.m) /\ x.ok \in BOOLEAN
      BY <3>1, StopEffectIs
    <3> QED
      BY <3>1, <3>2, CalledType
  <2>7. CASE Apply
    BY <2>1, <2>2, <2>7, ApplyIs
  <2>8. CASE OtherTask
    BY <2>1, <2>2, <2>8, OtherTaskIs
  <2>9. CASE BeginBiasScan
    BY <2>1, <2>2, <2>9, ScanIs
  <2>10. CASE \E k \in Kinds : Trace(k)
    BY <2>1, <2>2, <2>10, TraceIs
  <2>11. CASE ReadTrace \/ EndBiasScan
    <3>1. PICK x : DataRead(x)
      BY <2>1, <2>11, DataReadIs
    <3>2. Kept(board, x.m) /\ x.ok \in BOOLEAN /\ TaskCalled(x, "read")
      BY <3>1 DEF DataRead, ReadEffect
    <3> QED
      BY <3>2, CalledType
  <2>12. CASE ParameterSet
    <3>1. Kept(board, board') /\ board'.site = "task"
      BY <2>12, ParameterIs
    <3>2. UNCHANGED <<runActive, over, op, rest, status, asked>>
      BY <2>12 DEF ParameterSet
    <3> QED
      BY <2>1, <3>1, <3>2 DEF Kept, TypeOK
  <2>13. CASE RunEnds
    <3>1. Kept(board, board') /\ board'.site = "task"
      BY <2>13, RunEndsIs
    <3>2. UNCHANGED <<runActive, op, rest, status, asked>> /\ over' = TRUE
      BY <2>13 DEF RunEnds
    <3> QED
      BY <2>1, <3>1, <3>2 DEF Kept, TypeOK
  <2> QED
    BY <1>2, <2>3, <2>4, <2>5, <2>6, <2>7, <2>8, <2>9, <2>10, <2>11, <2>12, <2>13 DEF Next
<1> QED
  BY <1>1, <1>2

\* The initial states have their types.
LEMMA TypeInit ==
  ASSUME Init
  PROVE  TypeOK
<1>1. PICK p \in IF multi THEN Several ELSE Single :
        board = [product |-> p, hw |-> "idle", runType |-> "normal",
                 task |-> "apply", kind |-> "adc", trace |-> "none",
                 applied |-> FALSE, fresh |-> FALSE, run |-> FALSE, ctask |-> "none",
                 site |-> "task",
                 may |-> {s \in Faults : orderly => s = "start"}]
  BY DEF Init
<1>2. /\ p \in {"xmap", "mercury", "stj", "saturn"} /\ p \in Products
      /\ p = "saturn" => ~multi
  BY ProductsAssumption DEF Products
<1> DEFINE f == {s \in Faults : orderly => s = "start"}
<1>3. f \in SUBSET {"task", "start", "stop"}
  BY FaultsAssumption
<1> HIDE DEF f
<1>4. board = [product |-> p, hw |-> "idle", runType |-> "normal",
                 task |-> "apply", kind |-> "adc", trace |-> "none",
                 applied |-> FALSE, fresh |-> FALSE, run |-> FALSE, ctask |-> "none",
                 site |-> "task", may |-> f]
  BY <1>1 DEF f
<1>5. /\ board \in BoardSet /\ board.product = p /\ board.site = "task"
      /\ board.may = f
  BY <1>2, <1>3, <1>4 DEF BoardSet, Tasks, Kinds
<1> QED
  BY <1>2, <1>5 DEF Init, TypeOK, f

\* Every variable has its type in every state, whatever the product and wherever
\* the hardware fails.
THEOREM TypeCorrect == Spec => []TypeOK
<1>1. Init => TypeOK
  BY TypeInit
<1>2. TypeOK /\ [Next]_vars => TypeOK'
  BY TypeNext
<1> QED
  BY <1>1, <1>2, PTL DEF Spec

-----------------------------------------------------------------------------
(* The drivers implement RunControl. *)

\* A call that addresses the one detChan addresses its module.
LEMMA ModulesIs == RC!ModulesOf(<<Det>>) = {Mod}
  BY DEF RC!ModulesOf

\* xiaStartRun and xiaStopRun are called.
LEMMA CallMaps ==
  ASSUME NEW o, Call(o)
  PROVE  RC!Call(o, <<Det>>)
<1>1. UNCHANGED RC!layers
  BY LayersSame DEF Call
<1> QED
  BY <1>1, ModulesIs DEF Call, RC!Call

\* They return.
LEMMA ReturnMaps ==
  ASSUME Return
  PROVE  RC!Return
<1>1. UNCHANGED RC!layers
  BY LayersSame DEF Return
<1> QED
  BY <1>1 DEF Return, RC!Return

\* A run that ends on its own ends in RunControl.
LEMMA RunEndsMaps ==
  ASSUME TypeOK, RunEnds
  PROVE  RC!RunEnds(Mod)
<1>1. /\ board.hw # "idle" /\ board'.hw = "idle" /\ board'.run = board.run
      /\ board'.ctask = board.ctask /\ board'.runType = board.runType
  BY RunEndsIs
<1>2. UNCHANGED <<runActive, op, rest, status, asked>> /\ over' = TRUE
  BY DEF RunEnds
<1>3. RC!HwActive(Mod)
  BY <1>1 DEF RC!HwActive
<1>4. One(RunOf(board.hw))' = [One(RunOf(board.hw)) EXCEPT ![Mod] = "idle"]
  BY <1>1, OneIs DEF One, RunOf
<1>5. UNCHANGED <<One(runActive), One(board.run), One(board.ctask # "none"),
                  One(board.runType)>>
  BY <1>1, <1>2 DEF One
<1>6. (IF over' THEN {Mod} ELSE {}) = (IF over THEN {Mod} ELSE {}) \cup {Mod}
  BY <1>2
<1> QED
  BY <1>2, <1>3, <1>4, <1>5, <1>6 DEF RC!RunEnds, One, RunOf

\* A parameter that Handel writes is none of RunControl's.
LEMMA ParameterMaps ==
  ASSUME TypeOK, ParameterSet, orderly' = orderly, multi' = multi
  PROVE  UNCHANGED RC!vars
<1>1. /\ board'.hw = board.hw /\ board'.run = board.run /\ board'.product = board.product
      /\ board'.ctask = board.ctask /\ board'.runType = board.runType
  BY ParameterIs DEF Kept
<1>2. UNCHANGED <<runActive, over, op, rest, status, asked>>
  BY DEF ParameterSet
<1>3. UNCHANGED RC!layers
  BY <1>1, <1>2, LayersSame
<1> QED
  BY <1>1, <1>2, <1>3 DEF RC!vars, RC!config

\* The initial states are RunControl's.
LEMMA InitMaps ==
  ASSUME Init
  PROVE  RC!Init
<1>0. TypeOK
  BY TypeInit
<1>1. /\ board.product \in Products /\ board.hw = "idle" /\ board.runType = "normal"
      /\ board.run = FALSE /\ board.ctask = "none"
  BY <1>0 DEF Init, TypeOK
<1>2. /\ One(runActive) = One(FALSE) /\ One(board.run) = One(FALSE)
      /\ One(board.ctask # "none") = One(FALSE)
      /\ One(RunOf(board.hw)) = One("idle") /\ One(board.runType) = One("normal")
  BY <1>1 DEF Init, One, RunOf
<1>3. RC!InitMultiState
  <2>1. One(multi) \in [{Mod} -> BOOLEAN] /\ One(multi)[Mod] = multi
    BY <1>0 DEF One, TypeOK
  <2>2. multi => board.product \notin {"saturn", "udxp"}
    BY <1>0, ProductsAssumption DEF TypeOK
  <2>3. \A j, k \in 1..Len(<<Det>>) : j = k
    OBVIOUS
  <2> QED
    BY <2>1, <2>2, <2>3 DEF RC!InitMultiState, One
<1> QED
  BY <1>1, <1>2, <1>3 DEF Init, RC!Init, One, RunOf

\* A step that keeps the product and the kind of behaviour, and is an action of
\* RunControl, is a step of RunControl.
LEMMA IsStep ==
  ASSUME orderly' = orderly, multi' = multi, board'.product = board.product,
         \/ RC!Call("start", <<Det>>) \/ RC!Call("stop", <<Det>>)
         \/ RC!StartOne \/ RC!StopOne \/ RC!Return
         \/ RC!TaskStep(Mod) \/ RC!RunEnds(Mod)
  PROVE  RC!Next
<1>1. UNCHANGED RC!config
  BY DEF RC!config, One
<1>2. \E k \in 1..Len(<<Det>>) : <<<<Det>>[k]>> = <<Det>>
  OBVIOUS
<1> QED
  BY <1>1, <1>2 DEF RC!Next

\* Every step is a step of RunControl, or leaves its variables.
LEMMA StepMaps ==
  ASSUME TypeOK, [Next]_vars
  PROVE  [RC!Next]_(RC!vars)
<1>1. CASE UNCHANGED vars
  BY <1>1, LayersSame DEF vars, RC!vars, RC!config
<1>2. CASE Next
  <2>1. orderly' = orderly /\ multi' = multi
    BY <1>2 DEF Next
  <2>2. ASSUME NEW x, NEW name, NEW t, NEW k, TaskMade(x, name, t, k)
        PROVE  RC!Next
    <3>1. /\ Kept(board, x.m) /\ TaskEffect(board, x, name, t, k) /\ t \in Tasks
          /\ TaskCalled(x, name) /\ name \in {"apply", "trace", "task", "scan"}
      BY <2>2 DEF TaskMade, TaskEffect
    <3>2. board'.product = board.product
      BY <2>1, <3>1, KeptType DEF TaskCalled, Outcome
    <3>3. RC!TaskStep(Mod)
      BY <3>1, TaskMaps
    <3> QED
      BY <2>1, <3>2, <3>3, IsStep
  <2>3. CASE Call("start")
    <3>1. RC!Call("start", <<Det>>) /\ board'.product = board.product
      BY <2>3, CallMaps DEF Call
    <3> QED
      BY <2>1, <3>1, IsStep
  <2>4. CASE Call("stop")
    <3>1. RC!Call("stop", <<Det>>) /\ board'.product = board.product
      BY <2>4, CallMaps DEF Call
    <3> QED
      BY <2>1, <3>1, IsStep
  <2>5. CASE Return
    <3>1. RC!Return /\ board'.product = board.product
      BY <2>5, ReturnMaps DEF Return
    <3> QED
      BY <2>1, <3>1, IsStep
  <2>6. CASE StartRun
    <3>1. op = "start" /\ status = "busy" /\ rest = <<Det>>
      BY <2>1, <2>6, StartRunIs
    <3>2. PICK x : /\ x \in (IF Started THEN Done(board)
                             ELSE StartOneRun(At(board, "start")))
                   /\ Walked(x, TRUE) /\ over' = (over /\ (Started \/ status' = "error"))
      BY <2>1, <2>6, StartRunIs
    <3>3. board'.product = board.product
      BY <2>1, <3>2, StartEffectIs, KeptType DEF Walked
    <3>4. RC!StartOne
      BY <3>1, <3>2, StartMaps
    <3> QED
      BY <2>1, <3>3, <3>4, IsStep
  <2>7. CASE StopRun
    <3>1. op = "stop" /\ status = "busy" /\ rest = <<Det>>
      BY <2>1, <2>7, StopRunIs
    <3>2. PICK x : /\ x \in (IF Stopped THEN Done(board)
                             ELSE PslStopRun(At(board, "stop")))
                   /\ Walked(x, FALSE) /\ over' = over
      BY <2>1, <2>7, StopRunIs
    <3>3. board'.product = board.product
      BY <2>1, <3>2, StopEffectIs, KeptType DEF Walked
    <3>4. RC!StopOne
      BY <3>1, <3>2, StopMaps
    <3> QED
      BY <2>1, <3>3, <3>4, IsStep
  <2>8. CASE Apply
    BY <2>1, <2>2, <2>8, ApplyIs
  <2>9. CASE OtherTask
    BY <2>1, <2>2, <2>9, OtherTaskIs
  <2>10. CASE BeginBiasScan
    BY <2>1, <2>2, <2>10, ScanIs
  <2>11. CASE \E k \in Kinds : Trace(k)
    BY <2>1, <2>2, <2>11, TraceIs
  <2>12. CASE ReadTrace \/ EndBiasScan
    <3>1. PICK x : DataRead(x)
      BY <2>1, <2>12, DataReadIs
    <3>2. Kept(board, x.m) /\ ReadEffect(board, x) /\ TaskCalled(x, "read")
      BY <3>1 DEF DataRead, ReadEffect
    <3>3. board'.product = board.product
      BY <2>1, <3>2, KeptType DEF TaskCalled, Outcome
    <3>4. RC!TaskStep(Mod)
      BY <3>2, ReadMaps
    <3> QED
      BY <2>1, <3>3, <3>4, IsStep
  <2>13. CASE ParameterSet
    BY <2>1, <2>13, ParameterMaps
  <2>14. CASE RunEnds
    <3>1. RC!RunEnds(Mod) /\ board'.product = board.product
      BY <2>14, RunEndsMaps, RunEndsIs DEF Kept
    <3> QED
      BY <2>1, <3>1, IsStep
  <2>15. \/ Call("start") \/ Call("stop") \/ Return \/ StartRun \/ StopRun
         \/ Apply \/ OtherTask \/ BeginBiasScan \/ (ReadTrace \/ EndBiasScan)
         \/ (\E k \in Kinds : Trace(k)) \/ ParameterSet \/ RunEnds
    BY <1>2 DEF Next
  <2> QED
    BY <2>3, <2>4, <2>5, <2>6, <2>7, <2>8, <2>9, <2>10, <2>11, <2>12, <2>13, <2>14, <2>15
<1> QED
  BY <1>1, <1>2

\* The drivers implement RunControl: whatever the product, wherever the hardware
\* fails and whatever the DSP does while it is polled, what a call leaves in
\* Handel, in Xerxes and in the board is what RunControl says it may leave.
THEOREM Implementation == Spec => ImplementsRunControl
<1>1. Init => RC!Init
  BY InitMaps
<1>2. TypeOK /\ [Next]_vars => [RC!Next]_(RC!vars)
  BY StepMaps
<1>3. Spec => []TypeOK
  BY TypeCorrect
<1> QED
  BY <1>1, <1>2, <1>3, PTL DEF Spec, ImplementsRunControl, RC!Spec

-----------------------------------------------------------------------------
(* What a special run reports as done is done. *)

\* In an orderly behaviour the board executes nothing that Handel and Xerxes do
\* not know of, and no trace but the last one waits in it.
Orderly ==
    orderly =>
    /\ board.hw \in {"idle", "data", "scan"}
    /\ board.hw = "data" => board.run = TRUE /\ board.ctask = "none"
    /\ board.hw = "scan" => board.ctask # "none"
    /\ runActive => board.run = TRUE /\ board.ctask = "none"
    /\ board.runType = "special" => board.ctask # "none"
    /\ want # "none" => board.trace = want

\* An orderly behaviour's board works.
LEMMA OrderlyWorks ==
  ASSUME TypeOK, orderly
  PROVE  Works(board)
  BY DEF TypeOK, Works

\* A special run keeps an orderly behaviour orderly.
LEMMA OrderlyTask ==
  ASSUME TypeOK, Orderly, NEW x, NEW name, NEW t, NEW k, TaskMade(x, name, t, k)
  PROVE  Orderly'
<1> SUFFICES ASSUME orderly'
             PROVE  /\ board'.hw \in {"idle", "scan"}
                    /\ board'.hw = "scan" => board'.ctask # "none"
                    /\ runActive' = FALSE
                    /\ board'.runType = "special" => board'.ctask # "none"
                    /\ want' # "none" => board'.trace = want'
  BY DEF Orderly
<1>1. /\ TaskCalled(x, name) /\ TaskEffect(board, x, name, t, k) /\ t \in Tasks
      /\ name = "scan" => t = "scan"
      /\ t = "trace" =>
            want' = IF status' = "ok" /\ board.hw = "idle" THEN k ELSE "none"
      /\ t # "trace" => want' = want
  BY DEF TaskMade
<1>2. /\ orderly /\ runActive = FALSE /\ runActive' = FALSE /\ orderly' = orderly
      /\ board' = At(x.m, "task") /\ status' = IF x.ok THEN "ok" ELSE "error"
  BY <1>1 DEF TaskCalled, MayDoTask, Outcome, TypeOK, Orderly
<1>3. Kept(board, x.m) /\ TaskResult(board, x, name, t) /\ TraceRight(board, x, t, k)
      /\ x.ok \in BOOLEAN
  BY <1>1 DEF TaskEffect
<1>4. /\ board'.hw = x.m.hw /\ board'.runType = x.m.runType
      /\ board'.ctask = x.m.ctask /\ board'.trace = x.m.trace
  BY <1>2, <1>3, KeptType
<1>5. /\ board.hw \in {"idle", "scan"}
      /\ board.hw = "scan" => board.ctask # "none"
      /\ board.runType = "special" => board.ctask # "none"
      /\ want # "none" => board.trace = want
  BY <1>1, <1>2 DEF Orderly, TaskCalled, MayDoTask, TypeOK
<1>6. Works(board)
  BY <1>2, OrderlyWorks
<1>7. /\ board'.hw \in {"idle", "scan"}
      /\ board'.hw = "scan" => board'.ctask # "none"
      /\ board'.runType = "special" => board'.ctask # "none"
  <2>1. ~NotBegun(board, x) /\ ~IsNotStopped(board, x, name)
    BY <1>6 DEF NotBegun, IsNotStopped, Works
  <2>2. MayGoWrong(board) => board.hw = "scan"
    BY <1>5, <1>6 DEF MayGoWrong, Works
  <2>3. CASE Refuses(board, x)
    BY <1>4, <1>5, <2>3 DEF Refuses
  <2>4. CASE TimesOut(board, x, t)
    BY <1>4, <1>5, <2>2, <2>4 DEF TimesOut, Executes, Still
  <2>5. CASE Finishes(board, x, name)
    BY <1>4, <2>5 DEF Finishes
  <2>6. CASE Unseen(board, x, name) \/ IsToBeRead(board, x, name)
    BY <1>4, <2>6 DEF Unseen, IsToBeRead, Believed
  <2>7. CASE SaturnTimesOut(board, x, name, t)
    BY <1>4, <1>5, <2>2, <2>7 DEF SaturnTimesOut, Executes, Believed
  <2>8. CASE Scans(board, x, name, t)
    BY <1>1, <1>4, <1>5, <2>8 DEF Scans, Executes, Believed
  <2> QED
    BY <1>3, <2>1, <2>3, <2>4, <2>5, <2>6, <2>7, <2>8 DEF TaskResult
<1>8. CASE t # "trace"
  <2>1. board'.trace = board.trace
    BY <1>3, <1>4, <1>5, <1>6, <1>8 DEF TraceRight
  <2> QED
    BY <1>1, <1>2, <1>5, <1>7, <1>8, <2>1
<1>9. CASE t = "trace"
  <2>1. want' # "none" => x.ok = TRUE /\ board.hw = "idle" /\ want' = k
    BY <1>1, <1>2, <1>3, <1>9
  <2>2. want' # "none" => board'.trace = k
    BY <1>3, <1>4, <1>5, <1>6, <1>9, <2>1 DEF TraceRight
  <2> QED
    BY <1>1, <1>2, <1>7, <1>9, <2>1, <2>2
<1> QED
  BY <1>8, <1>9

\* So does reading its data.
LEMMA OrderlyRead ==
  ASSUME TypeOK, Orderly, NEW x, DataRead(x)
  PROVE  Orderly'
<1> SUFFICES ASSUME orderly'
             PROVE  /\ board'.hw \in {"idle", "scan"}
                    /\ board'.hw = "scan" => board'.ctask # "none"
                    /\ runActive' = FALSE
                    /\ board'.runType = "special" => board'.ctask # "none"
                    /\ want' # "none" => board'.trace = want'
  BY DEF Orderly
<1>1. /\ TaskCalled(x, "read") /\ ReadEffect(board, x)
      /\ want' = want
  BY DEF DataRead
<1>2. /\ orderly /\ runActive = FALSE /\ runActive' = FALSE /\ orderly' = orderly
      /\ board' = At(x.m, "task")
  BY <1>1 DEF TaskCalled, MayDoTask, Outcome, TypeOK, Orderly
<1>3. /\ board'.hw = x.m.hw /\ board'.runType = x.m.runType
      /\ board'.ctask = x.m.ctask /\ board'.trace = x.m.trace
  BY <1>1, <1>2, KeptType DEF ReadEffect
<1>4. /\ board.hw \in {"idle", "scan"}
      /\ board.hw = "scan" => board.ctask # "none"
      /\ board.runType = "special" => board.ctask # "none"
      /\ want # "none" => board.trace = want
  BY <1>1, <1>2 DEF Orderly, TaskCalled, MayDoTask, TypeOK
<1>5. board'.trace = board.trace
  BY <1>1, <1>2, <1>3, <1>4, OrderlyWorks DEF ReadEffect
<1>6. /\ board'.hw \in {"idle", "scan"}
      /\ board'.hw = "scan" => board'.ctask # "none"
      /\ board'.runType = "special" => board'.ctask # "none"
  BY <1>1, <1>3, <1>4 DEF ReadEffect
<1> QED
  BY <1>1, <1>2, <1>4, <1>5, <1>6

\* So do the steps that leave the run, the marks and the trace.
LEMMA OrderlySame ==
  ASSUME Orderly, UNCHANGED <<orderly, runActive, want>>,
         board'.hw = board.hw \/ board'.hw = "idle",
         board'.run = board.run, board'.ctask = board.ctask,
         board'.runType = board.runType,
         board.hw # "trace" => board'.trace = board.trace
  PROVE  Orderly'
  BY DEF Orderly

\* So does xiaStartRun.
LEMMA OrderlyStart ==
  ASSUME TypeOK, Orderly, UNCHANGED want, NEW x, Walked(x, TRUE),
         x \in (IF Started THEN Done(board) ELSE StartOneRun(At(board, "start")))
  PROVE  Orderly'
<1>1. /\ Started => x.ok = TRUE /\ x.m = board
      /\ ~Started => StartEffect(board, x)
      /\ Kept(board, x.m) /\ x.ok \in BOOLEAN /\ runActive \in BOOLEAN
      /\ multi \in BOOLEAN /\ (Started <=> multi /\ runActive)
  BY StartEffectIs DEF TypeOK, Started
<1>2. /\ orderly' = orderly /\ board' = At(x.m, "task")
      /\ runActive' = IF x.ok /\ multi THEN TRUE ELSE runActive
  BY DEF Walked
<1>3. /\ board'.hw = x.m.hw /\ board'.runType = x.m.runType /\ board'.run = x.m.run
      /\ board'.ctask = x.m.ctask /\ board'.trace = x.m.trace
  BY <1>1, <1>2, KeptType
<1>4. CASE Started
  BY <1>1, <1>2, <1>3, <1>4 DEF Orderly
<1>5. CASE ~Started /\ x.ok = FALSE
  BY <1>1, <1>2, <1>3, <1>5 DEF Orderly, StartEffect
<1>6. CASE ~Started /\ x.ok = TRUE
  <2>1. /\ board.ctask = "none" /\ board'.ctask = "none" /\ board'.run = TRUE
        /\ board'.hw = (IF board.runType = "normal" THEN "data" ELSE board.task)
        /\ board'.runType = board.runType /\ board'.trace = board.trace
    BY <1>1, <1>3, <1>6 DEF StartEffect
  <2>2. board.runType \in {"normal", "special"}
    BY DEF TypeOK, BoardSet
  <2> QED
    BY <1>2, <2>1, <2>2 DEF Orderly
<1> QED
  BY <1>1, <1>4, <1>5, <1>6

\* So does xiaStopRun: it may end a bias scan of a module of one channel, and
\* the marks of the scan stay.
LEMMA OrderlyStop ==
  ASSUME TypeOK, Orderly, UNCHANGED want, NEW x, Walked(x, FALSE),
         x \in (IF Stopped THEN Done(board) ELSE PslStopRun(At(board, "stop")))
  PROVE  Orderly'
<1>1. /\ Stopped => x.ok = TRUE /\ x.m = board
      /\ ~Stopped => StopEffect(board, x)
      /\ Kept(board, x.m) /\ x.ok \in BOOLEAN /\ runActive \in BOOLEAN
      /\ multi \in BOOLEAN /\ (Stopped <=> multi /\ ~runActive)
      /\ runActive => multi
  BY StopEffectIs DEF TypeOK, Stopped
<1>2. /\ orderly' = orderly /\ board' = At(x.m, "task")
      /\ runActive' = IF x.ok /\ multi THEN FALSE ELSE runActive
  BY DEF Walked
<1>3. /\ board'.hw = x.m.hw /\ board'.runType = x.m.runType /\ board'.run = x.m.run
      /\ board'.ctask = x.m.ctask /\ board'.trace = x.m.trace
  BY <1>1, <1>2, KeptType
<1>4. CASE Stopped
  BY <1>1, <1>2, <1>3, <1>4 DEF Orderly
<1>5. CASE ~Stopped
  <2> SUFFICES ASSUME orderly
               PROVE  Orderly'
    BY <1>2 DEF Orderly
  <2>1. /\ board.hw \in {"idle", "data", "scan"} /\ "stop" \notin board.may
        /\ board.run \in BOOLEAN
    BY OrderlyWorks DEF Orderly, Works, TypeOK, BoardSet
  <2>2. /\ board'.hw \in {board.hw, "idle"} /\ board'.ctask = board.ctask
        /\ board'.runType = board.runType /\ board'.trace = board.trace
        /\ board.run = TRUE => board'.hw = "idle" /\ x.ok = TRUE
    BY <1>1, <1>3, <1>5, <2>1 DEF StopEffect
  <2>3. runActive' = FALSE
    BY <1>1, <1>2, <2>2 DEF Orderly
  <2> QED
    BY <1>2, <2>1, <2>2, <2>3 DEF Orderly
<1> QED
  BY <1>4, <1>5

\* Every step does.
LEMMA OrderlyNext ==
  ASSUME TypeOK, Orderly, [Next]_vars
  PROVE  Orderly'
<1>1. CASE UNCHANGED vars
  BY <1>1 DEF vars, Orderly
<1>2. CASE Next
  <2>1. orderly' = orderly /\ multi' = multi
    BY <1>2 DEF Next
  <2>2. CASE Call("start") \/ Call("stop") \/ Return
    BY <2>1, <2>2, OrderlySame DEF Call, Return
  <2>3. CASE StartRun
    BY <2>1, <2>3, StartRunIs, OrderlyStart
  <2>4. CASE StopRun
    BY <2>1, <2>4, StopRunIs, OrderlyStop
  <2>5. CASE Apply
    BY <2>1, <2>5, ApplyIs, OrderlyTask
  <2>6. CASE OtherTask
    BY <2>1, <2>6, OtherTaskIs, OrderlyTask
  <2>7. CASE BeginBiasScan
    BY <2>1, <2>7, ScanIs, OrderlyTask
  <2>8. CASE \E k \in Kinds : Trace(k)
    BY <2>1, <2>8, TraceIs, OrderlyTask
  <2>9. CASE ReadTrace \/ EndBiasScan
    BY <2>1, <2>9, DataReadIs, OrderlyRead
  <2>10. CASE ParameterSet
    BY <2>1, <2>10, ParameterIs, OrderlySame DEF ParameterSet
  <2>11. CASE RunEnds
    BY <2>1, <2>11, RunEndsIs, OrderlySame DEF RunEnds
  <2> QED
    BY <1>2, <2>2, <2>3, <2>4, <2>5, <2>6, <2>7, <2>8, <2>9, <2>10, <2>11 DEF Next
<1> QED
  BY <1>1, <1>2

\* An apply of the xMAP or the Mercury that has succeeded has been applied.
LEMMA ApplyDone ==
  ASSUME TypeOK, Apply, orderly' = orderly, multi' = multi, status' = "ok",
         board.product \in {"xmap", "mercury"}
  PROVE  board'.fresh
<1>1. PICK x, t : /\ TaskMade(x, "apply", t, board.kind)
                  /\ x.ok /\ board.product \in {"xmap", "mercury"} => x.m.fresh
  BY ApplyIs
<1>2. /\ Kept(board, x.m) /\ board' = At(x.m, "task")
      /\ status' = IF x.ok THEN "ok" ELSE "error"
  BY <1>1 DEF TaskMade, TaskEffect, TaskCalled, Outcome
<1>3. board'.fresh = x.m.fresh
  BY <1>2, KeptType
<1> QED
  BY <1>1, <1>2, <1>3

\* What a special run reports as done is done, whatever the product and wherever
\* the hardware fails: an apply has been applied; and without failures a trace
\* that is read is of the kind that was asked for.
THEOREM TasksDone == Spec => TasksAreDone
<1> DEFINE Step == /\ status' = "ok" /\ board.product \in {"xmap", "mercury"} /\ Apply
                         => board'.fresh
                   /\ orderly /\ status' = "ok" /\ want # "none" /\ ReadTrace
                         => board'.trace = want
<1>1. Init => Orderly
  BY DEF Init, Orderly
<1>2. TypeOK /\ Orderly /\ [Next]_vars => Orderly'
  BY OrderlyNext
<1>3. TypeOK /\ Orderly /\ Orderly' /\ [Next]_vars => [Step]_vars
  <2> SUFFICES ASSUME TypeOK, Orderly', Next
               PROVE  Step
    OBVIOUS
  <2>1. orderly' = orderly /\ multi' = multi
    BY DEF Next
  <2>2. Apply /\ status' = "ok" /\ board.product \in {"xmap", "mercury"} => board'.fresh
    BY <2>1, ApplyDone
  <2>3. orderly /\ want # "none" /\ ReadTrace => board'.trace = want
    BY <2>1 DEF Orderly, ReadTrace
  <2> QED
    BY <2>2, <2>3
<1>4. Spec => []TypeOK
  BY TypeCorrect
<1> QED
  BY <1>1, <1>2, <1>3, <1>4, PTL DEF Spec, TasksAreDone
=============================================================================
