----------------------- MODULE MappingBuffers_proofs -----------------------
(***************************************************************************)
(* The two buffers are a queue, for every number of pixels and polls, and  *)
(* whether emptying a buffer can time out or not.                          *)
(*                                                                         *)
(* The argument: during a run the buffer the application turns to next is  *)
(* due, that is, it holds the oldest fill that was not read, or is the one *)
(* the FPGA fills (Due).  From the end of a read until the buffer is empty *)
(* again it is the other one that is due (Spent).                          *)
(***************************************************************************)
EXTENDS MappingBuffers, TLAPS

\* The application has not read b yet; b is, or will be, the oldest fill.
Due(b) ==
    /\ \A c \in full : held[c] > got
    /\ b \notin full => full = {} /\ cur = b
    /\ b \in full /\ Other(b) \notin full => cur = Other(b)
    /\ b \in full /\ Other(b) \in full => cur = b /\ held[b] < held[Other(b)]

\* The application has read b, and b is not empty yet.
Spent(b) ==
    /\ b \in full /\ held[b] = got
    /\ Other(b) \notin full => cur = Other(b)
    /\ Other(b) \in full => cur = b /\ held[Other(b)] > got

Looping == {"wait", "read", "burst", "pixel", "switch"}
Clearing == {"done", "poll", "failed"}

\* A run is active exactly in the loop of the application, but for the time a
\* buffer is cleared in.
WhenActive ==
    /\ pc \in Looping => active
    /\ pc \in {"stopped", "begin"} => ~active

\* A buffer that is empty is not full and not being emptied.
EmptyIsEmpty == \A b \in empty : b \notin full /\ b \notin clearing

\* pslStartRun empties first one buffer, then the other.
StartInv ==
    ~active =>
        /\ pc = "begin" => empty = Buffers
        /\ pc \in {"done", "poll"} /\ buf = "b" => "a" \in empty
        /\ pc \in {"done", "poll", "begin"} => ~overrun

\* The buffers and the place of the application in its loop.
RunInv ==
    active =>
        /\ empty = Buffers \ full
        /\ \A b \in full : held[b] < fills
        /\ got < fills
        /\ pc \in Looping => clearing = {} /\ Due(want)
        /\ pc = "switch" => doneBits = {}
        /\ pc \in {"read", "burst"} => want \in full
        /\ pc = "burst" => seen = held[want]
        /\ pc \in {"done", "poll"} => buf = want
        /\ pc = "done" => clearing = {} /\ Spent(want)
        /\ pc \in {"poll", "failed"} => \/ clearing = {want} /\ Spent(want)
                                        \/ clearing = {} /\ Due(Other(want))

Inv == WhenActive /\ EmptyIsEmpty /\ StartInv /\ RunInv

\* The actions, whatever the product.
PollLimits == {PollScale, 2 * PollScale}
Step ==
    \/ Pixel \/ MapPixelNext \/ \E b \in Buffers : Emptied(b)
    \/ ClearAndStart \/ StjStartRun \/ BeginRun \/ StopRun
    \/ ClearBegins \/ \E n \in PollLimits : ClearPoll(n) \/ ClearTimesOut(n)
    \/ AskFull \/ ReadBegins \/ ReadEnds
    \/ AskPixel \/ AskPixelHigh \/ SwitchBuffer \/ SwitchWritten

\* Every step is one of these actions.
LEMMA NextIsStep == Next => Step
  BY DEF Next, Step, Asks, Goes, ClearBuffer, GetBuffer, GetCurrentPixel, PollLimits,
     XmapStartRun, XmapClearBuffer, XmapGetBufferFull, XmapGetBuffer,
     XmapGetCurrentPixel, XmapMapPixelNext, MercuryStartRun, MercuryClearBuffer,
     MercuryGetBufferFull, MercuryGetBuffer, MercuryGetCurrentPixel,
     MercuryMapPixelNext, StjClearBuffer, StjGetBufferFull, StjGetBuffer,
     StjGetCurrentPixel, StjMapPixelNext

-----------------------------------------------------------------------------
(* Types. *)

\* The two words of a pixel number are natural numbers.
LEMMA WordsAreNat ==
  ASSUME NEW p \in Nat
  PROVE  p % WordSize \in Nat /\ WordSize * (p \div WordSize) \in Nat
<1>1. WordSize \in Nat /\ WordSize > 0
  BY MappingAssumption
<1>2. p % WordSize \in Nat /\ p \div WordSize \in Nat
  BY <1>1
<1>. QED  BY <1>1, <1>2

\* The counters may be zero.
LEMMA Bounds == /\ 0 \in 0..(2 * PollScale) /\ 0 \in 0..(PixelsPerFill - 1)
                /\ PollScale \in Nat /\ 2 * PollScale \in Nat /\ PollScale <= 2 * PollScale
  BY MappingAssumption

\* The type invariant but for the Boolean variables, which come first.
Flags == active \in BOOLEAN /\ overrun \in BOOLEAN
TypeRest ==
    /\ product \in Products
    /\ full \subseteq Buffers /\ empty \subseteq Buffers /\ clearing \subseteq Buffers
    /\ cur \in Buffers /\ want \in Buffers /\ buf \in Buffers
    /\ held \in [Buffers -> Nat]
    /\ fills \in Nat \ {0} /\ pixel \in Nat /\ inFill \in 0..(PixelsPerFill - 1)
    /\ pc \in {"stopped", "done", "poll", "begin", "wait", "read", "burst",
               "pixel", "switch", "failed"}
    /\ polls \in 0..(2 * PollScale)
    /\ doneBits \subseteq Buffers
    /\ seen \in Nat /\ from \in Nat /\ got \in Nat /\ shown \in Nat

\* The initial state has the types.
LEMMA InitTypeOK == Init => TypeOK
<1>1. Init => Flags
  BY DEF Init, Flags
<1>2. Init => TypeRest
  BY Bounds DEF Init, TypeRest, Buffers
<1>. QED  BY <1>1, <1>2 DEF TypeOK, TypeRest, Flags

\* The Boolean variables stay Boolean.
LEMMA FlagsStep ==
  ASSUME TypeOK, Next
  PROVE  Flags'
<1>. USE DEF Flags, fpga
<1>1. Flags
  BY DEF TypeOK
<1>2. CASE Pixel \/ MapPixelNext
  BY <1>1, <1>2 DEF Pixel, MapPixelNext, Advance
<1>3. ASSUME NEW b \in Buffers, Emptied(b) PROVE Flags'
  BY <1>1, <1>3 DEF Emptied
<1>4. CASE ClearAndStart \/ StjStartRun \/ BeginRun \/ StopRun
  BY <1>1, <1>4 DEF ClearAndStart, StjStartRun, BeginRun, RunBegins, StopRun
<1>5. CASE ClearBegins
  BY <1>1, <1>5 DEF ClearBegins
<1>6. ASSUME NEW n \in PollLimits, ClearPoll(n) \/ ClearTimesOut(n) PROVE Flags'
  BY <1>1, <1>6 DEF ClearPoll, ClearTimesOut
<1>7. CASE AskFull \/ ReadBegins \/ ReadEnds \/ AskPixel \/ AskPixelHigh
  BY <1>1, <1>7 DEF AskFull, ReadBegins, ReadEnds, AskPixel, AskPixelHigh
<1>8. CASE SwitchBuffer \/ SwitchWritten
  BY <1>1, <1>8 DEF SwitchBuffer, SwitchWritten
<1>. QED
  BY NextIsStep, <1>2, <1>3, <1>4, <1>5, <1>6, <1>7, <1>8 DEF Step

\* Every action keeps the other types.
LEMMA RestStep ==
  ASSUME TypeRest, Next
  PROVE  TypeRest'
<1>. USE Bounds DEF Buffers, Other, TypeRest, fpga, app, host, Go
<1>1. CASE Pixel \/ MapPixelNext
  <2>1. Advance /\ UNCHANGED <<product, host, app>>
    BY <1>1 DEF Pixel, MapPixelNext
  <2>2. CASE cur \in empty /\ inFill + 1 < PixelsPerFill /\ inFill' = inFill + 1
             /\ UNCHANGED <<full, empty, held, fills, cur, overrun>>
    BY <2>1, <2>2, MappingAssumption DEF Advance
  <2>3. CASE FillEnds
    BY <2>1, <2>3 DEF Advance, FillEnds
  <2>4. CASE fills' = fills + 1 /\ UNCHANGED <<full, empty, held, inFill, cur>>
    BY <2>1, <2>4 DEF Advance
  <2>. QED  BY <2>1, <2>2, <2>3, <2>4 DEF Advance
<1>2. ASSUME NEW b \in Buffers, Emptied(b) PROVE TypeRest'
  BY <1>2 DEF Emptied
<1>3. CASE ClearAndStart
  BY <1>3 DEF ClearAndStart
<1>4. CASE StopRun
  BY <1>4 DEF StopRun
<1>5. CASE StjStartRun
  BY <1>5 DEF StjStartRun, RunBegins
<1>6. CASE BeginRun
  BY <1>6 DEF BeginRun, RunBegins
<1>7. CASE ClearBegins
  BY <1>7 DEF ClearBegins, WriteDone
<1>8. ASSUME NEW n \in PollLimits, ClearPoll(n) \/ ClearTimesOut(n) PROVE TypeRest'
  <2>1. CASE ClearTimesOut(n)
    BY <2>1 DEF ClearTimesOut
  <2>2. CASE ClearPoll(n) /\ Cleared /\ polls' = 0
    BY <2>2 DEF ClearPoll, Cleared
  <2>3. CASE ClearPoll(n) /\ polls < n /\ polls' = polls + 1 /\ UNCHANGED <<pc, buf, want>>
    BY <2>3 DEF ClearPoll, PollLimits
  <2>. QED  BY <1>8, <2>1, <2>2, <2>3 DEF ClearPoll
<1>9. CASE AskFull
  BY <1>9 DEF AskFull
<1>10. CASE ReadBegins
  BY <1>10 DEF ReadBegins
<1>11. CASE ReadEnds
  BY <1>11 DEF ReadEnds
<1>12. CASE AskPixel
  BY <1>12, WordsAreNat DEF AskPixel
<1>13. CASE AskPixelHigh
  BY <1>13, WordsAreNat DEF AskPixelHigh
<1>14. CASE SwitchBuffer
  BY <1>14 DEF SwitchBuffer
<1>15. CASE SwitchWritten
  <2>1. Go("wait") /\ UNCHANGED <<product, active, overrun, pixel, app>>
    BY <1>15 DEF SwitchWritten
  <2>2. CASE FillEnds /\ clearing' = clearing \cup doneBits
    BY <2>1, <2>2 DEF FillEnds
  <2>3. CASE WriteDone(doneBits) /\ UNCHANGED <<full, held, fills, inFill, cur>>
    BY <2>1, <2>3 DEF WriteDone
  <2>. QED  BY <1>15, <2>2, <2>3 DEF SwitchWritten
<1>. QED
  BY NextIsStep, <1>1, <1>2, <1>3, <1>4, <1>5, <1>6, <1>7, <1>8, <1>9, <1>10, <1>11,
     <1>12, <1>13, <1>14, <1>15 DEF Step

\* Every step keeps the types.
LEMMA TypeStep == TypeOK /\ [Next]_vars => TypeOK'
<1>1. TypeOK => TypeRest
  BY DEF TypeOK, TypeRest
<1>2. Flags' /\ TypeRest' => TypeOK'
  BY DEF TypeOK, TypeRest, Flags
<1>3. TypeOK /\ UNCHANGED vars => TypeOK'
  BY DEF TypeOK, vars, fpga, host, app
<1>. QED  BY <1>1, <1>2, <1>3, FlagsStep, RestStep

-----------------------------------------------------------------------------
(* The invariant is inductive. *)

\* No run is active at first, and nothing is being emptied.
LEMMA InitInv == Init => Inv
  BY DEF Init, Inv, WhenActive, EmptyIsEmpty, StartInv, RunInv, Looping

\* What is due stays due when a buffer is filled.
LEMMA FillKeeps ==
  ASSUME TypeRest, Inv, active, cur \in empty, FillEnds, UNCHANGED got, NEW b \in Buffers
  PROVE  /\ cur \notin full /\ cur \notin clearing
         /\ Due(b) => Due(b)'
         /\ Spent(b) => Spent(b)'
<1>. USE DEF Inv, TypeRest, Buffers, Other
<1>1. cur \notin full /\ cur \notin clearing
  BY DEF EmptyIsEmpty
<1>2. full' = full \cup {cur} /\ cur' = Other(cur) /\ held'[cur] = fills
      /\ held'[Other(cur)] = held[Other(cur)]
  BY DEF FillEnds
<1>3. Due(b) => Due(b)'
  BY <1>1, <1>2 DEF Due, RunInv
<1>4. Spent(b) => Spent(b)'
  BY <1>1, <1>2 DEF Spent, RunInv
<1>. QED  BY <1>1, <1>3, <1>4

\* A pixel ends in a buffer that is not full, and fills it or not; or there is
\* none, and the FPGA drops it.
LEMMA AdvanceInv ==
  ASSUME TypeRest, Inv, Advance, UNCHANGED <<product, host, app>>
  PROVE  Inv'
<1>. USE DEF Inv, TypeRest, Buffers, Other, host, app
<1>1. active /\ UNCHANGED <<active, clearing, pc, buf, want, got, seen, doneBits>>
  BY DEF Advance
<1>2. CASE UNCHANGED <<full, empty, held, cur>> /\ fills' \in {fills, fills + 1}
  BY <1>1, <1>2 DEF WhenActive, EmptyIsEmpty, StartInv, RunInv, Due, Spent
<1>3. CASE cur \in empty /\ FillEnds
  <2>1. /\ cur \notin full /\ cur \notin clearing
        /\ \A b \in Buffers : (Due(b) => Due(b)') /\ (Spent(b) => Spent(b)')
    BY <1>1, <1>3, FillKeeps
  <2>2. WhenActive' /\ EmptyIsEmpty' /\ StartInv'
    BY <1>1, <1>3, <2>1 DEF FillEnds, WhenActive, EmptyIsEmpty, StartInv
  <2>3. RunInv'
    BY <1>1, <1>3, <2>1 DEF FillEnds, RunInv, Looping
  <2>. QED  BY <2>2, <2>3
<1>. QED  BY <1>2, <1>3 DEF Advance

\* Every action keeps the invariant.
LEMMA InvStep ==
  ASSUME TypeRest, Inv, Next
  PROVE  Inv'
<1>. USE DEF Inv, TypeRest, Buffers, Other, WhenActive, EmptyIsEmpty, StartInv, RunInv,
             Looping, Due, Spent, fpga, app, host, Go
<1>1. CASE Pixel \/ MapPixelNext
  BY <1>1, AdvanceInv DEF Pixel, MapPixelNext
<1>2. ASSUME NEW b \in Buffers, Emptied(b) PROVE Inv'
  BY <1>2 DEF Emptied
<1>3. CASE ClearAndStart
  BY <1>3 DEF ClearAndStart
<1>4. CASE StopRun
  BY <1>4 DEF StopRun
<1>5. CASE StjStartRun
  BY <1>5 DEF StjStartRun, RunBegins
<1>6. CASE BeginRun
  BY <1>6 DEF BeginRun, RunBegins
<1>7. CASE ClearBegins
  BY <1>7 DEF ClearBegins, WriteDone
<1>8. ASSUME NEW n \in PollLimits, ClearPoll(n) \/ ClearTimesOut(n) PROVE Inv'
  <2>1. CASE ClearTimesOut(n)
    BY <2>1 DEF ClearTimesOut
  <2>2. CASE ClearPoll(n) /\ Cleared
    BY <2>2 DEF ClearPoll, Cleared
  <2>3. CASE ClearPoll(n) /\ UNCHANGED <<pc, buf, want>>
    BY <2>3 DEF ClearPoll
  <2>. QED  BY <1>8, <2>1, <2>2, <2>3 DEF ClearPoll
<1>9. CASE AskFull
  BY <1>9 DEF AskFull, BufferFull
<1>10. CASE ReadBegins
  BY <1>10 DEF ReadBegins
<1>11. CASE ReadEnds
  BY <1>11 DEF ReadEnds
<1>12. CASE AskPixel
  BY <1>12 DEF AskPixel
<1>13. CASE AskPixelHigh
  BY <1>13 DEF AskPixelHigh
<1>14. CASE SwitchBuffer
  BY <1>14 DEF SwitchBuffer
<1>15. CASE SwitchWritten
  <2>1. /\ active /\ pc = "switch" /\ clearing = {} /\ doneBits = {}
        /\ Go("wait") /\ UNCHANGED <<product, active, overrun, pixel, app>>
    BY <1>15 DEF SwitchWritten
  <2>2. CASE cur \in empty /\ FillEnds /\ clearing' = clearing \cup doneBits
    <3>1. Due(want) => Due(want)'
      BY <2>1, <2>2, FillKeeps
    <3>. QED  BY <2>1, <2>2, <3>1 DEF FillEnds
  <2>3. CASE WriteDone(doneBits) /\ UNCHANGED <<full, held, fills, inFill, cur>>
    BY <2>1, <2>3 DEF WriteDone
  <2>. QED  BY <1>15, <2>2, <2>3 DEF SwitchWritten
<1>. QED
  BY NextIsStep, <1>1, <1>2, <1>3, <1>4, <1>5, <1>6, <1>7, <1>8, <1>9, <1>10, <1>11,
     <1>12, <1>13, <1>14, <1>15 DEF Step

\* The invariant holds in every state.
LEMMA Invariance == Spec => [](TypeOK /\ Inv)
<1>1. Init => TypeOK /\ Inv
  BY InitTypeOK, InitInv
<1>2. TypeOK => TypeRest
  BY DEF TypeOK, TypeRest
<1>3. TypeOK /\ Inv /\ UNCHANGED vars => Inv'
  BY DEF vars, fpga, host, app, Inv, WhenActive, EmptyIsEmpty, StartInv, RunInv, Due, Spent
<1>4. TypeOK /\ Inv /\ [Next]_vars => (TypeOK /\ Inv)'
  BY <1>2, <1>3, TypeStep, InvStep
<1>. QED  BY <1>1, <1>4, PTL DEF Spec

\* Every variable keeps its type: the FPGA's buffers and counters and the place of
\* the application in its loop (psl__GetBufferFull to psl__ClearBuffer).
THEOREM TypeCorrect == Spec => []TypeOK
  BY Invariance, PTL

\* The buffer an application waits for is the one that fills first, so that it never
\* waits for one buffer while the other is full: "buffer_done" switches buffers as
\* the FPGA does, for every size of a buffer and every number of polls.
THEOREM OldestFirst == Spec => []WaitsForTheOldest
<1>1. TypeOK /\ Inv => WaitsForTheOldest
  BY DEF TypeOK, Inv, RunInv, Looping, Due, WaitsForTheOldest
<1>. QED  BY Invariance, <1>1, PTL

-----------------------------------------------------------------------------
(* The buffers are a queue. *)

\* What waits to be read, from b on.
DueFrom(b) == IF b \notin full THEN <<>>
              ELSE IF Other(b) \notin full THEN <<held[b]>>
              ELSE <<held[b], held[Other(b)]>>
DueAfter(b) == IF Other(b) \in full THEN <<held[Other(b)]>> ELSE <<>>
Ordered == TypeRest => \A b \in Buffers : /\ Due(b) => Waiting = DueFrom(b)
                                          /\ Spent(b) => Waiting = DueAfter(b)

\* The fills that wait are those of the buffer that is due and then of the other.
LEMMA WaitingIs == Ordered
<1>. SUFFICES ASSUME TypeRest, NEW b \in Buffers
              PROVE  /\ Due(b) => Waiting = DueFrom(b)
                     /\ Spent(b) => Waiting = DueAfter(b)
  BY DEF Ordered
<1>. USE DEF TypeRest, Buffers, Other
<1>1. ASSUME Unread = {} PROVE Waiting = <<>>
  BY <1>1 DEF Waiting
<1>2. ASSUME NEW c \in Buffers, Unread = {c} PROVE Waiting = <<held[c]>>
  <2>1. (CHOOSE d \in Buffers : Unread = {d}) = c
    BY <1>2
  <2>. QED  BY <1>2, <2>1 DEF Waiting
<1>3. ASSUME Unread = Buffers, NEW c \in Buffers, held[c] < held[Other(c)]
      PROVE  Waiting = <<held[c], held[Other(c)]>>
  <2>1. Unread # {} /\ ~\E d \in Buffers : Unread = {d}
    BY <1>3
  <2>2. Waiting = IF held["a"] < held["b"] THEN <<held["a"], held["b"]>>
                  ELSE <<held["b"], held["a"]>>
    BY <2>1 DEF Waiting
  <2>. QED  BY <1>3, <2>2
<1>4. ASSUME Due(b) PROVE Waiting = DueFrom(b)
  <2>1. Unread = full
    BY <1>4 DEF Due, Unread
  <2>2. CASE b \notin full
    BY <1>1, <1>4, <2>1, <2>2 DEF Due, DueFrom
  <2>3. CASE b \in full /\ Other(b) \notin full
    <3>1. Unread = {b}
      BY <2>1, <2>3
    <3>. QED  BY <1>2, <2>3, <3>1 DEF DueFrom
  <2>4. CASE b \in full /\ Other(b) \in full
    <3>1. Unread = Buffers /\ held[b] < held[Other(b)]
      BY <1>4, <2>1, <2>4 DEF Due
    <3>. QED  BY <1>3, <2>4, <3>1 DEF DueFrom
  <2>. QED  BY <2>2, <2>3, <2>4
<1>5. ASSUME Spent(b) PROVE Waiting = DueAfter(b)
  <2>0. ~(held[b] > got) /\ \A c \in full : c = b \/ c = Other(b)
    BY <1>5 DEF Spent
  <2>1. CASE Other(b) \in full
    <3>1. held[Other(b)] > got
      BY <1>5, <2>1 DEF Spent
    <3>2. Unread = {Other(b)}
      BY <2>1, <2>0, <3>1 DEF Unread
    <3>. QED  BY <1>2, <2>1, <3>2 DEF DueAfter
  <2>2. CASE Other(b) \notin full
    <3>1. Unread = {}
      BY <2>0, <2>2 DEF Unread
    <3>. QED  BY <1>1, <2>2, <3>1 DEF DueAfter
  <2>. QED  BY <2>1, <2>2
<1>. QED  BY <1>4, <1>5

\* The same of the next state.
LEMMA WaitingNext == Ordered'
  BY WaitingIs, PTL

\* One of the two holds during a run.
LEMMA DueOrSpent ==
  ASSUME TypeRest, Inv, active
  PROVE  \E b \in Buffers : Due(b) \/ Spent(b)
  BY DEF TypeRest, Inv, WhenActive, RunInv, Looping, Buffers, Other

\* Steps that change nothing the queue consists of.
LEMMA Stutters ==
  ASSUME UNCHANGED <<active, full, held, fills, got, overrun>>
  PROVE  UNCHANGED Queue!vars
<1>1. Unread' = Unread
  BY DEF Unread
<1>2. Waiting' = Waiting
  BY <1>1 DEF Waiting
<1>. QED  BY <1>2 DEF Queue!vars, BufferOverrun

\* A run that ends, or that begins with empty buffers.
LEMMA Restarts ==
  ASSUME \/ ~active'
         \/ active' = TRUE /\ full' = {} /\ fills' = 1 /\ got' = 0 /\ overrun' = FALSE
  PROVE  Queue!Restart
<1>1. full' = {} => Waiting' = <<>>
  BY DEF Waiting, Unread
<1>. QED  BY <1>1 DEF Queue!Restart, BufferOverrun

\* A pixel fills a buffer, or is lost.
LEMMA Fills ==
  ASSUME TypeRest, Inv, active, cur \in empty, FillEnds, UNCHANGED <<active, got, overrun>>,
         TypeRest'
  PROVE  Queue!Produce
<1>. USE DEF TypeRest, Buffers, Other
<1>1. PICK b \in Buffers : Due(b) \/ Spent(b)
  BY DueOrSpent
<1>2. cur \notin full /\ (Due(b) => Due(b)') /\ (Spent(b) => Spent(b)')
  BY FillKeeps
<1>3. full' = full \cup {cur} /\ held'[cur] = fills /\ held'[Other(cur)] = held[Other(cur)]
      /\ fills' = fills + 1
  BY DEF FillEnds
<1>4. CASE Due(b)
  <2>1. Waiting = DueFrom(b) /\ Waiting' = DueFrom(b)'
    BY <1>2, <1>4, WaitingIs, WaitingNext DEF Ordered
  <2>2. CASE b \notin full
    BY <1>2, <1>3, <1>4, <2>1, <2>2, SMTT(30) DEF Due, DueFrom, Queue!Produce, BufferOverrun
  <2>3. CASE b \in full
    <3>1. cur = Other(b) /\ Other(b) \notin full /\ full' = Buffers
      BY <1>2, <1>3, <1>4, <2>3 DEF Due
    <3>2. Waiting = <<held[b]>> /\ Waiting' = <<held[b], fills>>
      BY <1>3, <2>1, <2>3, <3>1 DEF DueFrom
    <3>. QED  BY <1>3, <3>2 DEF Queue!Produce, BufferOverrun
  <2>. QED  BY <2>2, <2>3
<1>5. CASE Spent(b)
  <2>1. Waiting = DueAfter(b) /\ Waiting' = DueAfter(b)'
    BY <1>2, <1>5, WaitingIs, WaitingNext DEF Ordered
  <2>2. cur = Other(b) /\ Other(b) \notin full /\ full' = Buffers
    BY <1>2, <1>3, <1>5 DEF Spent
  <2>3. Waiting = <<>> /\ Waiting' = <<fills>>
    BY <1>3, <2>1, <2>2 DEF DueAfter
  <2>. QED  BY <1>3, <2>3 DEF Queue!Produce, BufferOverrun
<1>. QED  BY <1>1, <1>4, <1>5

\* During a run a buffer that is not empty is full.
LEMMA NotEmptyIsFull ==
  ASSUME TypeRest, Inv, active, NEW b \in Buffers, b \notin empty
  PROVE  b \in full
<1>1. empty = Buffers \ full
  BY DEF Inv, RunInv
<1>. QED  BY <1>1

\* A pixel fills a buffer, is lost, or ends no fill.
LEMMA AdvanceIsQueue ==
  ASSUME TypeRest, TypeRest', Inv, Advance, UNCHANGED <<product, host, app>>
  PROVE  Queue!Next \/ UNCHANGED Queue!vars
<1>1. active /\ UNCHANGED <<active, got>>
  BY DEF Advance, app
<1>2. CASE UNCHANGED <<full, empty, held, fills, cur, overrun>>
  BY <1>1, <1>2, Stutters
<1>3. CASE cur \in empty /\ FillEnds /\ UNCHANGED overrun
  BY <1>1, <1>3, Fills DEF Queue!Next
<1>4. CASE cur \notin empty /\ overrun' = TRUE /\ fills' = fills + 1
           /\ UNCHANGED <<full, empty, held, inFill, cur>>
  <2>1. PICK b \in Buffers : Due(b) \/ Spent(b)
    BY <1>1, DueOrSpent
  <2>2. Waiting # <<>>
    <3>1. cur \in full
      BY <1>1, <1>4, NotEmptyIsFull DEF TypeRest
    <3>2. Ordered
      BY WaitingIs
    <3>3. CASE Due(b)
      <4>1. Waiting = DueFrom(b)
        BY <3>2, <3>3 DEF Ordered
      <4>2. b \in full
        BY <3>1, <3>3 DEF Due
      <4>. QED  BY <4>1, <4>2 DEF DueFrom
    <3>4. CASE Spent(b)
      <4>1. Waiting = DueAfter(b)
        BY <3>2, <3>4 DEF Ordered
      <4>2. Other(b) \in full
        BY <3>1, <3>4 DEF Spent, TypeRest, Buffers, Other
      <4>. QED  BY <4>1, <4>2 DEF DueAfter
    <3>. QED  BY <2>1, <3>3, <3>4
  <2>3. Waiting' = Waiting
    BY <1>1, <1>4 DEF Waiting, Unread
  <2>. QED  BY <1>1, <1>4, <2>2, <2>3 DEF Queue!Next, Queue!Lose, BufferOverrun
<1>. QED  BY <1>2, <1>3, <1>4 DEF Advance

\* The buffer that is emptied is one that was read.
LEMMA EmptiedIsQueue ==
  ASSUME TypeRest, Inv, NEW b \in Buffers, Emptied(b)
  PROVE  UNCHANGED Queue!vars
<1>1. CASE active
  <2>1. b = want /\ ~(held[b] > got)
    BY <1>1 DEF TypeRest, Inv, WhenActive, RunInv, Looping, Spent, Emptied
  <2>2. full' = full \ {b} /\ \A c \in Buffers \ {b} : held'[c] = held[c]
    BY DEF Emptied, TypeRest
  <2>3. Unread' = Unread /\ \A c \in Unread : held'[c] = held[c]
    BY <2>1, <2>2 DEF Unread, Emptied, app, TypeRest
  <2>4. Waiting' = Waiting
    <3>1. CASE Unread = {}
      BY <2>3, <3>1 DEF Waiting
    <3>2. ASSUME NEW c \in Buffers, Unread = {c} PROVE Waiting' = Waiting
      <4>1. (CHOOSE d \in Buffers : Unread = {d}) \in Unread
        BY <3>2
      <4>. QED  BY <2>3, <3>2, <4>1 DEF Waiting
    <3>3. CASE Unread = Buffers
      BY <2>1, <3>3 DEF Unread
    <3>. QED  BY <3>1, <3>2, <3>3 DEF Unread, TypeRest, Buffers
  <2>. QED  BY <1>1, <2>4 DEF Emptied, app, Queue!vars, BufferOverrun
<1>2. CASE ~active
  BY <1>2 DEF Emptied, Queue!vars
<1>. QED  BY <1>1, <1>2

\* What is read is the oldest fill, and whole.
LEMMA ReadEndsIsQueue ==
  ASSUME TypeRest, TypeRest', Inv, Inv', ReadEnds
  PROVE  Queue!Consume
<1>. USE DEF TypeRest, Buffers, Other
<1>1. /\ active /\ Due(want) /\ want \in full /\ got' = held[want]
      /\ UNCHANGED <<active, full, held, fills, overrun, cur, want>>
  BY DEF Inv, WhenActive, RunInv, Looping, ReadEnds, fpga
<1>2. Spent(want)'
  <2>1. pc' = "done" /\ active'
    BY <1>1 DEF ReadEnds
  <2>. QED  BY <2>1 DEF Inv, RunInv
<1>3. Waiting = DueFrom(want) /\ Waiting' = DueAfter(want)'
  BY <1>1, <1>2, WaitingIs, WaitingNext DEF Ordered
<1>4. Waiting # <<>> /\ got' = Head(Waiting) /\ Waiting' = Tail(Waiting)
  <2>1. CASE Other(want) \in full
    <3>1. Waiting = <<held[want], held[Other(want)]>> /\ Waiting' = <<held[Other(want)]>>
      BY <1>1, <1>3, <2>1 DEF DueFrom, DueAfter
    <3>. QED  BY <1>1, <3>1
  <2>2. CASE Other(want) \notin full
    <3>1. Waiting = <<held[want]>> /\ Waiting' = <<>>
      BY <1>1, <1>3, <2>2 DEF DueFrom, DueAfter
    <3>. QED  BY <1>1, <3>1
  <2>. QED  BY <2>1, <2>2
<1>. QED  BY <1>1, <1>4 DEF Queue!Consume, BufferOverrun

\* Every step is a step of the queue or changes nothing of it.
LEMMA QueueStep ==
  ASSUME TypeRest, TypeRest', Inv, Inv', Next
  PROVE  Queue!Next \/ UNCHANGED Queue!vars
<1>. USE DEF fpga, app, host
<1>1. CASE Pixel \/ MapPixelNext
  BY <1>1, AdvanceIsQueue DEF Pixel, MapPixelNext
<1>2. ASSUME NEW b \in Buffers, Emptied(b) PROVE UNCHANGED Queue!vars
  BY <1>2, EmptiedIsQueue
<1>3. CASE ClearAndStart
  <2>1. ~active /\ UNCHANGED active
    BY <1>3 DEF ClearAndStart, Inv, WhenActive
  <2>2. ~active'
    BY <2>1
  <2>. QED  BY <2>2, Restarts DEF Queue!Next
<1>4. CASE StopRun
  BY <1>4, Restarts DEF StopRun, Queue!Next
<1>5. CASE StjStartRun
  BY <1>5, Restarts DEF StjStartRun, RunBegins, Queue!Next
<1>6. CASE BeginRun
  <2>1. full = {} /\ overrun = FALSE
    BY <1>6 DEF BeginRun, Inv, WhenActive, EmptyIsEmpty, StartInv, TypeRest
  <2>. QED  BY <1>6, <2>1, Restarts DEF BeginRun, RunBegins, Queue!Next
<1>7. CASE ClearBegins
  BY <1>7, Stutters DEF ClearBegins
<1>8. ASSUME NEW n \in PollLimits, ClearPoll(n) \/ ClearTimesOut(n)
      PROVE  UNCHANGED Queue!vars
  BY <1>8, Stutters DEF ClearPoll, ClearTimesOut
<1>9. CASE AskFull \/ ReadBegins \/ AskPixel \/ AskPixelHigh \/ SwitchBuffer
  BY <1>9, Stutters DEF AskFull, ReadBegins, AskPixel, AskPixelHigh, SwitchBuffer
<1>10. CASE ReadEnds
  BY <1>10, ReadEndsIsQueue DEF Queue!Next
<1>11. CASE SwitchWritten
  <2>1. active /\ UNCHANGED <<active, overrun, got>>
    BY <1>11 DEF SwitchWritten, Inv, WhenActive, Looping
  <2>2. CASE cur \in empty /\ FillEnds
    BY <2>1, <2>2, Fills DEF Queue!Next
  <2>3. CASE UNCHANGED <<full, held, fills, inFill, cur>>
    BY <2>1, <2>3, Stutters
  <2>. QED  BY <1>11, <2>2, <2>3 DEF SwitchWritten
<1>. QED
  BY NextIsStep, <1>1, <1>2, <1>3, <1>4, <1>5, <1>6, <1>7, <1>8, <1>9, <1>10, <1>11 DEF Step

\* The two buffers are a queue of capacity two: what the application reads during a
\* run are the fills in their order, each once and whole, and a fill is lost only
\* where the overrun flag (psl__GetBufferOverrun) says so.
THEOREM ImplementsQueue == Spec => IsQueue
<1>1. Init => Queue!Init
  BY DEF Init, Queue!Init
<1>2. TypeOK => TypeRest
  BY DEF TypeOK, TypeRest
<1>3. TypeOK' => TypeRest'
  BY DEF TypeOK, TypeRest
<1>4. UNCHANGED vars => UNCHANGED Queue!vars
  BY Stutters DEF vars, fpga, app
<1>5. (TypeOK /\ Inv) /\ (TypeOK /\ Inv)' /\ [Next]_vars => [Queue!Next]_(Queue!vars)
  BY <1>2, <1>3, <1>4, QueueStep
<1>. QED  BY Invariance, <1>1, <1>5, PTL DEF Spec, IsQueue, Queue!Spec
=============================================================================
