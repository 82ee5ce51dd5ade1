--------------------------- MODULE MappingBuffers ---------------------------
(***************************************************************************)
(* The mapping mode double buffer of the xMAP, Mercury and STJ: the host   *)
(* and the FPGA work on two buffers through one flag register, the MFR.    *)
(*                                                                         *)
(* The host executes one call of the library at a time; a call is a        *)
(* sequence of register and parameter accesses, and the FPGA acts between  *)
(* any two of them.  The application is the loop of                        *)
(* examples/xMAP/hqsg-xmap-mapping.c: wait for a buffer to be full, read   *)
(* it, mark it done, go on to the other one; on an error it stops the run. *)
(*                                                                         *)
(* The FPGA is not part of the repository.  It is modelled from how the    *)
(* host uses it: it owns the FULL, EMPTY and OVERRUN bits, whatever the    *)
(* host writes there; DONE asks it to empty a buffer, drops EMPTY at once  *)
(* and reads back as set until the buffer is empty.                        *)
(***************************************************************************)
EXTENDS Naturals, Sequences, FiniteSets

CONSTANTS Products,      \* those that run: of "xmap", "mercury", "stj"
          ClearTimeouts, \* may emptying a buffer take longer than the polls?
          PixelsPerFill, \* PIXPERBUF
          WordSize,      \* values of a 16 bit parameter, 65536 in the code
          MaxPixel,      \* bound: pixels in a run
          PollScale      \* bound: polls for each 10 ms that the host waits

Buffers == {"a", "b"}
Other(b) == IF b = "a" THEN "b" ELSE "a"

ASSUME MappingAssumption ==
    /\ Products \subseteq {"xmap", "mercury", "stj"}
    /\ ClearTimeouts \in BOOLEAN
    /\ PixelsPerFill \in Nat \ {0} /\ WordSize \in Nat \ {0}
    /\ MaxPixel \in Nat /\ PollScale \in Nat \ {0}

VARIABLES product,
          \* the FPGA
          active,     \* the run is active
          full, empty, clearing,  \* MFR bits FULL, EMPTY, DONE: sets of buffers
          overrun,    \* MFR bit OVERRUN
          cur,        \* the buffer that is filled
          held,       \* the number of the fill in each buffer, 0 for none
          fills,      \* the number of the next fill
          pixel,      \* PIXELNUM and PIXELNUMA: pixels since the run began
          inFill,     \* pixels in the buffer that is filled
          \* the host
          pc,         \* the access the call in progress makes next
          buf,        \* the buffer it works on
          polls,      \* polls it has made
          seen,       \* what it has read so far: a fill or a word
          doneBits,   \* the DONE bits it has read, as a set of buffers
          from,       \* history: the pixel number when current_pixel was asked
          \* the application
          want,       \* the buffer it works on: curBuffer
          got,        \* history: the fill last read; 0 before the first
          shown       \* what current_pixel last answered; 0 before that

fpga == <<active, full, empty, clearing, overrun, cur, held, fills, pixel, inFill>>
app == <<want, got, shown>>
host == <<pc, buf, polls, seen, doneBits, from>>
vars == <<product, fpga, host, app>>

TypeOK ==
    /\ product \in Products
    /\ active \in BOOLEAN /\ overrun \in BOOLEAN
    /\ full \subseteq Buffers /\ empty \subseteq Buffers /\ clearing \subseteq Buffers
    /\ cur \in Buffers /\ want \in Buffers /\ buf \in Buffers
    /\ held \in [Buffers -> Nat]
    /\ fills \in Nat \ {0} /\ pixel \in Nat /\ inFill \in 0..(PixelsPerFill - 1)
    /\ pc \in {"stopped", "done", "poll", "begin", "wait", "read", "burst",
               "pixel", "switch", "failed"}
    /\ polls \in 0..(2 * PollScale)
    /\ doneBits \subseteq Buffers
    /\ seen \in Nat /\ from \in Nat /\ got \in Nat /\ shown \in Nat

Init ==
    /\ product \in Products
    /\ active = FALSE /\ full = {} /\ empty = Buffers /\ clearing = {}
    /\ overrun = FALSE /\ cur = "a" /\ held = [b \in Buffers |-> 0]
    /\ fills = 1 /\ pixel = 0 /\ inFill = 0
    /\ pc = "stopped" /\ buf = "a" /\ polls = 0
    /\ seen = 0 /\ doneBits = {} /\ from = 0
    /\ want = "a" /\ got = 0 /\ shown = 0

-----------------------------------------------------------------------------
(* The FPGA. *)

\* The buffer that is filled becomes full, and the next pixel goes to the other.
FillEnds ==
    /\ full' = full \cup {cur} /\ empty' = empty \ {cur}
    /\ held' = [held EXCEPT ![cur] = fills]
    /\ fills' = fills + 1 /\ inFill' = 0
    /\ cur' = Other(cur)

\* A pixel ends, by a GATE or SYNC signal or because the host says so.
Advance ==
    /\ active /\ pixel < MaxPixel
    /\ pixel' = pixel + 1
    /\ \/ /\ cur \in empty /\ inFill + 1 < PixelsPerFill
          /\ inFill' = inFill + 1
          /\ UNCHANGED <<full, empty, held, fills, cur, overrun>>
       \/ /\ cur \in empty /\ inFill + 1 = PixelsPerFill
          /\ FillEnds
          /\ UNCHANGED overrun
       \/ /\ cur \notin empty
          /\ overrun' = TRUE /\ fills' = fills + 1
          /\ UNCHANGED <<full, empty, held, inFill, cur>>
    /\ UNCHANGED <<active, clearing>>

Pixel == Advance /\ UNCHANGED <<product, host, app>>

\* A buffer that was marked done is empty.
Emptied(b) ==
    /\ b \in clearing
    /\ clearing' = clearing \ {b}
    /\ full' = full \ {b} /\ empty' = empty \cup {b}
    /\ held' = [held EXCEPT ![b] = 0]
    /\ UNCHANGED <<product, active, overrun, cur, fills, pixel, inFill, host, app>>

\* The DONE bits of the buffers in bs are written.
WriteDone(bs) == clearing' = clearing \cup bs /\ empty' = empty \ bs

-----------------------------------------------------------------------------
(* psl__ClearBuffer, in pslStartRun and in the board operation "buffer_done". *)

\* A call ends: its local variables are gone.
Go(step) ==
    /\ pc' = step /\ polls' = 0 /\ seen' = 0 /\ doneBits' = {} /\ from' = 0
    /\ UNCHANGED buf

\* DONE is written over the register, whatever else is set in it.
ClearBegins ==
    /\ pc = "done"
    /\ WriteDone({buf})
    /\ pc' = "poll" /\ polls' = 0
    /\ UNCHANGED <<product, active, full, overrun, cur, held, fills, pixel, inFill,
                   buf, seen, doneBits, from, app>>

\* Mutant: the application is told to go on with the same buffer.
MutCleared ==
    \/ ~active /\ buf = "a" /\ pc' = "done" /\ buf' = "b" /\ UNCHANGED want
    \/ ~active /\ buf = "b" /\ pc' = "begin" /\ UNCHANGED <<buf, want>>
    \/ active /\ pc' = "wait" /\ UNCHANGED <<want, buf>>

\* What follows: pslStartRun clears the other buffer and begins; buffer_done
\* returns, and the application turns to the other buffer.
Cleared ==
    \/ ~active /\ buf = "a" /\ pc' = "done" /\ buf' = "b" /\ UNCHANGED want
    \/ ~active /\ buf = "b" /\ pc' = "begin" /\ UNCHANGED <<buf, want>>
    \/ active /\ pc' = "wait" /\ want' = Other(want) /\ UNCHANGED buf

\* One poll.  Unless ClearTimeouts, the buffer is empty by the last one.
ClearPoll(n) ==
    /\ pc = "poll"
    /\ \/ buf \in empty /\ Cleared /\ polls' = 0
       \/ /\ buf \notin empty /\ polls < n
          /\ polls' = polls + 1
          /\ UNCHANGED <<pc, buf, want>>
    /\ UNCHANGED <<product, fpga, seen, doneBits, from, got, shown>>

\* Mutant: a clear that takes too long is taken for one that succeeded.
MutClearTimesOut(n) ==
    /\ pc = "poll" /\ polls = n /\ buf \notin empty /\ ClearTimeouts
    /\ Cleared /\ polls' = 0
    /\ UNCHANGED <<product, fpga, seen, doneBits, from, got, shown>>

\* Mutant: psl__ClearBuffer polls without a limit.
MutClearForever(n) == pc = "poll" /\ polls = n /\ UNCHANGED vars

\* XIA_CLRBUFFER_TIMEOUT, while the FPGA is still at it.
ClearTimesOut(n) ==
    /\ pc = "poll" /\ polls = n /\ buf \notin empty /\ ClearTimeouts
    /\ Go("failed")
    /\ UNCHANGED <<product, fpga, app>>

-----------------------------------------------------------------------------
(* Starting and stopping a run. *)

\* pslStartRun: the MFR is initialised, then both buffers are cleared.
ClearAndStart ==
    /\ pc = "stopped"
    /\ pc' = "done" /\ buf' = "a"
    /\ overrun' = FALSE
    /\ UNCHANGED <<product, active, full, empty, clearing, cur, held, fills, pixel,
                   inFill, polls, seen, doneBits, from, app>>

\* dxp_start_one_run, and the application's view of a new run.
RunBegins ==
    /\ active' = TRUE /\ cur' = "a" /\ fills' = 1 /\ pixel' = 0 /\ inFill' = 0
    /\ pc' = "wait" /\ want' = "a" /\ got' = 0 /\ shown' = 0 /\ from' = 0

BeginRun ==
    /\ pc = "begin"
    /\ RunBegins
    /\ UNCHANGED <<product, full, empty, clearing, overrun, held, buf, polls, seen, doneBits>>

\* The STJ's pslStartRun does nothing for mapping: the board's own start of a
\* run has to leave the buffers empty.
StjStartRun ==
    /\ product = "stj" /\ pc = "stopped"
    /\ RunBegins
    /\ full' = {} /\ empty' = Buffers /\ clearing' = {} /\ overrun' = FALSE
    /\ held' = [b \in Buffers |-> 0]
    /\ UNCHANGED <<product, buf, polls, seen, doneBits>>

\* xiaStopRun, at the end or after an error.
StopRun ==
    /\ pc \in {"wait", "failed"}
    /\ active' = FALSE
    /\ Go("stopped")
    /\ UNCHANGED <<product, full, empty, clearing, overrun, cur, held, fills, pixel,
                   inFill, app>>

-----------------------------------------------------------------------------
(* Run data and board operations of the application's loop. *)

\* psl__GetBufferFull: 0x2 or 0x20 of the MFR.
BufferFull(b) == b \in full

\* "buffer_full_a" and "_b": asked until the answer is yes.
AskFull ==
    /\ pc = "wait"
    /\ IF BufferFull(want) THEN Go("read") ELSE Go("wait")
    /\ UNCHANGED <<product, fpga, app>>

\* psl__GetBuffer: the burst read of the buffer begins; nothing is checked.
ReadBegins ==
    /\ pc = "read"
    /\ pc' = "burst" /\ seen' = held[want]
    /\ UNCHANGED <<product, fpga, buf, polls, doneBits, from, app>>

\* It ends; a buffer that was changed meanwhile is no fill at all.
\* Then buffer_done is called.
ReadEnds ==
    /\ pc = "burst"
    /\ got' = IF held[want] = seen THEN seen ELSE 0
    /\ pc' = "done" /\ buf' = want /\ seen' = 0
    /\ UNCHANGED <<product, fpga, polls, doneBits, from, want, shown>>

\* psl__GetBufferOverrun.
BufferOverrun == overrun

\* psl__MapPixelNext writes 0x2000 over the MFR.
MapPixelNext ==
    /\ pc = "wait"
    /\ Advance
    /\ UNCHANGED <<product, host, app>>

\* psl__GetCurrentPixel reads PIXELNUM ...
AskPixel ==
    /\ pc = "wait"
    /\ pc' = "pixel" /\ seen' = pixel % WordSize /\ from' = pixel
    /\ UNCHANGED <<product, fpga, buf, polls, doneBits, app>>

\* ... and PIXELNUMA.
AskPixelHigh ==
    /\ pc = "pixel"
    /\ shown' = seen + WordSize * (pixel \div WordSize)
    /\ Go("wait")
    /\ UNCHANGED <<product, fpga, want, got>>

\* psl__SwitchBuffer, only on the xMAP: the MFR is read ...
SwitchBuffer ==
    /\ product = "xmap" /\ pc = "wait"
    /\ pc' = "switch" /\ doneBits' = clearing
    /\ UNCHANGED <<product, fpga, buf, polls, seen, from, app>>

\* ... and written with the SWITCH bit added, and the bits that were read.
SwitchWritten ==
    /\ pc = "switch"
    /\ IF cur \in empty /\ inFill > 0
       THEN FillEnds /\ clearing' = clearing \cup doneBits
       ELSE WriteDone(doneBits) /\ UNCHANGED <<full, held, fills, inFill, cur>>
    /\ Go("wait")
    /\ UNCHANGED <<product, active, overrun, pixel, app>>

-----------------------------------------------------------------------------
(* The products.  Each PSL has its own copy of these functions, with its own    *)
(* time to wait for a buffer to be empty: 100 polls of 1 ms, or 10 of 10 ms.   *)

ClearBuffer(n) == ClearBegins \/ ClearPoll(n) \/ ClearTimesOut(n)
GetBuffer == ReadBegins \/ ReadEnds
GetCurrentPixel == AskPixel \/ AskPixelHigh

XmapStartRun == product = "xmap" /\ ClearAndStart
XmapClearBuffer == product = "xmap" /\ ClearBuffer(2 * PollScale)
XmapGetBufferFull == product = "xmap" /\ AskFull
XmapGetBuffer == product = "xmap" /\ GetBuffer
XmapGetCurrentPixel == product = "xmap" /\ GetCurrentPixel
XmapMapPixelNext == product = "xmap" /\ MapPixelNext

MercuryStartRun == product = "mercury" /\ ClearAndStart
MercuryClearBuffer == product = "mercury" /\ ClearBuffer(PollScale)
MercuryGetBufferFull == product = "mercury" /\ AskFull
MercuryGetBuffer == product = "mercury" /\ GetBuffer
MercuryGetCurrentPixel == product = "mercury" /\ GetCurrentPixel
MercuryMapPixelNext == product = "mercury" /\ MapPixelNext

StjClearBuffer == product = "stj" /\ ClearBuffer(2 * PollScale)
StjGetBufferFull == product = "stj" /\ AskFull
StjGetBuffer == product = "stj" /\ GetBuffer
StjGetCurrentPixel == product = "stj" /\ GetCurrentPixel
StjMapPixelNext == product = "stj" /\ MapPixelNext

Asks == XmapGetBufferFull \/ MercuryGetBufferFull \/ StjGetBufferFull

Goes ==
    \/ XmapClearBuffer \/ XmapGetBuffer \/ SwitchWritten
    \/ MercuryClearBuffer \/ MercuryGetBuffer
    \/ StjClearBuffer \/ StjGetBuffer
    \/ BeginRun \/ AskPixelHigh

Next ==
    \/ Pixel \/ \E b \in Buffers : Emptied(b)
    \/ XmapStartRun \/ MercuryStartRun \/ StjStartRun \/ StopRun
    \/ XmapGetCurrentPixel \/ XmapMapPixelNext \/ SwitchBuffer
    \/ MercuryGetCurrentPixel \/ MercuryMapPixelNext
    \/ StjGetCurrentPixel \/ StjMapPixelNext
    \/ Asks \/ Goes

Spec == Init /\ [][Next]_vars

\* The thread inside a call goes on with it, and the application with its loop:
\* it asks for the buffer again.  The FPGA owes nothing: the polls are counted.
FairSpec == Spec /\ WF_vars(Goes) /\ SF_vars(Asks)

-----------------------------------------------------------------------------
(* Properties. *)

Unread == {b \in full : held[b] > got}

\* Fills that wait to be read, in their order.
Waiting ==
    CASE Unread = {} -> <<>>
      [] \E b \in Buffers : Unread = {b} -> <<held[CHOOSE b \in Buffers : Unread = {b}]>>
      [] OTHER -> IF held["a"] < held["b"] THEN <<held["a"], held["b"]>>
                  ELSE <<held["b"], held["a"]>>

Queue == INSTANCE BufferQueue WITH
    Capacity <- 2,
    queue <- IF active THEN Waiting ELSE <<>>,
    next <- IF active THEN fills ELSE 1,
    got <- IF active THEN got ELSE 0,
    lost <- active /\ BufferOverrun

\* The two buffers are a queue to the application: fills are read whole and in
\* their order, each once, and one is missing only when "buffer_overrun" says so.
IsQueue == Queue!Spec

\* The buffer the application waits for is the one that fills first, so that it
\* never waits for one buffer while the other is full.
WaitsForTheOldest ==
    pc = "wait" /\ full # {} /\ active =>
        \/ want \in full
        \/ full \subseteq clearing

\* During a run a full buffer the application waits for is read or given up
\* with an error; it is never polled for ever.
FullBuffersAreServed ==
    \A b \in Buffers :
        (active /\ want = b /\ b \in full) ~> (~active \/ want # b \/ pc = "failed")
=============================================================================
