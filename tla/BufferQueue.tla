---------------------------- MODULE BufferQueue ----------------------------
(***************************************************************************)
(* What the two mapping buffers of a module promise to an application that *)
(* waits for a buffer, reads it, marks it done and goes on to the other:   *)
(* a queue of fills.  Fills come in order and whole; what is lost is lost  *)
(* at the end, because nothing was free, and is flagged.                   *)
(***************************************************************************)
EXTENDS Naturals, Sequences

CONSTANT Capacity      \* the number of buffers


VARIABLES queue,       \* fills that wait to be read, by number
          next,        \* the number of the next fill
          got,         \* the fill last read; 0 before the first
          lost         \* fills were lost since the run began

vars == <<queue, next, got, lost>>

Init == queue = <<>> /\ next = 1 /\ got = 0 /\ lost = FALSE

\* A buffer is filled.
Produce ==
    /\ Len(queue) < Capacity
    /\ queue' = Append(queue, next) /\ next' = next + 1
    /\ UNCHANGED <<got, lost>>

\* Data come and no buffer is free: at least one waits to be read.
Lose ==
    /\ queue # <<>>
    /\ next' = next + 1 /\ lost' = TRUE
    /\ UNCHANGED <<queue, got>>

\* The oldest fill is read.
Consume ==
    /\ queue # <<>>
    /\ got' = Head(queue) /\ queue' = Tail(queue)
    /\ UNCHANGED <<next, lost>>

\* A run begins; what was not read of the run before is thrown away.
Restart == queue' = <<>> /\ next' = 1 /\ got' = 0 /\ lost' = FALSE

Next == Produce \/ Lose \/ Consume \/ Restart

Spec == Init /\ [][Next]_vars
=============================================================================
