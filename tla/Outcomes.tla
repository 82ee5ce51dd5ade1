------------------------------ MODULE Outcomes ------------------------------
(***************************************************************************)
(* A call of the library as the set of its outcomes.  An outcome is a      *)
(* record [ok, m]: whether the C function returned a success, and the      *)
(* state m it left.  Every function returns at the first error with what   *)
(* it did so far, so that calls compose with Then.                         *)
(***************************************************************************)
EXTENDS Integers, Sequences, SequencesExt

Done(m) == {[ok |-> TRUE, m |-> m]}

\* The code refuses.
Refused(m) == {[ok |-> FALSE, m |-> m]}

\* F goes on where the outcomes so far succeeded.
Then(outs, F(_)) == UNION {IF o.ok THEN F(o.m) ELSE {o} : o \in outs}

\* F goes on whatever the outcomes so far: the code ignores the status.
Anyway(outs, F(_)) == UNION {F(o.m) : o \in outs}

\* F cleans up after a failure, and the error stays.
OnError(outs, F(_)) ==
    UNION {IF o.ok THEN {o} ELSE Refused(F(o.m)) : o \in outs}

\* F for every element of a sequence, up to the first error.
InTurn(m, s, F(_, _)) ==
    LET turn[i \in 0..Len(s)] ==
            IF i = 0 THEN Done(m) ELSE Then(turn[i - 1], LAMBDA k : F(k, s[i]))
    IN turn[Len(s)]
=============================================================================
