---------------------------- MODULE Readout_proofs ----------------------------
(***************************************************************************)
(* Proofs about Readout, for any number of channels, lengths of spectra,   *)
(* instants and faults.  First what reading does to a board, then what     *)
(* each answer is made of, product by product, then the calls.             *)
(***************************************************************************)
EXTENDS ReadoutInvariant, FiniteSetTheorems, WellFoundedInduction, TLAPS

-----------------------------------------------------------------------------
(* Numbers, sequences and sums. *)

\* A set of naturals that is not empty has a least element.
LEMMA Least == ASSUME NEW T, T \subseteq Nat, T # {}
               PROVE  \E x \in T : \A y \in T : x <= y
<1> DEFINE R == {p \in Nat \X Nat : p[1] < p[2]}
<1>1. IsWellFoundedOn(R, Nat) BY NatLessThanWellFounded DEF OpToRel
<1> HIDE DEF R
<1>2. PICK x \in T : \A y \in T : ~ (<<y, x>> \in R) BY <1>1, WFMin
<1>3. \A y \in T : ~ (y < x) BY <1>2 DEF R
<1>4. QED BY <1>3

\* A function on 1..n is a sequence of that length.
LEMMA LengthOf == ASSUME NEW n \in Nat, NEW s, s = [i \in 1..n |-> s[i]]
                  PROVE  Len(s) = n
<1>1. s \in [1..n -> {s[i] : i \in 1..n}] OBVIOUS
<1>2. s \in Seq({s[i] : i \in 1..n}) BY <1>1
<1>3. QED BY <1>1, <1>2

\* One more element.
LEMMA Appended == ASSUME NEW n \in Nat, NEW s, s = [i \in 1..n |-> s[i]], NEW e
                  PROVE  Append(s, e) = [i \in 1..(n + 1) |-> IF i = n + 1 THEN e ELSE s[i]]
<1> DEFINE S == {s[i] : i \in 1..n} \cup {e}
<1>1. s \in [1..n -> S] OBVIOUS
<1>2. s \in Seq(S) /\ e \in S BY <1>1
<1>3. Len(s) = n BY LengthOf
<1>4. Append(s, e) \in Seq(S) /\ Len(Append(s, e)) = n + 1 BY <1>2, <1>3
<1>5. \A i \in 1..(n + 1) : Append(s, e)[i] = IF i = n + 1 THEN e ELSE s[i] BY <1>2, <1>3
<1>6. Append(s, e) = [i \in 1..(n + 1) |-> Append(s, e)[i]] BY <1>4
<1>7. QED BY <1>5, <1>6

\* There is one, for any number of channels.
LEMMA AddsExists == ASSUME NEW L, NEW c \in Nat \ {0} PROVE \E f : Adds(L, c, f)
<1> DEFINE T == {m \in Nat \ {0} : ~ \E f : Adds(L, m, f)}
<1>1. SUFFICES ASSUME T # {} PROVE FALSE OBVIOUS
<1>2. PICK x \in T : \A y \in T : x <= y BY <1>1, Least
<1>3. x # 1
  <2>1. Adds(L, 1, [j \in 1..1 |-> 0]) BY DEF Adds
  <2>2. QED BY <2>1
<1>4. x - 1 \in Nat \ {0} /\ x - 1 \notin T BY <1>2, <1>3
<1>5. PICK f : Adds(L, x - 1, f) BY <1>4
<1>6. Adds(L, x, [j \in 1..x |-> IF j = x THEN f[x - 1] + L[x - 1] ELSE f[j]])
  BY <1>5, <1>3 DEF Adds
<1>7. QED BY <1>6

\* It is Ahead, step by step.
LEMMA AheadIs == ASSUME NEW L, NEW c \in Nat \ {0}
                 PROVE  \E f : Adds(L, c, f) /\ Ahead(L, c) = f[c]
<1> DEFINE f == CHOOSE g : Adds(L, c, g)
<1>1. Adds(L, c, f) BY AddsExists
<1>2. Ahead(L, c) = f[c] BY DEF Ahead, Adds
<1>3. QED BY <1>1, <1>2

\* Two sums have the same parts.
LEMMA AddsAgree == ASSUME NEW L, NEW c \in Nat \ {0}, NEW d \in 1..c, NEW f, Adds(L, c, f),
                          NEW g, Adds(L, d, g)
                   PROVE  g[d] = f[d]
<1> DEFINE T == {m \in 1..d : g[m] # f[m]}
<1>1. SUFFICES ASSUME T # {} PROVE FALSE OBVIOUS
<1>a. d \in Nat /\ T \subseteq Nat OBVIOUS
<1>2. PICK x \in T : \A y \in T : x <= y
  <2> HIDE DEF T
  <2>1. QED BY <1>1, <1>a, Least
<1>3. x # 1 BY DEF Adds
<1>4. x - 1 \in 1..d /\ g[x - 1] = f[x - 1] BY <1>2, <1>3
<1>5. QED BY <1>2, <1>3, <1>4 DEF Adds

\* The first channel has none below, each other one those of the channel below it
\* and that channel.
LEMMA AheadStep == ASSUME NEW L, NEW c \in Nat \ {0}
                   PROVE  Ahead(L, 1) = 0 /\ Ahead(L, c + 1) = Ahead(L, c) + L[c]
<1>1. PICK f : Adds(L, c + 1, f) /\ Ahead(L, c + 1) = f[c + 1] BY AheadIs
<1>2. PICK g : Adds(L, c, g) /\ Ahead(L, c) = g[c] BY AheadIs
<1>3. g[c] = f[c] BY <1>1, <1>2, AddsAgree
<1>4. f[c + 1] = f[c] + L[c] BY <1>1 DEF Adds
<1>5. PICK h : Adds(L, 1, h) /\ Ahead(L, 1) = h[1] BY AheadIs
<1>6. h[1] = 0 BY <1>5 DEF Adds
<1>7. QED BY <1>1, <1>2, <1>3, <1>4, <1>5, <1>6

\* Lengths up to w.
LEMMA AheadBounds ==
  ASSUME NEW n \in Nat, NEW w \in Nat, NEW L, \A j \in 1..n : L[j] \in 0..w
  PROVE  \A c \in 1..(n + 1) : Ahead(L, c) \in Nat /\ Ahead(L, c) <= (c - 1) * w
<1> DEFINE Fine(c) == Ahead(L, c) \in Nat /\ Ahead(L, c) <= (c - 1) * w
           T == {c \in 1..(n + 1) : ~Fine(c)}
<1>1. SUFFICES ASSUME T # {} PROVE FALSE OBVIOUS
<1>2. T \subseteq Nat OBVIOUS
<1>3. PICK x \in T : \A y \in T : x <= y
  <2> HIDE DEF T
  <2>1. QED BY <1>1, <1>2, Least
<1>4. Fine(1)
  <2>1. Ahead(L, 1) = 0 /\ (1 - 1) * w = 0 BY AheadStep
  <2>2. QED BY <2>1
<1>5. x # 1 BY <1>3, <1>4
<1>6. x - 1 \in 1..n /\ x - 1 \in Nat \ {0} BY <1>5
<1>7. Fine(x - 1) BY <1>3, <1>6
<1>8. Ahead(L, (x - 1) + 1) = Ahead(L, x - 1) + L[x - 1] /\ (x - 1) + 1 = x BY <1>6, AheadStep
<1>9. L[x - 1] \in 0..w /\ (x - 1) * w = (x - 1 - 1) * w + w BY <1>6
<1>10. Fine(x) BY <1>7, <1>8, <1>9
<1>11. QED BY <1>10

\* Lengths that are all w.
LEMMA AheadEven ==
  ASSUME NEW n \in Nat, NEW w \in Nat, NEW L, \A j \in 1..n : L[j] = w
  PROVE  \A c \in 1..(n + 1) : Ahead(L, c) = (c - 1) * w
<1> DEFINE Fine(c) == Ahead(L, c) = (c - 1) * w
           T == {c \in 1..(n + 1) : ~Fine(c)}
<1>1. SUFFICES ASSUME T # {} PROVE FALSE OBVIOUS
<1>2. T \subseteq Nat OBVIOUS
<1>3. PICK x \in T : \A y \in T : x <= y
  <2> HIDE DEF T
  <2>1. QED BY <1>1, <1>2, Least
<1>4. Fine(1)
  <2>1. Ahead(L, 1) = 0 /\ (1 - 1) * w = 0 BY AheadStep
  <2>2. QED BY <2>1
<1>5. x # 1 BY <1>3, <1>4
<1>6. x - 1 \in 1..n /\ x - 1 \in Nat \ {0} BY <1>5
<1>7. Fine(x - 1) BY <1>3, <1>6
<1>8. Ahead(L, (x - 1) + 1) = Ahead(L, x - 1) + L[x - 1] /\ (x - 1) + 1 = x BY <1>6, AheadStep
<1>9. L[x - 1] = w /\ (x - 1) * w = (x - 1 - 1) * w + w BY <1>6
<1>10. Fine(x) BY <1>7, <1>8, <1>9
<1>11. QED BY <1>10

\* A channel's part lies below those of the channels above it.
LEMMA AheadGrows ==
  ASSUME NEW n \in Nat, NEW w \in Nat, NEW L, \A j \in 1..n : L[j] \in 0..w, NEW c \in 1..n
  PROVE  \A d \in (c + 1)..(n + 1) : Ahead(L, c) + L[c] <= Ahead(L, d)
<1> DEFINE Fine(d) == Ahead(L, c) + L[c] <= Ahead(L, d)
           T == {d \in (c + 1)..(n + 1) : ~Fine(d)}
<1>1. SUFFICES ASSUME T # {} PROVE FALSE OBVIOUS
<1>2. T \subseteq Nat OBVIOUS
<1>3. PICK x \in T : \A y \in T : x <= y
  <2> HIDE DEF T
  <2>1. QED BY <1>1, <1>2, Least
<1>4. Ahead(L, c) \in Nat /\ L[c] \in Nat /\ c \in Nat \ {0} BY AheadBounds
<1>5. Fine(c + 1) BY <1>4, AheadStep
<1>6. x # c + 1 BY <1>3, <1>5
<1>7. x - 1 \in (c + 1)..(n + 1) /\ x - 1 \in 1..n /\ x - 1 \in Nat \ {0} BY <1>6
<1>8. Fine(x - 1) BY <1>3, <1>7
<1>9. Ahead(L, (x - 1) + 1) = Ahead(L, x - 1) + L[x - 1] /\ (x - 1) + 1 = x BY <1>7, AheadStep
<1>10. L[x - 1] \in Nat /\ Ahead(L, x - 1) \in Nat BY <1>7, AheadBounds
<1>11. Fine(x) BY <1>4, <1>8, <1>9, <1>10
<1>12. QED BY <1>11

-----------------------------------------------------------------------------
(* Boards. *)

\* Writing a field leaves the other fields.
LEMMA FieldSet ==
  ASSUME NEW b, b = [f \in Fields |-> b[f]], NEW f \in Fields, NEW x
  PROVE  LET c == [b EXCEPT ![f] = x] IN
         c = [g \in Fields |-> c[g]] /\ c[f] = x /\ \A g \in Fields \ {f} : c[g] = b[g]
<1>1. DOMAIN b = Fields OBVIOUS
<1>2. QED BY <1>1

\* One field that may be changed.
LEMMA PutField ==
  ASSUME NEW b, Rec(b), NEW S, NEW f \in S, f \in Fields \ {"budget"}, NEW x
  PROVE  LET c == [b EXCEPT ![f] = x] IN
         /\ Changed(b, c, S) /\ Rec(c) /\ c.budget = b.budget /\ c[f] = x
         /\ \A g \in Fields \ {f} : c[g] = b[g]
<1> DEFINE c == [b EXCEPT ![f] = x]
<1>1. c = [g \in Fields |-> c[g]] /\ c[f] = x /\ \A g \in Fields \ {f} : c[g] = b[g]
  BY FieldSet DEF Rec
<1>2. "budget" \in Fields BY DEF Fields
<1> HIDE DEF c
<1>3. c.budget = b.budget BY <1>1, <1>2
<1>4. Changed(b, c, S) /\ Rec(c) BY <1>1, <1>3 DEF Changed, Rec
<1>5. QED BY <1>1, <1>3, <1>4 DEF c

\* A fault is spent.
LEMMA Spent ==
  ASSUME NEW b, Rec(b), b.budget # 0, NEW S, "budget" \in S
  PROVE  LET c == [b EXCEPT !.budget = b.budget - 1] IN
         Changed(b, c, S) /\ Rec(c) /\ c.budget < b.budget
<1> DEFINE c == [b EXCEPT !["budget"] = b.budget - 1]
<1>1. "budget" \in Fields BY DEF Fields
<1>2. c = [g \in Fields |-> c[g]] /\ c.budget = b.budget - 1
      /\ \A g \in Fields \ {"budget"} : c[g] = b[g] BY FieldSet, <1>1 DEF Rec
<1> HIDE DEF c
<1>3. Changed(b, c, S) /\ Rec(c) /\ c.budget < b.budget BY <1>2 DEF Changed, Rec
<1>4. QED BY <1>3 DEF c

\* Nothing is changed.
LEMMA Same == ASSUME NEW b, Rec(b), NEW S PROVE Changed(b, b, S)
  BY DEF Changed, Rec

\* Changes add up, within the same fields.
LEMMA ChangedTwice ==
  ASSUME NEW b, NEW c, NEW d, NEW S, NEW T, T \subseteq S, Rec(b), Changed(b, c, S),
         Changed(c, d, T)
  PROVE  Changed(b, d, S)
  BY DEF Changed, Rec

\* What changed within T changed within more.
LEMMA ChangedMore ==
  ASSUME NEW b, NEW c, NEW S, NEW T, T \subseteq S, Changed(b, c, T)
  PROVE  Changed(b, c, S)
  BY DEF Changed

\* An access does what it is for, or spends a fault.
LEMMA AccessOut ==
  ASSUME NEW b, Rec(b), NEW n, NEW o, o \in Access(b, n)
  PROVE  \/ o.ok = TRUE /\ o.m = n
         \/ /\ o.ok = FALSE /\ o.m.budget < b.budget /\ Rec(o.m)
            /\ Changed(b, o.m, {"budget"})
<1>1. CASE o \in Done(n) BY <1>1 DEF Done
<1>2. CASE o \in Faulty(b)
  <2>1. b.budget # 0 /\ o \in Refused([b EXCEPT !.budget = @ - 1]) BY <1>2 DEF Faulty
  <2>2. o.ok = FALSE /\ o.m = [b EXCEPT !.budget = b.budget - 1] BY <2>1 DEF Refused
  <2>3. QED BY <2>1, <2>2, Spent
<1>3. QED BY <1>1, <1>2 DEF Access

\* The board goes on.
LEMMA LaterOut ==
  ASSUME NEW b, Rec(b), NEW l \in Later(b)
  PROVE  Changed(b, l, {"now", "budget"}) /\ l.budget = b.budget /\ Rec(l)
<1>1. CASE l = b BY <1>1, Same DEF Changed
<1>2. CASE l = [b EXCEPT !.now = b.now + 1]
  <2>1. "now" \in {"now", "budget"} /\ "now" \in Fields \ {"budget"} BY DEF Fields
  <2>2. QED BY <1>2, <2>1, PutField
<1>3. QED BY <1>1, <1>2 DEF Later

\* Looking changes nothing but the instant.
LEMMA LookingOut ==
  ASSUME NEW b, Rec(b), NEW o \in Looking(b)
  PROVE  Looked(b, o)
<1>1. PICK l \in Later(b) : o \in Access(l, l) BY DEF Looking
<1>2. Changed(b, l, {"now", "budget"}) /\ l.budget = b.budget /\ Rec(l) BY LaterOut
<1>3. CASE o.ok = TRUE /\ o.m = l BY <1>2, <1>3 DEF Looked
<1>4. CASE o.ok = FALSE /\ o.m.budget < l.budget /\ Changed(l, o.m, {"budget"})
  <2>1. Changed(b, o.m, {"now", "budget"}) BY <1>2, <1>4, ChangedTwice
  <2>2. QED BY <1>2, <1>4, <2>1 DEF Looked
<1>5. QED BY <1>1, <1>2, <1>3, <1>4, AccessOut

\* What was looked at is the same board.
LEMMA LookedWent ==
  ASSUME NEW b, NEW o, Looked(b, o)
  PROVE  Went(b, o) /\ Rec(o.m) /\ Changed(b, o.m, Scratch)
  BY DEF Looked, Went, Changed, Scratch, Rec

\* What a call that went leaves is a board.
LEMMA WentRec ==
  ASSUME NEW b, NEW o, Went(b, o)
  PROVE  Rec(o.m) /\ Changed(b, o.m, Scratch) /\ o.ok \in BOOLEAN
  BY DEF Went, Changed, Rec

\* Looking, and then again.
LEMMA LookedThen ==
  ASSUME NEW b, Rec(b), NEW z, Looked(b, z), NEW o, IF z.ok THEN Looked(z.m, o) ELSE o = z
  PROVE  Looked(b, o)
<1>1. CASE z.ok
  <2>1. Changed(b, o.m, {"now", "budget"}) BY <1>1, ChangedTwice DEF Looked
  <2>2. o.ok \/ o.m.budget < b.budget
    <3>1. z.m.budget <= b.budget /\ z.m.budget \in Nat /\ o.m.budget \in Nat /\ b.budget \in Nat
      BY <1>1 DEF Looked, Changed, Rec
    <3>2. QED BY <1>1, <3>1 DEF Looked
  <2>3. QED BY <1>1, <2>1, <2>2 DEF Looked
<1>2. CASE ~z.ok BY <1>2
<1>3. QED BY <1>1, <1>2

\* Going on after what succeeded.
LEMMA WentThen ==
  ASSUME NEW b, Rec(b), NEW z, Went(b, z), NEW o, IF z.ok THEN Went(z.m, o) ELSE o = z
  PROVE  Went(b, o)
<1>1. CASE z.ok BY <1>1, ChangedTwice DEF Went
<1>2. CASE ~z.ok BY <1>2
<1>3. QED BY <1>1, <1>2

\* A scratch field is written.
LEMMA PutScratch ==
  ASSUME NEW b, Rec(b), NEW f \in {"words", "got", "value", "speed"}, NEW x
  PROVE  LET c == [b EXCEPT ![f] = x] IN
         /\ Changed(b, c, Scratch) /\ Rec(c) /\ c.budget = b.budget /\ c[f] = x
         /\ \A g \in Fields \ {f} : c[g] = b[g]
<1>1. f \in Scratch /\ f \in Fields \ {"budget"} BY DEF Scratch, Fields
<1>2. QED BY <1>1, PutField

\* An answer.
LEMMA AnswerOut ==
  ASSUME NEW b, Rec(b), NEW x, NEW o \in Answer(b, x)
  PROVE  Went(b, o) /\ o.ok = TRUE /\ o.m.got = x /\ o.m.budget = b.budget
<1>1. o.ok = TRUE /\ o.m = [b EXCEPT !.got = x] BY DEF Answer, Done
<1>2. Changed(b, o.m, Scratch) /\ o.m.got = x /\ o.m.budget = b.budget BY <1>1, PutScratch
<1>3. QED BY <1>1, <1>2 DEF Went

\* An answer is given.
LEMMA AnswerGiven ==
  ASSUME NEW b, Rec(b), NEW x, NEW o \in Answer(b, x)
  PROVE  Answering(b, x, o)
<1>1. Went(b, o) /\ o.ok = TRUE /\ o.m.got = x /\ o.m.budget = b.budget BY AnswerOut
<1>2. QED BY <1>1 DEF Answering

\* A refusal leaves the board.
LEMMA RefusedOut ==
  ASSUME NEW b, Rec(b), NEW o \in Refused(b)
  PROVE  Went(b, o) /\ o.ok = FALSE /\ o.m = b
<1>1. o.ok = FALSE /\ o.m = b BY DEF Refused
<1>2. Changed(b, b, Scratch) BY Same
<1>3. QED BY <1>1, <1>2 DEF Went

\* So does what is done at once.
LEMMA DoneOut ==
  ASSUME NEW b, Rec(b), NEW o \in Done(b)
  PROVE  Went(b, o) /\ o.ok = TRUE /\ o.m = b
<1>1. o.ok = TRUE /\ o.m = b BY DEF Done
<1>2. Changed(b, b, Scratch) BY Same
<1>3. QED BY <1>1, <1>2 DEF Went

-----------------------------------------------------------------------------
(* Memory: what the words are that a read returns. *)

\* The board goes on, then something is written to the scratch.
LEMMA ReadOut ==
  ASSUME NEW b, Rec(b), NEW l \in Later(b), NEW w, NEW o \in Access(l, [l EXCEPT !.words = w])
  PROVE  /\ Went(b, o) /\ Changed(b, l, Scratch) /\ l.words = b.words
         /\ o.ok => o.m.words = w
<1>1. Changed(b, l, {"now", "budget"}) /\ Rec(l) BY LaterOut
<1>2. {"now", "budget"} \subseteq Scratch /\ {"budget"} \subseteq Scratch
      /\ "words" \in {"words", "got", "value", "speed"} BY DEF Scratch
<1>3. Changed(b, l, Scratch) BY <1>1, <1>2, ChangedMore
<1>4. l.words = b.words BY <1>1 DEF Changed, Fields
<1>5. CASE o.ok = TRUE /\ o.m = [l EXCEPT !.words = w]
  <2>1. Changed(l, o.m, Scratch) /\ o.m.words = w BY <1>1, <1>2, <1>5, PutScratch
  <2>2. QED BY <1>3, <1>4, <1>5, <2>1, ChangedTwice DEF Went
<1>6. CASE o.ok = FALSE /\ Changed(l, o.m, {"budget"})
  <2>1. Changed(b, o.m, Scratch) BY <1>2, <1>3, <1>6, ChangedTwice
  <2>2. QED BY <1>3, <1>4, <1>6, <2>1 DEF Went
<1>7. QED BY <1>1, <1>5, <1>6, AccessOut

\* Going on to a block.
LEMMA AtOnceThen ==
  ASSUME NEW b, Rec(b), NEW z, Went(b, z), NEW c, NEW mem, NEW a, NEW len, NEW o,
         IF z.ok THEN AtOnce(z.m, c, mem, a, len, o) ELSE o = z
  PROVE  AtOnce(b, c, mem, a, len, o)
<1>1. CASE z.ok
  <2>1. Went(b, o) BY <1>1, WentThen DEF AtOnce
  <2>2. ASSUME o.ok
        PROVE  \E l : Changed(b, l, Scratch)
                      /\ o.m.words = [i \in 1..len |-> WordAt(l, c, mem, a + i - 1)]
    <3>1. PICK l : Changed(z.m, l, Scratch)
                   /\ o.m.words = [i \in 1..len |-> WordAt(l, c, mem, a + i - 1)]
      BY <1>1, <2>2 DEF AtOnce
    <3>2. Changed(b, l, Scratch) BY <3>1, ChangedTwice DEF Went
    <3>3. QED BY <3>1, <3>2
  <2>3. QED BY <2>1, <2>2 DEF AtOnce
<1>2. CASE ~z.ok BY <1>2 DEF AtOnce
<1>3. QED BY <1>1, <1>2

\* Going on to one word after another.
LEMMA PiecewiseThen ==
  ASSUME NEW b, Rec(b), NEW z, Went(b, z), NEW c, NEW mem, NEW a, NEW len, NEW o,
         IF z.ok THEN Piecewise(z.m, c, mem, a, len, o) ELSE o = z
  PROVE  Piecewise(b, c, mem, a, len, o)
<1>1. CASE z.ok
  <2>1. Went(b, o) BY <1>1, WentThen DEF Piecewise
  <2>2. ASSUME o.ok
        PROVE  \E L : /\ o.m.words = [i \in 1..len |-> WordAt(L[i], c, mem, a + i - 1)]
                      /\ \A i \in 1..len : Changed(b, L[i], Scratch)
    <3>1. PICK L : /\ o.m.words = [i \in 1..len |-> WordAt(L[i], c, mem, a + i - 1)]
                   /\ \A i \in 1..len : Changed(z.m, L[i], Scratch) BY <1>1, <2>2 DEF Piecewise
    <3>2. \A i \in 1..len : Changed(b, L[i], Scratch) BY <3>1, ChangedTwice DEF Went
    <3>3. QED BY <3>1, <3>2
  <2>3. QED BY <2>1, <2>2 DEF Piecewise
<1>2. CASE ~z.ok BY <1>2 DEF Piecewise
<1>3. QED BY <1>1, <1>2

\* Going on to an area.
LEMMA AreaThen ==
  ASSUME NEW b, Rec(b), NEW z, Went(b, z), NEW c, NEW area, NEW len, NEW o,
         IF z.ok THEN AreaOnce(z.m, c, area, len, o) ELSE o = z
  PROVE  AreaOnce(b, c, area, len, o)
<1>1. CASE z.ok
  <2>1. Went(b, o) BY <1>1, WentThen DEF AreaOnce
  <2>2. ASSUME o.ok
        PROVE  \E l : Changed(b, l, Scratch)
                      /\ o.m.words = [i \in 1..len |-> AreaWord(l, c, area, i - 1)]
    <3>1. PICK l : Changed(z.m, l, Scratch)
                   /\ o.m.words = [i \in 1..len |-> AreaWord(l, c, area, i - 1)]
      BY <1>1, <2>2 DEF AreaOnce
    <3>2. Changed(b, l, Scratch) BY <3>1, ChangedTwice DEF Went
    <3>3. QED BY <3>1, <3>2
  <2>3. QED BY <2>1, <2>2 DEF AreaOnce
<1>2. CASE ~z.ok BY <1>2 DEF AreaOnce
<1>3. QED BY <1>1, <1>2

\* Looking leaves what was read.
LEMMA LookedAfter ==
  ASSUME NEW b, Rec(b), NEW z, Went(b, z), NEW o, IF z.ok THEN Looked(z.m, o) ELSE o = z
  PROVE  Went(b, o) /\ (o.ok => z.ok /\ o.m.words = z.m.words)
<1>1. CASE z.ok
  <2>1. Went(b, o) BY <1>1, LookedWent, WentThen
  <2>2. o.m.words = z.m.words BY <1>1 DEF Looked, Changed, Fields
  <2>3. QED BY <1>1, <2>1, <2>2
<1>2. CASE ~z.ok BY <1>2
<1>3. QED BY <1>1, <1>2

\* A burst of an xMAP is of one instant.
LEMMA XmapBurstOut ==
  ASSUME NEW b, Rec(b), NEW a, NEW len, NEW c, NEW o \in XmapBurstReadBlock(b, a, len)
  PROVE  AtOnce(b, c, "burst", a, len, o)
<1>1. CASE a > MaxAddr
  <2>1. o \in Refused(b) BY <1>1 DEF XmapBurstReadBlock
  <2>2. QED BY <2>1, RefusedOut DEF AtOnce
<1>2. CASE ~(a > MaxAddr)
  <2> DEFINE outs == Reading(b, LAMBDA l : [i \in 1..len |-> MemoryWord(l, a + i - 1)])
  <2>1. o \in Then(outs, Looking) BY <1>2 DEF XmapBurstReadBlock
  <2> HIDE DEF outs
  <2>2. PICK z \in outs : IF z.ok THEN o \in Looking(z.m) ELSE o = z BY <2>1 DEF Then
  <2> DEFINE w(p) == [i \in 1..len |-> MemoryWord(p, a + i - 1)]
  <2>3. PICK l \in Later(b) : z \in Access(l, [l EXCEPT !.words = w(l)]) BY <2>2 DEF outs, Reading
  <2>4. Went(b, z) /\ Changed(b, l, Scratch)
        /\ (z.ok => z.m.words = w(l))
    <3> HIDE DEF w
    <3>1. QED BY <2>3, ReadOut
  <2>5. z.ok => Looked(z.m, o) BY <2>2, <2>4, WentRec, LookingOut
  <2>6. Went(b, o) /\ (o.ok => z.ok /\ o.m.words = z.m.words) BY <2>2, <2>4, <2>5, LookedAfter
  <2>7. \A i \in 1..len : MemoryWord(l, a + i - 1) = WordAt(l, c, "burst", a + i - 1) BY DEF WordAt
  <2>8. [i \in 1..len |-> MemoryWord(l, a + i - 1)] = [i \in 1..len |-> WordAt(l, c, "burst", a + i - 1)]
    BY <2>7
  <2>9. QED BY <2>4, <2>6, <2>8 DEF AtOnce
<1>3. QED BY <1>1, <1>2

\* A burst of an STJ is of one instant.
LEMMA StjBurstOut ==
  ASSUME NEW b, Rec(b), NEW a, NEW len, NEW c, NEW o \in StjBurstReadBlock(b, a, len)
  PROVE  AtOnce(b, c, "burst", a, len, o)
<1>1. StjBurstReadBlock(b, a, len) = XmapBurstReadBlock(b, a, len)
  BY DEF StjBurstReadBlock, XmapBurstReadBlock
<1>2. QED BY <1>1, XmapBurstOut

\* The address, then all words at once.
LEMMA MercuryBlockOut ==
  ASSUME NEW b, Rec(b), NEW c, NEW mem, NEW a, NEW len,
         NEW o \in MercuryReadBlock(b, c, mem, a, len)
  PROVE  AtOnce(b, c, mem, a, len, o)
<1> DEFINE W(p) == [i \in 1..len |-> WordAt(p, c, mem, a + i - 1)]
           F(l) == Reading(l, W)
<1>1. o \in Then(Looking(b), F) BY DEF MercuryReadBlock
<1> HIDE DEF F
<1>2. PICK z \in Looking(b) : IF z.ok THEN o \in F(z.m) ELSE o = z BY <1>1 DEF Then
<1>3. Went(b, z) /\ Rec(z.m) BY LookingOut, LookedWent
<1>4. ASSUME z.ok PROVE AtOnce(z.m, c, mem, a, len, o)
  <2>1. PICK l \in Later(z.m) : o \in Access(l, [l EXCEPT !.words = W(l)])
    BY <1>2, <1>4 DEF F, Reading
  <2>2. Went(z.m, o) /\ Changed(z.m, l, Scratch) /\ (o.ok => o.m.words = W(l))
    <3> DEFINE w == W(l)
    <3>1. o \in Access(l, [l EXCEPT !.words = w]) /\ l \in Later(z.m) BY <2>1
    <3> HIDE DEF w, W
    <3>2. Went(z.m, o) /\ Changed(z.m, l, Scratch) /\ (o.ok => o.m.words = w) BY <1>3, <3>1, ReadOut
    <3>3. QED BY <3>2 DEF w
  <2> HIDE DEF W
  <2>3. o.ok => o.m.words = [i \in 1..len |-> WordAt(l, c, mem, a + i - 1)] BY <2>2 DEF W
  <2>4. QED BY <2>2, <2>3 DEF AtOnce
<1>5. QED BY <1>2, <1>3, <1>4, AtOnceThen

\* A block of a Saturn is of one instant.
LEMMA SaturnBlockOut ==
  ASSUME NEW b, Rec(b), NEW c, NEW mem, NEW a, NEW len,
         NEW o \in SaturnReadBlock(b, c, mem, a, len)
  PROVE  AtOnce(b, c, mem, a, len, o)
<1>1. SaturnReadBlock(b, c, mem, a, len) = MercuryReadBlock(b, c, mem, a, len)
  BY DEF SaturnReadBlock, MercuryReadBlock
<1>2. QED BY <1>1, MercuryBlockOut

-----------------------------------------------------------------------------
(* Word by word. *)

\* The turns of the loop exist, for any number of words.
LEMMA TurnsExist ==
  ASSUME NEW b, NEW c, NEW mem, NEW a, NEW s, NEW n \in Nat
  PROVE  \E f : Turns(b, c, mem, a, s, n, f)
<1> DEFINE T == {m \in Nat : ~ \E f : Turns(b, c, mem, a, s, m, f)}
           G(outs, i) ==
             Then(outs, LAMBDA l : ReadingOne(l, LAMBDA p : WordAt(p, c, mem, a + s[i] - 1)))
<1>0. \A m, f : Turns(b, c, mem, a, s, m, f) <=>
         f = [i \in 0..m |-> IF i = 0 THEN Done([b EXCEPT !.words = <<>>]) ELSE G(f[i - 1], i)]
  BY DEF Turns
<1>1. SUFFICES ASSUME T # {} PROVE FALSE OBVIOUS
<1>2. PICK x \in T : \A y \in T : x <= y BY <1>1, Least
<1> HIDE DEF G
<1>3. x # 0
  <2> DEFINE d == Done([b EXCEPT !.words = <<>>])
             h == [i \in 0..0 |-> d]
  <2>1. h = [i \in 0..0 |-> IF i = 0 THEN d ELSE G(h[i - 1], i)]
    <3> HIDE DEF d
    <3>1. \A i \in 0..0 : i = 0 OBVIOUS
    <3>2. QED BY <3>1
  <2>2. Turns(b, c, mem, a, s, 0, h) BY <1>0, <2>1
  <2>3. QED BY <2>2
<1>4. x - 1 \in Nat /\ x - 1 \notin T BY <1>2, <1>3
<1>5. PICK f : Turns(b, c, mem, a, s, x - 1, f) BY <1>4
<1>6. f = [i \in 0..(x - 1) |->
             IF i = 0 THEN Done([b EXCEPT !.words = <<>>]) ELSE G(f[i - 1], i)] BY <1>0, <1>5
<1> DEFINE g == [i \in 0..x |-> IF i = x THEN G(f[x - 1], x) ELSE f[i]]
<1>7. g = [i \in 0..x |-> IF i = 0 THEN Done([b EXCEPT !.words = <<>>]) ELSE G(g[i - 1], i)]
  <2>1. ASSUME NEW i \in 0..x
        PROVE  g[i] = IF i = 0 THEN Done([b EXCEPT !.words = <<>>]) ELSE G(g[i - 1], i)
    <3>1. CASE i = x BY <1>3, <3>1
    <3>2. CASE i # x
      <4>1. x \in Nat /\ i \in 0..(x - 1) /\ (i # 0 => i - 1 \in 0..(x - 1)) BY <1>2, <3>2
      <4>2. g[i] = f[i] /\ (i # 0 => g[i - 1] = f[i - 1]) BY <3>2, <4>1
      <4>3. f[i] = IF i = 0 THEN Done([b EXCEPT !.words = <<>>]) ELSE G(f[i - 1], i) BY <1>6, <4>1
      <4> HIDE DEF g
      <4>4. QED BY <4>2, <4>3
    <3>3. QED BY <3>1, <3>2
  <2>2. QED BY <2>1
<1>8. Turns(b, c, mem, a, s, x, g) BY <1>0, <1>7
<1>9. QED BY <1>8

\* A read word by word starts with no words.
LEMMA Emptied ==
  ASSUME NEW b, Rec(b)
  PROVE  LET e == [b EXCEPT !.words = <<>>] IN
         /\ Changed(b, e, Scratch) /\ Rec(e) /\ e.budget = b.budget /\ e.words = <<>>
<1> DEFINE none == <<>>
<1>1. "words" \in {"words", "got", "value", "speed"} OBVIOUS
<1> HIDE DEF none
<1>2. LET e == [b EXCEPT !["words"] = none] IN
         /\ Changed(b, e, Scratch) /\ Rec(e) /\ e.budget = b.budget /\ e["words"] = none
  BY <1>1, PutScratch
<1>3. QED BY <1>2 DEF none

\* One word more.
LEMMA OneMore ==
  ASSUME NEW b, Rec(b), NEW c, NEW mem, NEW a, NEW j \in Nat, NEW z, z.ok = TRUE,
         Piecewise(b, c, mem, a, j, z), NEW l \in Later(z.m), NEW o,
         o \in Access(l, [l EXCEPT !.words = Append(@, WordAt(l, c, mem, a + (j + 1) - 1))])
  PROVE  Piecewise(b, c, mem, a, j + 1, o)
<1> DEFINE w(p) == WordAt(p, c, mem, a + (j + 1) - 1)
<1>2. Rec(z.m) /\ Went(b, z) BY WentRec DEF Piecewise
<1>3. Went(z.m, o) /\ Changed(z.m, l, Scratch) /\ l.words = z.m.words
      /\ (o.ok => o.m.words = Append(l.words, w(l)))
  <2> DEFINE x(p) == Append(p.words, w(p))
  <2>1. o \in Access(l, [l EXCEPT !.words = x(l)]) OBVIOUS
  <2> HIDE DEF x
  <2>2. Went(z.m, o) /\ Changed(z.m, l, Scratch) /\ l.words = z.m.words
        /\ (o.ok => o.m.words = x(l)) BY <1>2, <2>1, ReadOut
  <2>3. QED BY <2>2 DEF x
<1>4. Went(b, o) /\ Changed(b, l, Scratch) BY <1>2, <1>3, WentThen, ChangedTwice DEF Went
<1>5. PICK L : /\ z.m.words = [i \in 1..j |-> WordAt(L[i], c, mem, a + i - 1)]
               /\ \A i \in 1..j : Changed(b, L[i], Scratch) BY DEF Piecewise
<1> DEFINE M == [i \in 1..(j + 1) |-> IF i = j + 1 THEN l ELSE L[i]]
<1>6. ASSUME o.ok
      PROVE  o.m.words = [i \in 1..(j + 1) |-> WordAt(M[i], c, mem, a + i - 1)]
  <2> DEFINE s == z.m.words
  <2>1. s = [i \in 1..j |-> s[i]] BY <1>5
  <2>2. o.m.words = Append(s, w(l)) BY <1>3, <1>6
  <2>3. Append(s, w(l)) = [i \in 1..(j + 1) |-> IF i = j + 1 THEN w(l) ELSE s[i]]
    <3> HIDE DEF s, w
    <3>1. QED BY <2>1, Appended
  <2>4. \A i \in 1..(j + 1) :
           (IF i = j + 1 THEN w(l) ELSE s[i]) = WordAt(M[i], c, mem, a + i - 1) BY <1>5
  <2>5. QED BY <2>2, <2>3, <2>4
<1>7. \A i \in 1..(j + 1) : Changed(b, M[i], Scratch) BY <1>4, <1>5
<1>8. QED BY <1>4, <1>6, <1>7 DEF Piecewise

\* A block that is read word by word: each word of an instant of its own.
LEMMA WordByWordOut ==
  ASSUME NEW b, Rec(b), NEW c, NEW mem, NEW a, NEW len \in Nat,
         NEW o \in WordByWord(b, c, mem, a, len)
  PROVE  Piecewise(b, c, mem, a, len, o)
<1> DEFINE s == [i \in 1..len |-> i]
           f == CHOOSE g : Turns(b, c, mem, a, s, Len(s), g)
           T == {i \in 0..len : ~ \A x \in f[i] : Piecewise(b, c, mem, a, i, x)}
<1>1. WordByWord(b, c, mem, a, len) = f[Len(s)] BY DEF WordByWord, InTurn, Turns
<1>2. Len(s) = len OBVIOUS
<1>3. Turns(b, c, mem, a, s, len, f)
  <2> HIDE DEF s
  <2>1. QED BY <1>2, TurnsExist
<1>4. T = {}
  <2>1. SUFFICES ASSUME T # {} PROVE FALSE OBVIOUS
  <2>2. T \subseteq Nat OBVIOUS
  <2>3. PICK i \in T : \A j \in T : i <= j
    <3> HIDE DEF T
    <3>1. QED BY <2>1, <2>2, Least
  <2>a. f[i] = IF i = 0 THEN Done([b EXCEPT !.words = <<>>])
               ELSE Then(f[i - 1], LAMBDA l :
                         ReadingOne(l, LAMBDA p : WordAt(p, c, mem, a + s[i] - 1)))
    BY <1>3, <2>3 DEF Turns
  <2>4. PICK x \in f[i] : ~Piecewise(b, c, mem, a, i, x) BY <2>3
  <2> HIDE DEF f
  <2>5. CASE i = 0
    <3>1. x.ok = TRUE /\ x.m = [b EXCEPT !.words = <<>>] BY <2>a, <2>4, <2>5 DEF Done
    <3>2. Went(b, x) /\ x.m.words = <<>> BY <3>1, Emptied DEF Went
    <3>3. <<>> = [j \in 1..0 |-> WordAt(b, c, mem, a + j - 1)] OBVIOUS
    <3>4. Piecewise(b, c, mem, a, 0, x)
      <4> DEFINE L == [j \in 1..0 |-> b]
      <4>1. \A j \in 1..0 : FALSE OBVIOUS
      <4>2. x.m.words = [j \in 1..0 |-> WordAt(L[j], c, mem, a + j - 1)] BY <3>2
      <4>3. \A j \in 1..0 : Changed(b, L[j], Scratch) BY <4>1
      <4> HIDE DEF L
      <4>4. QED BY <3>2, <4>2, <4>3 DEF Piecewise
    <3>5. QED BY <2>4, <2>5, <3>4
  <2>6. CASE i # 0
    <3>1. i - 1 \in 0..len /\ i - 1 \in Nat /\ i - 1 \notin T /\ i \in 1..len BY <2>3, <2>6
    <3>2. \A z \in f[i - 1] : Piecewise(b, c, mem, a, i - 1, z) BY <3>1
    <3>3. s[i] = (i - 1) + 1 /\ (i - 1) + 1 = i BY <3>1
    <3>5. PICK z \in f[i - 1] :
             IF z.ok THEN x \in ReadingOne(z.m, LAMBDA p : WordAt(p, c, mem, a + s[i] - 1))
             ELSE x = z
      <4> HIDE DEF s, T
      <4>1. x \in Then(f[i - 1], LAMBDA l :
                      ReadingOne(l, LAMBDA p : WordAt(p, c, mem, a + s[i] - 1))) BY <2>a, <2>4, <2>6
      <4>2. QED BY <4>1 DEF Then
    <3>6. Piecewise(b, c, mem, a, i - 1, z) /\ z.ok \in BOOLEAN BY <3>2 DEF Piecewise, Went
    <3>7. CASE z.ok = TRUE
      <4>1. PICK l \in Later(z.m) :
               x \in Access(l, [l EXCEPT !.words = Append(@, WordAt(l, c, mem, a + s[i] - 1))])
        BY <3>5, <3>7 DEF ReadingOne
      <4>2. x \in Access(l, [l EXCEPT !.words =
                                Append(@, WordAt(l, c, mem, a + ((i - 1) + 1) - 1))]) BY <3>3, <4>1
      <4>3. Piecewise(b, c, mem, a, (i - 1) + 1, x) BY <3>1, <3>6, <3>7, <4>1, <4>2, OneMore
      <4>4. QED BY <2>4, <3>3, <4>3
    <3>8. CASE z.ok = FALSE BY <2>4, <3>5, <3>6, <3>8 DEF Piecewise
    <3>9. QED BY <3>6, <3>7, <3>8
  <2>7. QED BY <2>5, <2>6
<1>5. \A x \in f[len] : Piecewise(b, c, mem, a, len, x)
  <2>1. \A i \in 0..len : i \notin T
    <3> HIDE DEF T
    <3>1. QED BY <1>4
  <2>2. len \in 0..len OBVIOUS
  <2>3. QED BY <2>1, <2>2
<1>6. QED BY <1>1, <1>2, <1>5

\* The address, then word by word.
LEMMA XmapBlockOut ==
  ASSUME NEW b, Rec(b), NEW c, NEW mem, NEW a, NEW len \in Nat,
         NEW o \in XmapReadBlock(b, c, mem, a, len)
  PROVE  Piecewise(b, c, mem, a, len, o)
<1> DEFINE F(l) == WordByWord(l, c, mem, a, len)
<1>1. o \in Then(Looking(b), F) BY DEF XmapReadBlock
<1> HIDE DEF F
<1>2. PICK z \in Looking(b) : IF z.ok THEN o \in F(z.m) ELSE o = z BY <1>1 DEF Then
<1>3. Went(b, z) /\ Rec(z.m) BY LookingOut, LookedWent
<1>4. z.ok => Piecewise(z.m, c, mem, a, len, o) BY <1>2, <1>3, WordByWordOut DEF F
<1>5. QED BY <1>2, <1>3, <1>4, PiecewiseThen

-----------------------------------------------------------------------------
(* Addresses and lengths: looking, for any number of channels. *)

\* Two parameters that are looked up leave the board.
LEMMA LooksTwiceOut ==
  ASSUME NEW b, Rec(b), NEW o \in LooksTwice(b)
  PROVE  Looked(b, o)
<1>1. PICK z \in Looking(b) : IF z.ok THEN o \in Looking(z.m) ELSE o = z BY DEF LooksTwice, Then
<1>2. Looked(b, z) /\ Rec(z.m) BY LookingOut, LookedWent
<1>3. z.ok => Looked(z.m, o) BY <1>1, <1>2, LookingOut
<1>4. QED BY <1>1, <1>2, <1>3, LookedThen

\* The walk exists, for any number of channels below.
LEMMA WalkExists == ASSUME NEW b, NEW n \in Nat PROVE \E f : Walk(b, n, f)
<1> DEFINE T == {m \in Nat : ~ \E f : Walk(b, m, f)}
           G(outs) == Then(outs, LAMBDA l : LooksTwice(l))
           d == Done(b)
<1>0. \A m, f : Walk(b, m, f) <=> f = [i \in 0..m |-> IF i = 0 THEN d ELSE G(f[i - 1])] BY DEF Walk
<1>1. SUFFICES ASSUME T # {} PROVE FALSE OBVIOUS
<1>2. PICK x \in T : \A y \in T : x <= y BY <1>1, Least
<1> HIDE DEF G, d
<1>3. x # 0
  <2> DEFINE h == [i \in 0..0 |-> d]
  <2>1. h = [i \in 0..0 |-> IF i = 0 THEN d ELSE G(h[i - 1])]
    <3>1. \A i \in 0..0 : i = 0 OBVIOUS
    <3>2. QED BY <3>1
  <2>2. Walk(b, 0, h) BY <1>0, <2>1
  <2>3. QED BY <2>2
<1>4. x - 1 \in Nat /\ x - 1 \notin T BY <1>2, <1>3
<1>5. PICK f : Walk(b, x - 1, f) BY <1>4
<1>6. f = [i \in 0..(x - 1) |-> IF i = 0 THEN d ELSE G(f[i - 1])] BY <1>0, <1>5
<1> DEFINE g == [i \in 0..x |-> IF i = x THEN G(f[x - 1]) ELSE f[i]]
<1>7. g = [i \in 0..x |-> IF i = 0 THEN d ELSE G(g[i - 1])]
  <2>1. ASSUME NEW i \in 0..x
        PROVE  g[i] = IF i = 0 THEN d ELSE G(g[i - 1])
    <3>1. CASE i = x BY <1>3, <3>1
    <3>2. CASE i # x
      <4>1. x \in Nat /\ i \in 0..(x - 1) /\ (i # 0 => i - 1 \in 0..(x - 1)) BY <1>2, <3>2
      <4>2. g[i] = f[i] /\ (i # 0 => g[i - 1] = f[i - 1]) BY <3>2, <4>1
      <4>3. f[i] = IF i = 0 THEN d ELSE G(f[i - 1]) BY <1>6, <4>1
      <4> HIDE DEF g
      <4>4. QED BY <4>2, <4>3
    <3>3. QED BY <3>1, <3>2
  <2>2. QED BY <2>1
<1>8. Walk(b, x, g) BY <1>0, <1>7
<1>9. QED BY <1>8

\* However far it goes, it leaves the board.
LEMMA WalkLooks ==
  ASSUME NEW b, Rec(b), NEW n \in Nat, NEW f, Walk(b, n, f), NEW o \in f[n]
  PROVE  Looked(b, o)
<1> DEFINE T == {i \in 0..n : ~ \A x \in f[i] : Looked(b, x)}
<1>1. SUFFICES ASSUME T # {} PROVE FALSE OBVIOUS
<1>2. T \subseteq Nat OBVIOUS
<1>3. PICK i \in T : \A j \in T : i <= j
  <2> HIDE DEF T
  <2>1. QED BY <1>1, <1>2, Least
<1>4. f[i] = IF i = 0 THEN Done(b) ELSE Then(f[i - 1], LAMBDA l : LooksTwice(l)) BY <1>3 DEF Walk
<1>5. PICK x \in f[i] : ~Looked(b, x) BY <1>3
<1>6. CASE i = 0
  <2>1. x.ok = TRUE /\ x.m = b BY <1>4, <1>5, <1>6 DEF Done
  <2>2. Changed(b, x.m, {"now", "budget"}) BY <2>1, Same
  <2>3. QED BY <1>5, <2>1, <2>2 DEF Looked
<1>7. CASE i # 0
  <2>1. i - 1 \in 0..n /\ i - 1 \notin T BY <1>3, <1>7
  <2>2. PICK z \in f[i - 1] : IF z.ok THEN x \in LooksTwice(z.m) ELSE x = z
    BY <1>4, <1>5, <1>7 DEF Then
  <2>3. Looked(b, z) /\ Rec(z.m) BY <2>1, <2>2, LookedWent
  <2>4. z.ok => Looked(z.m, x) BY <2>2, <2>3, LooksTwiceOut
  <2>5. QED BY <1>5, <2>2, <2>3, <2>4, LookedThen
<1>8. QED BY <1>6, <1>7

\* Each driver looks up the length of a spectrum, and its address.
LEMMA AddressesAre ==
  ASSUME NEW b, NEW c
  PROVE  /\ \A l : /\ XmapGetSpectrumLength(l) = LooksTwice(l)
                   /\ MercuryGetSpectrumLength(l) = LooksTwice(l)
                   /\ StjGetSpectrumLength(l) = LooksTwice(l)
         /\ XmapGetMcaChanAddr(b, c) = Addresses(b, c, Block)
         /\ MercuryGetMcaChanAddr(b, c) = Addresses(b, c, Block)
         /\ StjGetMcaChanAddr(b, c) = Addresses(b, c, StjStats)
<1>1. \A l : /\ XmapGetSpectrumLength(l) = LooksTwice(l)
             /\ MercuryGetSpectrumLength(l) = LooksTwice(l)
             /\ StjGetSpectrumLength(l) = LooksTwice(l)
  BY DEF LooksTwice, Then, XmapGetSpectrumLength, MercuryGetSpectrumLength, StjGetSpectrumLength,
         XmapReadDspsymbol, MercuryReadDspsymbol, StjReadDspsymbol
<1>2. /\ XmapGetMcaChanAddr(b, c) = Addresses(b, c, Block)
      /\ MercuryGetMcaChanAddr(b, c) = Addresses(b, c, Block)
      /\ StjGetMcaChanAddr(b, c) = Addresses(b, c, StjStats)
  BY Zenon DEF Addresses, InTurn, LooksTwice, Then, XmapGetMcaChanAddr, MercuryGetMcaChanAddr,
     StjGetMcaChanAddr, XmapGetSpectrumLength, MercuryGetSpectrumLength, StjGetSpectrumLength,
     XmapReadDspsymbol, MercuryReadDspsymbol, StjReadDspsymbol
<1>3. QED BY <1>1, <1>2

\* What is found is what it is, whatever the lengths below.
LEMMA AddressOut ==
  ASSUME NEW b, Rec(b), NEW c \in Nat \ {0}, NEW d, NEW o \in Addresses(b, c, d)
  PROVE  Went(b, o) /\ (o.ok => o.m.value = Below(b, c) + d)
<1> DEFINE s == [j \in 1..(c - 1) |-> j]
           f == CHOOSE g : g = [i \in 0..Len(s) |->
                                  IF i = 0 THEN Done(b) ELSE Then(g[i - 1], LAMBDA l : LooksTwice(l))]
           x == Below(b, c) + d
           F(l) == IF Below(b, c) % Block # 0 THEN Refused(l) ELSE Done([l EXCEPT !.value = x])
<1>1. o \in Then(f[Len(s)], F) BY DEF Addresses, InTurn
<1>2. Len(s) = c - 1 /\ c - 1 \in Nat OBVIOUS
<1>3. Walk(b, c - 1, f)
  <2>1. f = CHOOSE g : Walk(b, c - 1, g) BY <1>2 DEF Walk
  <2> HIDE DEF f
  <2>2. QED BY <1>2, <2>1, WalkExists
<1> HIDE DEF f, F, x
<1>4. PICK z \in f[c - 1] : IF z.ok THEN o \in F(z.m) ELSE o = z BY <1>1, <1>2 DEF Then
<1>5. Went(b, z) /\ Rec(z.m) BY <1>2, <1>3, <1>4, WalkLooks, LookedWent
<1>6. CASE z.ok = TRUE
  <2>1. CASE o \in Refused(z.m)
    <3>1. Went(z.m, o) /\ o.ok = FALSE BY <1>5, <2>1, RefusedOut
    <3>2. QED BY <1>5, <1>6, <3>1, WentThen
  <2>2. CASE o \in Done([z.m EXCEPT !.value = x])
    <3>1. o.ok = TRUE /\ o.m = [z.m EXCEPT !["value"] = x] BY <2>2 DEF Done
    <3>2. Changed(z.m, o.m, Scratch) /\ o.m["value"] = x BY <1>5, <3>1, PutScratch
    <3>3. Went(z.m, o) BY <3>1, <3>2 DEF Went
    <3>4. QED BY <1>5, <1>6, <3>2, <3>3, WentThen DEF x
  <2>3. QED BY <1>4, <1>6, <2>1, <2>2 DEF F
<1>7. CASE z.ok = FALSE BY <1>4, <1>5, <1>7
<1>8. QED BY <1>5, <1>6, <1>7 DEF Went

-----------------------------------------------------------------------------
(* Spectra, baselines and parameters. *)

\* What failed promises no words.
LEMMA NotOnce ==
  ASSUME NEW b, NEW o, Went(b, o), o.ok = FALSE, NEW c, NEW mem, NEW a, NEW len
  PROVE  AtOnce(b, c, mem, a, len, o) /\ Piecewise(b, c, mem, a, len, o)
  BY DEF AtOnce, Piecewise

\* What is read at once is read piece by piece too.
LEMMA OnceIsPiecewise ==
  ASSUME NEW b, NEW c, NEW mem, NEW a, NEW len, NEW o, AtOnce(b, c, mem, a, len, o)
  PROVE  Piecewise(b, c, mem, a, len, o)
<1>1. Went(b, o) BY DEF AtOnce
<1>2. CASE o.ok
  <2>1. PICK l : Changed(b, l, Scratch)
                 /\ o.m.words = [i \in 1..len |-> WordAt(l, c, mem, a + i - 1)] BY <1>2 DEF AtOnce
  <2> DEFINE L == [i \in 1..len |-> l]
  <2>2. \A i \in 1..len : L[i] = l OBVIOUS
  <2> HIDE DEF L
  <2>3. o.m.words = [i \in 1..len |-> WordAt(L[i], c, mem, a + i - 1)] BY <2>1, <2>2
  <2>4. \A i \in 1..len : Changed(b, L[i], Scratch) BY <2>1, <2>2
  <2>5. QED BY <1>1, <2>3, <2>4 DEF Piecewise
<1>3. QED BY <1>1, <1>2 DEF Piecewise

\* A spectrum is one block, above those of the channels below.
LEMMA SpectrumOut ==
  ASSUME NEW b, Rec(b), NEW c \in Nat \ {0}, NEW d, NEW o,
         \/ d = Block /\ o \in XmapReadSpectrum(b, c) \cup MercuryReadSpectrum(b, c)
         \/ d = StjStats /\ o \in StjReadSpectrum(b, c)
  PROVE  AtOnce(b, c, "burst", Below(b, c) + d, Length(b, c), o)
<1> DEFINE v == Below(b, c) + d
           len == Length(b, c)
           From3(l) == IF len = 0 THEN Refused(l)
                       ELSE XmapBurstReadBlock(l, l.value, len) \cup StjBurstReadBlock(l, l.value, len)
                              \cup MercuryReadBlock(l, c, "burst", l.value, len)
           Z == Addresses(b, c, d)
           G(z) == \E y \in LooksTwice(z.m) : IF y.ok THEN o \in From3(y.m) ELSE o = y
<1>1. PICK z \in Z : IF z.ok THEN G(z) ELSE o = z
  <2>1. CASE d = Block /\ o \in XmapReadSpectrum(b, c)
    BY <2>1, AddressesAre DEF XmapReadSpectrum, Then
  <2>2. CASE d = Block /\ o \in MercuryReadSpectrum(b, c)
    BY <2>2, AddressesAre DEF MercuryReadSpectrum, Then
  <2>3. CASE d = StjStats /\ o \in StjReadSpectrum(b, c)
    BY <2>3, AddressesAre DEF StjReadSpectrum, Then
  <2>4. QED BY <2>1, <2>2, <2>3
<1>2. Went(b, z) /\ (z.ok => z.m.value = v) /\ Rec(z.m) /\ z.ok \in BOOLEAN
  BY <1>1, AddressOut, WentRec
<1> HIDE DEF v, len, Z
<1>3. ASSUME z.ok PROVE AtOnce(z.m, c, "burst", v, len, o)
  <2>1. PICK y \in LooksTwice(z.m) : IF y.ok THEN o \in From3(y.m) ELSE o = y BY <1>1, <1>3
  <2>2. Looked(z.m, y) /\ Went(z.m, y) /\ Rec(y.m) BY <1>2, <2>1, LooksTwiceOut, LookedWent
  <2>3. y.m.value = v BY <1>2, <1>3, <2>2 DEF Looked, Changed, Fields
  <2>4. ASSUME y.ok PROVE AtOnce(y.m, c, "burst", v, len, o)
    <3>1. CASE len = 0 BY <2>1, <2>2, <2>4, <3>1, RefusedOut, NotOnce
    <3>2. CASE len # 0 BY <2>1, <2>2, <2>3, <2>4, <3>2, XmapBurstOut, StjBurstOut, MercuryBlockOut
    <3>3. QED BY <3>1, <3>2
  <2>5. QED BY <1>2, <2>1, <2>2, <2>4, AtOnceThen
<1>4. QED BY <1>1, <1>2, <1>3, AtOnceThen DEF v, len

\* The baseline of an xMAP is read word by word.
LEMMA XmapBaselineOut ==
  ASSUME NEW b, Rec(b), NEW c, NEW o \in XmapReadBaseline(b, c)
  PROVE  Piecewise(b, c, "baseline", 0, BaseLen, o)
<1>1. PICK y \in LooksTwice(b) :
        IF y.ok THEN o \in XmapReadBlock(y.m, c, "baseline", 0, BaseLen) ELSE o = y
  BY DEF XmapReadBaseline, XmapReadDspsymbol, LooksTwice, Then
<1>2. Went(b, y) /\ Rec(y.m) BY <1>1, LooksTwiceOut, LookedWent
<1>3. y.ok => Piecewise(y.m, c, "baseline", 0, BaseLen, o)
  BY <1>1, <1>2, SizesAssumption, XmapBlockOut
<1>4. QED BY <1>1, <1>2, <1>3, PiecewiseThen

\* That of a Mercury is one block.
LEMMA MercuryBaselineOut ==
  ASSUME NEW b, Rec(b), NEW c, NEW o \in MercuryReadBaseline(b, c)
  PROVE  AtOnce(b, c, "baseline", 0, BaseLen, o)
<1>1. PICK y \in LooksTwice(b) :
        IF y.ok THEN o \in MercuryReadBlock(y.m, c, "baseline", 0, BaseLen) ELSE o = y
  BY DEF MercuryReadBaseline, MercuryReadDspsymbol, LooksTwice, Then
<1>2. Went(b, y) /\ Rec(y.m) BY <1>1, LooksTwiceOut, LookedWent
<1>3. y.ok => AtOnce(y.m, c, "baseline", 0, BaseLen, o) BY <1>1, <1>2, MercuryBlockOut
<1>4. QED BY <1>1, <1>2, <1>3, AtOnceThen

\* So is that of a Saturn.
LEMMA SaturnBaselineOut ==
  ASSUME NEW b, Rec(b), NEW c, NEW o \in SaturnReadBaseline(b, c)
  PROVE  AtOnce(b, c, "baseline", 0, BaseLen, o)
<1> DEFINE F(l) == SaturnReadBlock(l, c, "baseline", 0, BaseLen)
<1>1. o \in Then(SaturnDxpGetBaselineLength(b), F) BY DEF SaturnReadBaseline
<1> HIDE DEF F
<1>2. PICK z \in SaturnDxpGetBaselineLength(b) : IF z.ok THEN o \in F(z.m) ELSE o = z
  BY <1>1 DEF Then
<1>3. Went(b, z) /\ Rec(z.m) /\ z.ok \in BOOLEAN
  BY <1>2, LookingOut, LookedWent, WentRec DEF SaturnDxpGetBaselineLength, SaturnReadDspsymbol
<1>4. z.ok => AtOnce(z.m, c, "baseline", 0, BaseLen, o) BY <1>2, <1>3, SaturnBlockOut DEF F
<1>5. QED BY <1>2, <1>3, <1>4, AtOnceThen

\* All parameters of the Saturn, in one block.
LEMMA SaturnParamsOut ==
  ASSUME NEW b, Rec(b), NEW c, NEW o \in SaturnReadDspparams(b, c)
  PROVE  AtOnce(b, c, "parameters", 0, 2, o)
<1> DEFINE W(l) == [i \in 1..2 |-> WordAt(l, c, "parameters", i - 1)]
<1>1. PICK l \in Later(b) : o \in Access(l, [l EXCEPT !.words = W(l)])
  BY DEF SaturnReadDspparams, Reading
<1>2. W(l) = [i \in 1..2 |-> WordAt(l, c, "parameters", 0 + i - 1)]
  <2>1. \A i \in 1..2 : i - 1 = 0 + i - 1 OBVIOUS
  <2>2. QED BY <2>1
<1> HIDE DEF W
<1>3. Went(b, o) /\ Changed(b, l, Scratch) /\ (o.ok => o.m.words = W(l)) BY <1>1, ReadOut
<1>4. QED BY <1>2, <1>3 DEF AtOnce

\* Those of the others, word by word.
LEMMA ParamsOut ==
  ASSUME NEW b, Rec(b), NEW c, b.product \in {"xmap", "mercury", "stj", "udxp"},
         NEW o \in ReadDspparams(b, c)
  PROVE  Piecewise(b, c, "parameters", 0, 2, o)
<1>1. o \in WordByWord(b, c, "parameters", 0, 2)
  BY DEF ReadDspparams, XmapReadDspparams, MercuryReadDspparams, StjReadDspparams,
         UdxpReadDspparams, ByWord
<1>2. 2 \in Nat OBVIOUS
<1>3. QED BY <1>1, <1>2, WordByWordOut

-----------------------------------------------------------------------------
(* Answers: what the numbers are made of, and of what instant. *)

\* What a word is does not depend on when it is read.
LEMMA SameWord ==
  ASSUME NEW b, NEW l, Changed(b, l, Scratch), NEW c, NEW mem \in Memories, NEW a
  PROVE  Triple(WordAt(l, c, mem, a)) = Item(b, c, mem, a) /\ WordAt(l, c, mem, a).at = l.now
<1>1. l.product = b.product /\ l.n = b.n /\ l.laid = b.laid /\ l.par = b.par
  BY DEF Changed, Scratch, Fields
<1>2. \A x, i, j : Triple(Cell(l, x, i, j)) = Triple(Cell(b, x, i, j))
                   /\ Cell(l, x, i, j).at = l.now BY DEF Triple, Cell
<1>3. CASE mem = "burst"
  <2> DEFINE owner(y) == {x \in Chans(y) : a - Start(y, x) \in 0..(y.laid[x] - 1)}
             who == CHOOSE x \in owner(b) : TRUE
  <2>1. Chans(l) = Chans(b) /\ \A x : Start(l, x) = Start(b, x) BY <1>1 DEF Chans, Start, Header
  <2>2. owner(l) = owner(b) BY <1>1, <2>1
  <2>3. \A y \in {l, b} : WordAt(y, c, mem, a) = MemoryWord(y, a) BY <1>3 DEF WordAt
  <2>4. \A y \in {l, b} :
           MemoryWord(y, a) =
             IF a < b.n THEN Cell(y, a + 1, "counters", 0)
             ELSE IF a >= ScaMemBase
             THEN Cell(y, 1 + ((a - ScaMemBase) \div ScaOffset), "sca",
                       (a - ScaMemBase) % ScaOffset)
             ELSE IF owner(b) = {} THEN Cell(y, 0, "nothing", 0)
             ELSE Cell(y, who, "bin", a - Start(b, who))
    <3> DEFINE first(S) == CHOOSE x \in S : TRUE
    <3>1. \A y : MemoryWord(y, a) =
             IF a < y.n THEN Cell(y, a + 1, "counters", 0)
             ELSE IF a >= ScaMemBase
             THEN Cell(y, 1 + ((a - ScaMemBase) \div ScaOffset), "sca",
                       (a - ScaMemBase) % ScaOffset)
             ELSE IF owner(y) = {} THEN Cell(y, 0, "nothing", 0)
             ELSE Cell(y, first(owner(y)), "bin", a - Start(y, first(owner(y)))) BY DEF MemoryWord
    <3>2. who = first(owner(b)) OBVIOUS
    <3> HIDE DEF owner, who, first
    <3>3. QED BY <1>1, <2>1, <2>2, <3>1, <3>2
  <2> HIDE DEF owner, who
  <2>5. QED BY <1>2, <2>3, <2>4 DEF Item
<1>4. CASE mem = "spectrum" BY <1>1, <1>2, <1>4 DEF WordAt, Item, SpectrumWord
<1>5. CASE mem = "data" BY <1>1, <1>2, <1>5 DEF WordAt, Item, DataWord
<1>6. CASE mem = "baseline" BY <1>2, <1>6 DEF WordAt, Item, Histogram
<1>7. CASE mem = "parameters" BY <1>2, <1>7 DEF WordAt, Item
<1>8. QED BY <1>3, <1>4, <1>5, <1>6, <1>7 DEF Memories

\* Going on to an answer.
LEMMA SendsThen ==
  ASSUME NEW b, Rec(b), NEW z, Went(b, z), NEW P, NEW when, NEW o,
         IF z.ok THEN Sends(z.m, o, P, when) ELSE o = z
  PROVE  Sends(b, o, P, when)
<1>1. CASE z.ok
  <2>1. Went(b, o) BY <1>1, WentThen DEF Sends
  <2>2. z.m.snap = b.snap BY DEF Went, Changed, Scratch, Fields
  <2>3. QED BY <1>1, <2>1, <2>2 DEF Sends, Timed
<1>2. CASE ~z.ok BY <1>2 DEF Sends
<1>3. QED BY <1>1, <1>2

\* A refusal sends nothing.
LEMMA RefusedSends ==
  ASSUME NEW b, Rec(b), NEW P, NEW when, NEW o \in Refused(b)
  PROVE  Sends(b, o, P, when)
  BY RefusedOut DEF Sends

\* An answer that is computed from what a call left.
LEMMA AnswerSends ==
  ASSUME NEW b, Rec(b), NEW z, Went(b, z), NEW x, NEW P, NEW when,
         z.ok => Is(x, P) /\ Timed(b, x, when),
         NEW o, IF z.ok THEN o \in Answer(z.m, x) ELSE o = z
  PROVE  Sends(b, o, P, when)
<1>1. CASE z.ok
  <2>1. Went(z.m, o) /\ o.m.got = x BY <1>1, WentRec, AnswerOut
  <2>2. Went(b, o) BY <1>1, <2>1, WentThen
  <2>3. QED BY <1>1, <2>1, <2>2 DEF Sends
<1>2. CASE ~z.ok BY <1>2 DEF Sends
<1>3. QED BY <1>1, <1>2

\* A block that was read at one instant, a number for each word.
LEMMA DeliveredOnce ==
  ASSUME NEW b, Rec(b), NEW c, NEW mem \in Memories, NEW a, NEW len, NEW outs,
         \A z \in outs : AtOnce(b, c, mem, a, len, z), NEW o \in Delivered(outs)
  PROVE  Sends(b, o, Words(b, c, mem, a, len), "once")
<1>1. PICK z \in outs :
         IF z.ok THEN o \in Answer(z.m, [i \in DOMAIN z.m.words |-> {z.m.words[i]}]) ELSE o = z
  BY DEF Delivered, Then
<1> DEFINE x == [i \in DOMAIN z.m.words |-> {z.m.words[i]}]
           P == Words(b, c, mem, a, len)
<1>2. Went(b, z) BY <1>1 DEF AtOnce
<1>3. ASSUME z.ok PROVE Is(x, P) /\ \E t : Since(x, t)
  <2>1. PICK l : Changed(b, l, Scratch)
                 /\ z.m.words = [i \in 1..len |-> WordAt(l, c, mem, a + i - 1)]
    BY <1>1, <1>3 DEF AtOnce
  <2>2. x = [i \in 1..len |-> {WordAt(l, c, mem, a + i - 1)}] BY <2>1
  <2>3. \A i \in 1..len : Triple(WordAt(l, c, mem, a + i - 1)) = Item(b, c, mem, a + i - 1)
                          /\ WordAt(l, c, mem, a + i - 1).at = l.now BY <2>1, SameWord
  <2> HIDE DEF x
  <2>4. Since(x, l.now) BY <2>2, <2>3 DEF Since
  <2>5. DOMAIN x = 1..len BY <2>2
  <2>6. \A i \in 1..len : {Triple(w) : w \in x[i]} = {Item(b, c, mem, a + i - 1)} BY <2>2, <2>3
  <2>7. Is(x, P) BY <2>5, <2>6 DEF Is, Words
  <2>8. QED BY <2>4, <2>7
<1> HIDE DEF x, P
<1>4. Timed(b, x, "once") <=> \E t : Since(x, t) BY DEF Timed
<1>5. IF z.ok THEN o \in Answer(z.m, x) ELSE o = z BY <1>1 DEF x
<1>6. Sends(b, o, P, "once") BY <1>2, <1>3, <1>4, <1>5, AnswerSends
<1>7. QED BY <1>6 DEF P

\* Words that were read one after the other.
LEMMA DeliveredPiecewise ==
  ASSUME NEW b, Rec(b), NEW c, NEW mem \in Memories, NEW a, NEW len, NEW outs,
         \A z \in outs : Piecewise(b, c, mem, a, len, z), NEW o \in Delivered(outs)
  PROVE  Sends(b, o, Words(b, c, mem, a, len), "any")
<1>1. PICK z \in outs :
         IF z.ok THEN o \in Answer(z.m, [i \in DOMAIN z.m.words |-> {z.m.words[i]}]) ELSE o = z
  BY DEF Delivered, Then
<1> DEFINE x == [i \in DOMAIN z.m.words |-> {z.m.words[i]}]
           P == Words(b, c, mem, a, len)
<1>2. Went(b, z) BY <1>1 DEF Piecewise
<1>3. ASSUME z.ok PROVE Is(x, P)
  <2>1. PICK L : /\ z.m.words = [i \in 1..len |-> WordAt(L[i], c, mem, a + i - 1)]
                 /\ \A i \in 1..len : Changed(b, L[i], Scratch) BY <1>1, <1>3 DEF Piecewise
  <2>2. x = [i \in 1..len |-> {WordAt(L[i], c, mem, a + i - 1)}] BY <2>1
  <2>3. \A i \in 1..len : Triple(WordAt(L[i], c, mem, a + i - 1)) = Item(b, c, mem, a + i - 1)
    BY <2>1, SameWord
  <2> HIDE DEF x
  <2>4. DOMAIN x = 1..len BY <2>2
  <2>5. \A i \in 1..len : {Triple(w) : w \in x[i]} = {Item(b, c, mem, a + i - 1)} BY <2>2, <2>3
  <2>6. QED BY <2>4, <2>5 DEF Is, Words
<1> HIDE DEF x, P
<1>4. Timed(b, x, "any") BY DEF Timed
<1>5. IF z.ok THEN o \in Answer(z.m, x) ELSE o = z BY <1>1 DEF x
<1>6. Sends(b, o, P, "any") BY <1>2, <1>3, <1>4, <1>5, AnswerSends
<1>7. QED BY <1>6 DEF P

\* The halves of a pair.
LEMMA Halves ==
  ASSUME NEW n \in Nat, NEW i \in 1..n
  PROVE  /\ (2 * i) - 1 \in 1..(2 * n) /\ 2 * i \in 1..(2 * n)
         /\ (2 * n) \div 2 = n OBVIOUS

\* A block that was read at one instant, a number for each two words.
LEMMA PairsOnce ==
  ASSUME NEW b, Rec(b), NEW c, NEW mem \in Memories, NEW a, NEW n \in Nat, NEW outs,
         \A z \in outs : AtOnce(b, c, mem, a, 2 * n, z), NEW o \in Pairs(outs)
  PROVE  Sends(b, o, PairsOf(b, c, mem, a, n), "once")
<1>1. PICK z \in outs :
         IF z.ok THEN o \in Answer(z.m, [i \in 1..(Len(z.m.words) \div 2) |->
                                          {z.m.words[(2 * i) - 1], z.m.words[2 * i]}])
         ELSE o = z BY DEF Pairs, Then
<1> DEFINE x == [i \in 1..(Len(z.m.words) \div 2) |->
                   {z.m.words[(2 * i) - 1], z.m.words[2 * i]}]
           P == PairsOf(b, c, mem, a, n)
<1>2. Went(b, z) BY <1>1 DEF AtOnce
<1>3. ASSUME z.ok PROVE Is(x, P) /\ \E t : Since(x, t)
  <2> DEFINE s == z.m.words
             W(l, j) == WordAt(l, c, mem, a + j - 1)
  <2>1. PICK l : Changed(b, l, Scratch) /\ s = [i \in 1..(2 * n) |-> W(l, i)]
    BY <1>1, <1>3 DEF AtOnce
  <2>2. Len(s) = 2 * n
    <3> HIDE DEF s, W
    <3>1. s = [i \in 1..(2 * n) |-> s[i]] /\ 2 * n \in Nat BY <2>1
    <3>2. QED BY <3>1, LengthOf
  <2>3. (2 * n) \div 2 = n OBVIOUS
  <2>4. x = [i \in 1..n |-> {s[(2 * i) - 1], s[2 * i]}] BY <2>2, <2>3
  <2>5. \A i \in 1..n : x[i] = {W(l, (2 * i) - 1), W(l, 2 * i)}
    <3> HIDE DEF W, s, x
    <3>1. QED BY <2>1, <2>4, Halves
  <2>6. \A j : Triple(W(l, j)) = Item(b, c, mem, a + j - 1) /\ W(l, j).at = l.now BY <2>1, SameWord
  <2>7. DOMAIN x = 1..n BY <2>4
  <2> HIDE DEF x, W
  <2>8. Since(x, l.now) BY <2>5, <2>6, <2>7 DEF Since
  <2>9. \A i \in 1..n : {Triple(w) : w \in x[i]} =
                         {Item(b, c, mem, a + ((2 * i) - 1) - 1), Item(b, c, mem, a + (2 * i) - 1)}
    BY <2>5, <2>6
  <2>10. Is(x, P) BY <2>7, <2>9 DEF Is, PairsOf
  <2>11. QED BY <2>8, <2>10
<1> HIDE DEF x, P
<1>4. Timed(b, x, "once") <=> \E t : Since(x, t) BY DEF Timed
<1>5. IF z.ok THEN o \in Answer(z.m, x) ELSE o = z BY <1>1 DEF x
<1>6. Sends(b, o, P, "once") BY <1>2, <1>3, <1>4, <1>5, AnswerSends
<1>7. QED BY <1>6 DEF P

\* A length, or a flag.
LEMMA NumberSends ==
  ASSUME NEW b, Rec(b), NEW x, NEW o \in Number(b, x)
  PROVE  Sends(b, o, <<{<<"number", 0, x>>}>>, "once") /\ o.ok = TRUE
         /\ o.m = [b EXCEPT !.got = <<{Cell(b, 0, "number", x)}>>]
<1>0. \A y : o \in Answer(b, y) =>
              o.ok = TRUE /\ o.m = [b EXCEPT !.got = y] /\ o.m.got = y /\ Went(b, o)
  <2>1. \A y : o \in Answer(b, y) => o.ok = TRUE /\ o.m.got = y /\ Went(b, o) BY AnswerOut
  <2>2. \A y : o \in Answer(b, y) => o.m = [b EXCEPT !.got = y] BY DEF Answer, Done
  <2>3. QED BY <2>1, <2>2
<1> DEFINE w == Cell(b, 0, "number", x)
           g == <<{w}>>
<1>1. o \in Answer(b, g) BY DEF Number
<1>2. DOMAIN g = {1} /\ g[1] = {w} OBVIOUS
<1>3. Triple(w) = <<"number", 0, x>> /\ w.at = b.now BY DEF Triple, Cell
<1> HIDE DEF w
<1>4. Since(g, b.now) BY <1>2, <1>3 DEF Since
<1>5. Is(g, <<{<<"number", 0, x>>}>>)
  <2>1. {Triple(v) : v \in g[1]} = {<<"number", 0, x>>} BY <1>2, <1>3
  <2>2. [i \in DOMAIN g |-> {Triple(v) : v \in g[i]}] = [i \in {1} |-> {<<"number", 0, x>>}]
    BY <1>2, <2>1
  <2>3. [i \in {1} |-> {<<"number", 0, x>>}] = <<{<<"number", 0, x>>}>> OBVIOUS
  <2>4. QED BY <2>2, <2>3 DEF Is
<1>6. o.ok = TRUE /\ o.m = [b EXCEPT !.got = g] /\ o.m.got = g /\ Went(b, o)
  <2> HIDE DEF g
  <2>1. QED BY <1>0, <1>1
<1>7. Timed(b, g, "once")
  <2> HIDE DEF g
  <2>1. QED BY <1>4 DEF Timed
<1>8. Sends(b, o, <<{<<"number", 0, x>>}>>, "once") BY <1>5, <1>6, <1>7 DEF Sends
<1>9. QED BY <1>6, <1>8 DEF w

-----------------------------------------------------------------------------
(* Xerxes. *)

\* Memory by name.
LEMMA BurstOut ==
  ASSUME NEW b, Rec(b), b.product \in Big, NEW c, NEW a, NEW len,
         NEW o \in DxpReadMemory(b, c, "burst", a, len)
  PROVE  AtOnce(b, c, "burst", a, len, o)
<1>1. CASE b.product = "xmap"
  <2>1. o \in XmapBurstReadBlock(b, a, len) BY <1>1 DEF DxpReadMemory, XmapReadMem
  <2>2. QED BY <2>1, XmapBurstOut
<1>2. CASE b.product = "mercury"
  <2>1. o \in MercuryReadBlock(b, c, "burst", a, len) BY <1>2 DEF DxpReadMemory, MercuryReadMem
  <2>2. QED BY <2>1, MercuryBlockOut
<1>3. CASE b.product = "stj"
  <2>1. o \in StjBurstReadBlock(b, a, len) BY <1>3 DEF DxpReadMemory, StjReadMem
  <2>2. QED BY <2>1, StjBurstOut
<1>4. QED BY <1>1, <1>2, <1>3 DEF Big

\* What Xerxes reads of the memory of a Saturn is one block.
LEMMA SaturnMemoryOut ==
  ASSUME NEW b, Rec(b), b.product = "saturn", NEW c, NEW mem \in {"spectrum", "data"}, NEW a,
         NEW len, NEW o \in DxpReadMemory(b, c, mem, a, len)
  PROVE  AtOnce(b, c, mem, a, len, o)
<1>1. o \in SaturnReadBlock(b, c, mem, a, len)
  BY DEF DxpReadMemory, SaturnReadMem, SaturnReadSpectrumMemory, SaturnReadDataMemory
<1>2. QED BY <1>1, SaturnBlockOut

\* What a command of a microDXP answers is an area at one instant.
LEMMA UdxpCmdOut ==
  ASSUME NEW b, Rec(b), NEW c, NEW area, NEW len, NEW o \in UdxpCmd(b, c, area, len)
  PROVE  AreaOnce(b, c, area, len, o)
<1> DEFINE W(l) == [i \in 1..len |-> AreaWord(l, c, area, i - 1)]
<1>1. PICK l \in Later(b) : o \in Access(l, [l EXCEPT !.words = W(l)]) BY DEF UdxpCmd, Reading
<1> HIDE DEF W
<1>2. Went(b, o) /\ Changed(b, l, Scratch) /\ (o.ok => o.m.words = W(l)) BY <1>1, ReadOut
<1>3. QED BY <1>2 DEF AreaOnce, W

\* Over USB: the address, the words, the reset of the bus.
LEMMA UdxpDirectOut ==
  ASSUME NEW b, Rec(b), b.product = "udxp", NEW c, NEW area, NEW len,
         NEW o \in UdxpReadDirectUsbMemory(b, c, area, len)
  PROVE  AreaOnce(b, c, area, len, o)
<1> DEFINE W(l) == UdxpCmd(l, c, area, len)
           F(l) == Then(W(l), Looking)
<1>1. o \in UdxpUsbReadBlock(b, c, area, len)
  BY DEF UdxpReadDirectUsbMemory, DxpReadMemory, UdxpReadMem
<1>2. CASE ~b.usb
  <2>1. o \in Refused(b) BY <1>1, <1>2 DEF UdxpUsbReadBlock
  <2>2. QED BY <2>1, RefusedOut DEF AreaOnce
<1>3. CASE b.usb
  <2>1. o \in Then(Looking(b), F) BY <1>1, <1>3 DEF UdxpUsbReadBlock, UdxpCmd
  <2> HIDE DEF F
  <2>2. PICK z \in Looking(b) : IF z.ok THEN o \in F(z.m) ELSE o = z BY <2>1 DEF Then
  <2>3. Went(b, z) /\ Rec(z.m) /\ z.ok \in BOOLEAN BY <2>2, LookingOut, LookedWent, WentRec
  <2>4. CASE z.ok = FALSE BY <2>2, <2>3, <2>4 DEF AreaOnce
  <2>5. CASE z.ok = TRUE
    <3>1. o \in Then(W(z.m), Looking) BY <2>2, <2>5 DEF F
    <3> HIDE DEF W
    <3>2. PICK y \in W(z.m) : IF y.ok THEN o \in Looking(y.m) ELSE o = y BY <3>1 DEF Then
    <3>3. AreaOnce(z.m, c, area, len, y) BY <2>3, <3>2, UdxpCmdOut DEF W
    <3>4. Went(z.m, y) /\ Rec(y.m) BY <3>3, WentRec DEF AreaOnce
    <3>5. y.ok => Looked(y.m, o) BY <3>2, <3>4, LookingOut
    <3>6. Went(z.m, o) /\ (o.ok => y.ok /\ o.m.words = y.m.words)
      BY <2>3, <3>2, <3>4, <3>5, LookedAfter
    <3>7. AreaOnce(z.m, c, area, len, o) BY <3>3, <3>6 DEF AreaOnce
    <3>8. QED BY <2>3, <2>5, <3>7, AreaThen
  <2>6. QED BY <2>3, <2>4, <2>5
<1>4. QED BY <1>2, <1>3

\* What is done at once succeeds.
LEMMA DoneIs == ASSUME NEW x, NEW o \in Done(x) PROVE o.ok = TRUE /\ o.m = x
  BY DEF Done

\* What is refused fails.
LEMMA RefusedIs == ASSUME NEW x, NEW o \in Refused(x) PROVE o.ok = FALSE /\ o.m = x
  BY DEF Refused

\* Without an error, a readout is the read.
LEMMA NoError ==
  ASSUME NEW b, Rec(b), b.product # "saturn", b.error = FALSE, NEW c,
         NEW what \in {"spectrum", "baseline"}, NEW o \in DxpDoReadout(b, c, what)
  PROVE  o \in IF what = "spectrum" THEN ReadSpectrum(b, c) ELSE ReadBaseline(b, c)
  BY DEF DxpDoReadout, DecodeError, Then, Done

\* The readout of a spectrum, for each product with a module's memory.
LEMMA ModuleSpectrumOut ==
  ASSUME NEW b, Rec(b), b.product \in Big, b.error = FALSE, NEW c \in Nat \ {0},
         NEW o \in DxpDoReadout(b, c, "spectrum")
  PROVE  AtOnce(b, c, "burst", Below(b, c) + Header(b), Length(b, c), o)
<1>1. o \in ReadSpectrum(b, c) BY NoError DEF Big
<1>2. CASE b.product = "xmap" BY <1>1, <1>2, SpectrumOut DEF ReadSpectrum, Header
<1>3. CASE b.product = "mercury" BY <1>1, <1>3, SpectrumOut DEF ReadSpectrum, Header
<1>4. CASE b.product = "stj" BY <1>1, <1>4, SpectrumOut DEF ReadSpectrum, Header
<1>5. QED BY <1>2, <1>3, <1>4 DEF Big

\* The readout of a baseline: only the Mercury's is of one instant.
LEMMA ModuleBaselineOut ==
  ASSUME NEW b, Rec(b), b.product \in {"xmap", "mercury"}, b.error = FALSE, NEW c,
         NEW o \in DxpDoReadout(b, c, "baseline")
  PROVE  /\ Piecewise(b, c, "baseline", 0, BaseLen, o)
         /\ b.product = "mercury" => AtOnce(b, c, "baseline", 0, BaseLen, o)
<1>1. o \in ReadBaseline(b, c) BY NoError
<1>2. CASE b.product = "xmap" BY <1>1, <1>2, XmapBaselineOut DEF ReadBaseline
<1>3. CASE b.product = "mercury" BY <1>1, <1>3, MercuryBaselineOut, OnceIsPiecewise DEF ReadBaseline
<1>4. QED BY <1>2, <1>3

\* The readout of the parameters is word by word but for the Saturn.
LEMMA ParamsReadout ==
  ASSUME NEW b, Rec(b), b.product \in {"xmap", "mercury", "stj", "udxp"}, b.error = FALSE, NEW c,
         NEW o \in DxpDoReadout(b, c, "params")
  PROVE  Piecewise(b, c, "parameters", 0, 2, o)
<1> DEFINE R == ReadDspparams(b, c)
           F(p) == Then(DecodeError(p), LAMBDA l :
                        IF l.error THEN Then(SaturnClearError(l), Refused) ELSE Done(l))
<1>1. o \in Then(R, F) BY DEF DxpDoReadout
<1> HIDE DEF R, F
<1>2. PICK z \in R : IF z.ok THEN o \in F(z.m) ELSE o = z BY <1>1 DEF Then
<1>3. Piecewise(b, c, "parameters", 0, 2, z) /\ z.ok \in BOOLEAN
  BY <1>2, ParamsOut, WentRec DEF R, Piecewise
<1>4. z.m.error = FALSE /\ z.m.product = b.product
  BY <1>3 DEF Piecewise, Went, Changed, Scratch, Fields
<1>5. z.ok => o.ok = z.ok /\ o.m = z.m
  <2> DEFINE G(l) == IF l.error THEN Then(SaturnClearError(l), Refused) ELSE Done(l)
  <2>1. SUFFICES ASSUME z.ok PROVE o.ok = z.ok /\ o.m = z.m OBVIOUS
  <2>2. o \in Then(DecodeError(z.m), G) BY <1>2, <2>1 DEF F
  <2>3. DecodeError(z.m) = Done(z.m) BY <1>4 DEF DecodeError
  <2> HIDE DEF G
  <2>4. o \in G(z.m) BY <2>2, <2>3 DEF Then, Done
  <2>5. o \in Done(z.m) BY <1>4, <2>4 DEF G
  <2>6. o.ok = TRUE /\ o.m = z.m BY <2>5, DoneIs
  <2>7. QED BY <1>3, <2>1, <2>6
<1>6. o.ok = z.ok /\ o.m = z.m BY <1>2, <1>5
<1>7. QED BY <1>3, <1>6 DEF Piecewise, Went

\* A Saturn looks for an error first.
LEMMA DecodedOut ==
  ASSUME NEW b, Rec(b), NEW z \in SaturnDecodeError(b)
  PROVE  Went(b, z) /\ Rec(z.m) /\ z.ok \in BOOLEAN
<1>1. z \in LooksTwice(b) BY DEF SaturnDecodeError, LooksTwice
<1>2. QED BY <1>1, LooksTwiceOut, LookedWent, WentRec

\* Clearing an error of the run and failing reports it.
LEMMA ClearedOut ==
  ASSUME NEW b, Rec(b), NEW o \in Then(SaturnClearError(b), Refused)
  PROVE  Reported(b, o)
<1> DEFINE e == [b EXCEPT !["error"] = FALSE]
           A == Access(b, e)
<1>1. o \in Then(A, Refused) BY DEF SaturnClearError
<1> HIDE DEF A
<1>2. PICK y \in A : IF y.ok THEN o \in Refused(y.m) ELSE o = y BY <1>1 DEF Then
<1>3. "error" \in Scratch \cup {"error"} /\ "error" \in Fields \ {"budget"} BY DEF Fields
<1>4. Changed(b, e, Scratch \cup {"error"}) /\ e["error"] = FALSE BY <1>3, PutField
<1> HIDE DEF e
<1>9. Cleared(b, e) BY <1>4 DEF Cleared
<1>5. \/ y.ok = TRUE /\ y.m = e
      \/ y.ok = FALSE /\ Changed(b, y.m, {"budget"}) BY <1>2, AccessOut DEF A
<1>6. CASE y.ok = TRUE /\ y.m = e
  <2>1. o.ok = FALSE /\ o.m = e
    <3>1. o \in Refused(y.m) BY <1>2, <1>6
    <3>2. o.ok = FALSE /\ o.m = y.m BY <3>1, RefusedIs
    <3>3. QED BY <1>6, <3>2
  <2>2. QED BY <1>4, <1>9, <2>1 DEF Reported
<1>7. CASE y.ok = FALSE /\ Changed(b, y.m, {"budget"})
  <2>1. {"budget"} \subseteq Scratch \cup {"error"} BY DEF Scratch
  <2>2. Changed(b, y.m, Scratch \cup {"error"}) BY <1>7, <2>1, ChangedMore
  <2>3. y.m.error = b.error BY <1>7 DEF Changed, Fields
  <2>4. QED BY <1>2, <1>7, <2>2, <2>3 DEF Reported, Cleared
<1>8. QED BY <1>5, <1>6, <1>7

\* An error is reported also when something was read before.
LEMMA ReportedThen ==
  ASSUME NEW b, Rec(b), NEW z, Went(b, z), NEW o, Reported(z.m, o)
  PROVE  Reported(b, o)
<1>1. Changed(b, z.m, Scratch \cup {"error"}) /\ z.m.error = b.error
  BY ChangedMore DEF Went, Changed, Fields, Scratch
<1>2. o.ok = FALSE /\ Changed(z.m, o.m, Scratch \cup {"error"}) /\ Cleared(z.m, o.m) BY DEF Reported
<1>3. Changed(b, o.m, Scratch \cup {"error"}) BY <1>1, <1>2, ChangedTwice
<1>4. Cleared(b, o.m) BY <1>1, <1>2 DEF Cleared
<1>5. QED BY <1>2, <1>3, <1>4 DEF Reported

\* The Saturn's readout of a baseline reports an error or is of one instant.
LEMMA SaturnBaselineReadout ==
  ASSUME NEW b, Rec(b), b.product = "saturn", NEW c, NEW o \in DxpDoReadout(b, c, "baseline")
  PROVE  Reported(b, o) \/ AtOnce(b, c, "baseline", 0, BaseLen, o)
<1> DEFINE R(l) == ReadBaseline(l, c)
           G(l) == IF l.error THEN Then(SaturnClearError(l), Refused) ELSE R(l)
           D == SaturnDecodeError(b)
<1>1. o \in Then(D, G) BY DEF DxpDoReadout, DecodeError, Done, Then
<1> HIDE DEF D, G
<1>2. PICK z \in D : IF z.ok THEN o \in G(z.m) ELSE o = z BY <1>1 DEF Then
<1>3. Went(b, z) /\ Rec(z.m) /\ z.ok \in BOOLEAN BY <1>2, DecodedOut DEF D
<1>4. z.m.product = "saturn" BY <1>3 DEF Went, Changed, Scratch, Fields
<1>5. CASE z.ok = FALSE BY <1>2, <1>3, <1>5, NotOnce
<1>6. CASE z.ok = TRUE /\ z.m.error
  <2>1. o \in Then(SaturnClearError(z.m), Refused) BY <1>2, <1>6 DEF G
  <2>2. QED BY <1>3, <2>1, ClearedOut, ReportedThen
<1>7. CASE z.ok = TRUE /\ ~z.m.error
  <2>1. o \in SaturnReadBaseline(z.m, c) BY <1>2, <1>4, <1>7 DEF G, ReadBaseline
  <2>2. AtOnce(z.m, c, "baseline", 0, BaseLen, o) BY <1>3, <2>1, SaturnBaselineOut
  <2>3. QED BY <1>3, <1>7, <2>2, AtOnceThen
<1>8. QED BY <1>3, <1>5, <1>6, <1>7

\* All parameters, then the error.
LEMMA SaturnParamsReadout ==
  ASSUME NEW b, Rec(b), b.product = "saturn", NEW c, NEW o \in DxpDoReadout(b, c, "params")
  PROVE  Reported(b, o) \/ AtOnce(b, c, "parameters", 0, 2, o)
<1> DEFINE S == SaturnReadDspparams(b, c)
           G(l) == IF l.error THEN Then(SaturnClearError(l), Refused) ELSE Done(l)
           F(p) == Then(DecodeError(p), G)
<1>1. o \in Then(S, F) BY DEF DxpDoReadout, ReadDspparams
<1> HIDE DEF S, F
<1>2. PICK y \in S : IF y.ok THEN o \in F(y.m) ELSE o = y BY <1>1 DEF Then
<1>3. AtOnce(b, c, "parameters", 0, 2, y) BY <1>2, SaturnParamsOut DEF S
<1>4. Went(b, y) /\ Rec(y.m) /\ y.ok \in BOOLEAN BY <1>3, WentRec DEF AtOnce
<1>5. y.m.product = "saturn" BY <1>4 DEF Went, Changed, Scratch, Fields
<1>6. CASE y.ok = FALSE BY <1>2, <1>3, <1>6
<1>7. CASE y.ok = TRUE
  <2>1. o \in Then(SaturnDecodeError(y.m), G) BY <1>2, <1>5, <1>7 DEF F, DecodeError
  <2> HIDE DEF G
  <2>2. PICK z \in SaturnDecodeError(y.m) : IF z.ok THEN o \in G(z.m) ELSE o = z BY <2>1 DEF Then
  <2>3. z \in LooksTwice(y.m) BY <2>2 DEF SaturnDecodeError, LooksTwice
  <2>4. Looked(y.m, z) /\ Went(y.m, z) /\ Rec(z.m) /\ z.ok \in BOOLEAN
    BY <1>4, <2>3, LooksTwiceOut, LookedWent, WentRec
  <2>5. Went(b, z) BY <1>4, <1>7, <2>4, WentThen
  <2>6. CASE z.ok = FALSE BY <2>2, <2>5, <2>6, NotOnce
  <2>7. CASE z.ok = TRUE /\ z.m.error
    <3>1. o \in Then(SaturnClearError(z.m), Refused) BY <2>2, <2>7 DEF G
    <3>2. QED BY <2>4, <2>5, <3>1, ClearedOut, ReportedThen
  <2>8. CASE z.ok = TRUE /\ ~z.m.error
    <3>1. o \in Done(z.m) BY <2>2, <2>8 DEF G
    <3>2. Went(z.m, o) /\ o.ok = TRUE /\ o.m = z.m BY <2>4, <3>1, DoneOut
    <3>3. Went(b, o) BY <2>5, <2>8, <3>2, WentThen
    <3>4. o.m.words = y.m.words BY <2>4, <3>2 DEF Looked, Changed, Fields
    <3>5. QED BY <1>3, <1>7, <3>3, <3>4 DEF AtOnce
  <2>9. QED BY <2>4, <2>6, <2>7, <2>8
<1>8. QED BY <1>4, <1>6, <1>7

-----------------------------------------------------------------------------
(* The boards there are, and their counters. *)

\* A counter is taken from its channel's word.
LEMMA EntryIs ==
  ASSUME NEW z, NEW j \in Nat, NEW c, NEW t, z.words[j + 1] = Counter(c, "counters", t), NEW item
  PROVE  Entry(z, j, item) = {Counter(c, item, t)}
  BY DEF Entry, Counter

\* The block of statistics of a module holds all channels' counters.
LEMMA ModuleTallied ==
  ASSUME NEW b, BoardType(b), b.product \in Big, NEW c, NEW z,
         AtOnce(b, c, "burst", 0, Header(b), z), z.ok
  PROVE  \E t : Tallied(z.m, b.n, t)
<1>1. PICK l : /\ Changed(b, l, Scratch)
               /\ z.m.words = [i \in 1..Header(b) |-> WordAt(l, c, "burst", 0 + i - 1)]
  BY DEF AtOnce
<1>2. b.n \in Nat /\ b.n <= Header(b) /\ Header(b) \in Nat
  BY SizesAssumption, LayoutAssumption DEF BoardType, Header
<1>3. l.n = b.n BY <1>1 DEF Changed, Scratch, Fields
<1>4. ASSUME NEW j \in 1..b.n, NEW item
      PROVE  Entry(z.m, j - 1, item) = {Counter(j, item, l.now)}
  <2>1. j \in 1..Header(b) /\ j - 1 \in Nat /\ (j - 1) + 1 = j /\ 0 + j - 1 = j - 1
        /\ j - 1 < b.n BY <1>2
  <2>2. z.m.words[(j - 1) + 1] = WordAt(l, c, "burst", j - 1) BY <1>1, <2>1
  <2>3. WordAt(l, c, "burst", j - 1) = Counter(j, "counters", l.now)
    BY <1>3, <2>1 DEF WordAt, MemoryWord, Cell, Counter
  <2>4. QED BY <2>1, <2>2, <2>3, EntryIs
<1>5. QED BY <1>4 DEF Tallied

\* The counters a number is made of are its sources.
LEMMA FromIs == ASSUME NEW b, NEW c, NEW n PROVE <<From(b, c, n)>> = Of(c, Sources(b, n))
  BY DEF From, Of

\* The counters of a number, and the instant they are of.
LEMMA MadeIs ==
  ASSUME NEW c, NEW S, NEW t
  PROVE  /\ \A w \in Made(c, S, t) : w.at = t
         /\ {Triple(w) : w \in Made(c, S, t)} = {<<s, c, 0>> : s \in S}
<1>1. \A s : Triple(Counter(c, s, t)) = <<s, c, 0>> /\ Counter(c, s, t).at = t
  BY DEF Triple, Counter
<1>2. \A w \in Made(c, S, t) : w.at = t BY <1>1 DEF Made
<1>3. {Triple(w) : w \in Made(c, S, t)} = {<<s, c, 0>> : s \in S} BY <1>1 DEF Made
<1>4. QED BY <1>2, <1>3

\* A number that is computed from the counters of one instant.
LEMMA OneCounter ==
  ASSUME NEW b, Rec(b), NEW z, Went(b, z), NEW c, NEW S, NEW X,
         z.ok => \E t : X = Made(c, S, t),
         NEW o, IF z.ok THEN o \in Answer(z.m, <<X>>) ELSE o = z
  PROVE  Sends(b, o, Of(c, S), "once")
<1> DEFINE g == <<X>>
           T == {<<s, c, 0>> : s \in S}
<1>1. ASSUME z.ok PROVE Is(g, Of(c, S)) /\ Timed(b, g, "once")
  <2>1. PICK t : X = Made(c, S, t) BY <1>1
  <2>2. (\A w \in X : w.at = t) /\ {Triple(w) : w \in X} = T BY <2>1, MadeIs
  <2>3. DOMAIN g = {1} /\ g[1] = X OBVIOUS
  <2>4. Since(g, t) BY <2>2, <2>3 DEF Since
  <2>5. Of(c, S) = [i \in {1} |-> T]
    <3>1. Of(c, S) = <<T>> BY DEF Of
    <3> HIDE DEF T
    <3>2. QED BY <3>1
  <2> HIDE DEF g, T
  <2>6. [i \in DOMAIN g |-> {Triple(w) : w \in g[i]}] = [i \in {1} |-> T] BY <2>2, <2>3
  <2>7. Is(g, Of(c, S)) BY <2>5, <2>6 DEF Is
  <2>8. QED BY <2>4, <2>7 DEF Timed
<1>2. IF z.ok THEN o \in Answer(z.m, g) ELSE o = z OBVIOUS
<1> HIDE DEF g
<1>3. QED BY <1>1, <1>2, AnswerSends

\* A number is made of the counters S of one channel.
LEMMA CountersSend ==
  ASSUME NEW b, Rec(b), NEW c \in 1..b.n, NEW n, NEW S, Sources(b, n) = S,
         NEW z, Went(b, z), z.ok => \E t : Tallied(z.m, b.n, t),
         NEW x, x = UNION {Entry(z.m, c - 1, s) : s \in S},
         NEW o, IF z.ok THEN o \in Answer(z.m, <<x>>) ELSE o = z
  PROVE  Sends(b, o, <<From(b, c, n)>>, "once")
<1>1. ASSUME z.ok PROVE \E t : x = Made(c, S, t)
  <2>1. PICK t : \A s : Entry(z.m, c - 1, s) = {Counter(c, s, t)} BY <1>1 DEF Tallied
  <2>2. x = Made(c, S, t) BY <2>1 DEF Made
  <2>3. QED BY <2>2
<1>2. Sends(b, o, Of(c, S), "once") BY <1>1, OneCounter
<1>3. QED BY <1>2, FromIs

\* Of no counter: what the STJ makes of its energy livetime.
LEMMA NoneSends ==
  ASSUME NEW b, Rec(b), NEW c \in 1..b.n, NEW n, Sources(b, n) = {},
         NEW z, Went(b, z), z.ok => \E t : Tallied(z.m, b.n, t),
         NEW o, IF z.ok THEN o \in Answer(z.m, <<{}>>) ELSE o = z
  PROVE  Sends(b, o, <<From(b, c, n)>>, "once")
<1> DEFINE x == {}
<1>1. x = UNION {Entry(z.m, c - 1, e) : e \in {}} OBVIOUS
<1>2. IF z.ok THEN o \in Answer(z.m, <<x>>) ELSE o = z OBVIOUS
<1> HIDE DEF x
<1>3. QED BY <1>1, <1>2, CountersSend

\* Of one.
LEMMA OneSends ==
  ASSUME NEW b, Rec(b), NEW c \in 1..b.n, NEW n, NEW s, Sources(b, n) = {s},
         NEW z, Went(b, z), z.ok => \E t : Tallied(z.m, b.n, t),
         NEW o, IF z.ok THEN o \in Answer(z.m, <<Entry(z.m, c - 1, s)>>) ELSE o = z
  PROVE  Sends(b, o, <<From(b, c, n)>>, "once")
<1> DEFINE x == Entry(z.m, c - 1, s)
<1>1. x = UNION {Entry(z.m, c - 1, e) : e \in {s}} OBVIOUS
<1>2. IF z.ok THEN o \in Answer(z.m, <<x>>) ELSE o = z OBVIOUS
<1> HIDE DEF x
<1>3. QED BY <1>1, <1>2, CountersSend

\* Of two.
LEMMA TwoSend ==
  ASSUME NEW b, Rec(b), NEW c \in 1..b.n, NEW n, NEW r, NEW s, Sources(b, n) = {r, s},
         NEW z, Went(b, z), z.ok => \E t : Tallied(z.m, b.n, t),
         NEW o, IF z.ok THEN o \in Answer(z.m, <<Entry(z.m, c - 1, r) \cup Entry(z.m, c - 1, s)>>) ELSE o = z
  PROVE  Sends(b, o, <<From(b, c, n)>>, "once")
<1> DEFINE x == Entry(z.m, c - 1, r) \cup Entry(z.m, c - 1, s)
<1>1. x = UNION {Entry(z.m, c - 1, e) : e \in {r, s}} OBVIOUS
<1>2. IF z.ok THEN o \in Answer(z.m, <<x>>) ELSE o = z OBVIOUS
<1> HIDE DEF x
<1>3. QED BY <1>1, <1>2, CountersSend

\* Of three.
LEMMA ThreeSend ==
  ASSUME NEW b, Rec(b), NEW c \in 1..b.n, NEW n, NEW q, NEW r, NEW s, Sources(b, n) = {q, r, s},
         NEW z, Went(b, z), z.ok => \E t : Tallied(z.m, b.n, t),
         NEW o, IF z.ok THEN o \in Answer(z.m, <<Entry(z.m, c - 1, q) \cup Entry(z.m, c - 1, r) \cup Entry(z.m, c - 1, s)>>) ELSE o = z
  PROVE  Sends(b, o, <<From(b, c, n)>>, "once")
<1> DEFINE x == Entry(z.m, c - 1, q) \cup Entry(z.m, c - 1, r) \cup Entry(z.m, c - 1, s)
<1>1. x = UNION {Entry(z.m, c - 1, e) : e \in {q, r, s}} OBVIOUS
<1>2. IF z.ok THEN o \in Answer(z.m, <<x>>) ELSE o = z OBVIOUS
<1> HIDE DEF x
<1>3. QED BY <1>1, <1>2, CountersSend

\* Of four.
LEMMA FourSend ==
  ASSUME NEW b, Rec(b), NEW c \in 1..b.n, NEW n, NEW p, NEW q, NEW r, NEW s, Sources(b, n) = {p, q, r, s},
         NEW z, Went(b, z), z.ok => \E t : Tallied(z.m, b.n, t),
         NEW o, IF z.ok THEN o \in Answer(z.m, <<Entry(z.m, c - 1, p) \cup Entry(z.m, c - 1, q) \cup Entry(z.m, c - 1, r) \cup Entry(z.m, c - 1, s)>>) ELSE o = z
  PROVE  Sends(b, o, <<From(b, c, n)>>, "once")
<1> DEFINE x == Entry(z.m, c - 1, p) \cup Entry(z.m, c - 1, q) \cup Entry(z.m, c - 1, r) \cup Entry(z.m, c - 1, s)
<1>1. x = UNION {Entry(z.m, c - 1, e) : e \in {p, q, r, s}} OBVIOUS
<1>2. IF z.ok THEN o \in Answer(z.m, <<x>>) ELSE o = z OBVIOUS
<1> HIDE DEF x
<1>3. QED BY <1>1, <1>2, CountersSend

\* Each number of a run is computed from its own counters by the xMAP.
LEMMA XmapCountersOut ==
  ASSUME NEW b, BoardType(b), b.product \in {"xmap", "mercury"}, NEW c \in 1..b.n, NEW n \in ModuleCounters,
         NEW o \in XmapGetRunData(b, c, n)
  PROVE  Sends(b, o, <<From(b, c, n)>>, "once")
<1> DEFINE B == XmapGetStatisticsBlock(b, c)
           E(z, s) == Entry(z.m, c - 1, s)
<1>1. \A z \in B : Went(b, z) /\ (z.ok => \E t : Tallied(z.m, b.n, t))
  <2>1. ASSUME NEW z \in B PROVE AtOnce(b, c, "burst", 0, Header(b), z)
    <3>1. z \in DxpReadMemory(b, c, "burst", 0, Header(b)) BY DEF XmapGetStatisticsBlock, Header
    <3>2. QED BY <3>1, BurstOut DEF Big, BoardType
  <2>2. b.product \in Big BY DEF Big
  <2> HIDE DEF B
  <2>3. \A z \in B : z.ok => \E t : Tallied(z.m, b.n, t) BY <2>1, <2>2, ModuleTallied
  <2>4. QED BY <2>1, <2>3 DEF AtOnce
<1>2. Rec(b) BY DEF BoardType
<1> HIDE DEF B
<1>3. CASE n \in {"realtime", "trigger_livetime", "energy_livetime", "triggers", "underflows", "overflows"}
  <2>1. PICK z \in B : IF z.ok THEN o \in Answer(z.m, <<E(z, n)>>) ELSE o = z
    BY <1>3 DEF B, XmapGetRunData, One, Then, XmapStatsOffset, XmapGetRealtime,
       XmapGetTLivetime, XmapGetELivetime, XmapGetTriggers, XmapGetUnderflows,
       XmapGetOverflows, XmapExtractRealtime, XmapExtractTLivetime, XmapExtractELivetime,
       XmapExtractTriggers, XmapExtractUnderflows, XmapExtractOverflows
  <2>2. Sources(b, n) = {n} BY <1>3 DEF Sources
  <2>3. QED BY <1>1, <1>2, <2>1, <2>2, OneSends
<1>4. CASE n = "mca_events"
  <2>1. PICK z \in B : IF z.ok THEN o \in Answer(z.m, <<E(z, "events")>>) ELSE o = z
    BY <1>4 DEF B, XmapGetRunData, One, Then, XmapStatsOffset, XmapGetMCAEvents,
       XmapExtractEvents
  <2>2. Sources(b, n) = {"events"} BY <1>4 DEF Sources
  <2>3. QED BY <1>1, <1>2, <2>1, <2>2, OneSends
<1>5. CASE n = "total_output_events"
  <2>1. PICK z \in B : IF z.ok THEN o \in Answer(z.m, <<E(z, "events") \cup E(z, "underflows") \cup E(z, "overflows")>>) ELSE o = z
    BY <1>5 DEF B, XmapGetRunData, One, Then, XmapStatsOffset, XmapGetTotalEvents,
       XmapExtractEvents, XmapExtractUnderflows, XmapExtractOverflows
  <2>2. Sources(b, n) = {"events", "underflows", "overflows"} BY <1>5 DEF Sources
  <2>3. QED BY <1>1, <1>2, <2>1, <2>2, ThreeSend
<1>6. CASE n = "input_count_rate"
  <2>1. PICK z \in B : IF z.ok THEN o \in Answer(z.m, <<E(z, "triggers") \cup E(z, "trigger_livetime")>>) ELSE o = z
    BY <1>6 DEF B, XmapGetRunData, One, Then, XmapStatsOffset, XmapGetICR,
       XmapExtractTriggers, XmapExtractTLivetime
  <2>2. Sources(b, n) = {"triggers", "trigger_livetime"} BY <1>6 DEF Sources
  <2>3. QED BY <1>1, <1>2, <2>1, <2>2, TwoSend
<1>7. CASE n = "output_count_rate"
  <2>1. PICK z \in B : IF z.ok THEN o \in Answer(z.m, <<E(z, "events") \cup E(z, "underflows")
                                                         \cup E(z, "overflows") \cup E(z, "realtime")>>) ELSE o = z
    BY <1>7 DEF B, XmapGetRunData, One, Then, XmapStatsOffset, XmapGetOCR,
       XmapExtractEvents, XmapExtractUnderflows, XmapExtractOverflows, XmapExtractRealtime
  <2>2. Sources(b, n) = {"events", "underflows", "overflows", "realtime"} BY <1>7 DEF Sources
  <2>3. QED BY <1>1, <1>2, <2>1, <2>2, FourSend
<1>8. QED BY <1>3, <1>4, <1>5, <1>6, <1>7 DEF ModuleCounters, Counters

\* The same of the STJ.
LEMMA StjCountersOut ==
  ASSUME NEW b, BoardType(b), b.product = "stj", NEW c \in 1..b.n, NEW n \in ModuleCounters,
         NEW o \in StjGetRunData(b, c, n)
  PROVE  Sends(b, o, <<From(b, c, n)>>, "once")
<1> DEFINE B == StjGetStatisticsBlock(b, c)
           E(z, s) == Entry(z.m, c - 1, s)
<1>1. \A z \in B : Went(b, z) /\ (z.ok => \E t : Tallied(z.m, b.n, t))
  <2>1. ASSUME NEW z \in B PROVE AtOnce(b, c, "burst", 0, Header(b), z)
    <3>1. z \in DxpReadMemory(b, c, "burst", 0, Header(b)) BY DEF StjGetStatisticsBlock, Header
    <3>2. QED BY <3>1, BurstOut DEF Big, BoardType
  <2>2. b.product \in Big BY DEF Big
  <2> HIDE DEF B
  <2>3. \A z \in B : z.ok => \E t : Tallied(z.m, b.n, t) BY <2>1, <2>2, ModuleTallied
  <2>4. QED BY <2>1, <2>3 DEF AtOnce
<1>2. Rec(b) BY DEF BoardType
<1> HIDE DEF B
<1>3. CASE n \in {"realtime", "trigger_livetime", "triggers", "underflows", "overflows"}
  <2>1. PICK z \in B : IF z.ok THEN o \in Answer(z.m, <<E(z, n)>>) ELSE o = z
    BY <1>3 DEF B, StjGetRunData, One, Then, StjStatsOffset, StjGetRealtime,
       StjGetTLivetime, StjGetTriggers, StjGetUnderflows, StjGetOverflows,
       StjExtractRealtime, StjExtractTLivetime, StjExtractTriggers, StjExtractUnderflows,
       StjExtractOverflows
  <2>2. Sources(b, n) = {n} BY <1>3 DEF Sources
  <2>3. QED BY <1>1, <1>2, <2>1, <2>2, OneSends
<1>4. CASE n = "mca_events"
  <2>1. PICK z \in B : IF z.ok THEN o \in Answer(z.m, <<E(z, "events")>>) ELSE o = z
    BY <1>4 DEF B, StjGetRunData, One, Then, StjStatsOffset, StjGetMCAEvents,
       StjExtractEvents
  <2>2. Sources(b, n) = {"events"} BY <1>4 DEF Sources
  <2>3. QED BY <1>1, <1>2, <2>1, <2>2, OneSends
<1>5. CASE n = "energy_livetime"
  <2>1. PICK z \in B : IF z.ok THEN o \in Answer(z.m, <<{}>>) ELSE o = z
    BY <1>5 DEF B, StjGetRunData, One, Then, StjStatsOffset, StjGetELivetime,
       StjExtractELivetime
  <2>2. Sources(b, n) = {} BY <1>5 DEF Sources
  <2>3. QED BY <1>1, <1>2, <2>1, <2>2, NoneSends
<1>6. CASE n = "total_output_events"
  <2>1. PICK z \in B : IF z.ok THEN o \in Answer(z.m, <<E(z, "events") \cup E(z, "underflows") \cup E(z, "overflows")>>) ELSE o = z
    BY <1>6 DEF B, StjGetRunData, One, Then, StjStatsOffset, StjGetTotalEvents,
       StjExtractEvents, StjExtractUnderflows, StjExtractOverflows
  <2>2. Sources(b, n) = {"events", "underflows", "overflows"} BY <1>6 DEF Sources
  <2>3. QED BY <1>1, <1>2, <2>1, <2>2, ThreeSend
<1>7. CASE n = "input_count_rate"
  <2>1. PICK z \in B : IF z.ok THEN o \in Answer(z.m, <<E(z, "triggers") \cup E(z, "trigger_livetime")>>) ELSE o = z
    BY <1>7 DEF B, StjGetRunData, One, Then, StjStatsOffset, StjGetICR, StjExtractTriggers,
       StjExtractTLivetime
  <2>2. Sources(b, n) = {"triggers", "trigger_livetime"} BY <1>7 DEF Sources
  <2>3. QED BY <1>1, <1>2, <2>1, <2>2, TwoSend
<1>8. CASE n = "output_count_rate"
  <2>1. PICK z \in B : IF z.ok THEN o \in Answer(z.m, <<E(z, "events") \cup E(z, "underflows")
                                                         \cup E(z, "overflows") \cup E(z, "realtime")>>) ELSE o = z
    BY <1>8 DEF B, StjGetRunData, One, Then, StjStatsOffset, StjGetOCR, StjExtractEvents,
       StjExtractUnderflows, StjExtractOverflows, StjExtractRealtime
  <2>2. Sources(b, n) = {"events", "underflows", "overflows", "realtime"} BY <1>8 DEF Sources
  <2>3. QED BY <1>1, <1>2, <2>1, <2>2, FourSend
<1>9. QED BY <1>3, <1>4, <1>5, <1>6, <1>7, <1>8 DEF ModuleCounters, Counters

-----------------------------------------------------------------------------
(* The statistics of all channels. *)

\* The numbers of a row are made of their own counters.
LEMMA RowIs ==
  ASSUME NEW b, b.product # "udxp", NEW j, NEW t, NEW wd \in {7, 9}, NEW rt, NEW tlt, NEW elt,
         NEW trigs, NEW evts, NEW unders, NEW overs,
         rt = {Counter(j, "realtime", t)}, tlt = {Counter(j, "trigger_livetime", t)},
         elt = Made(j, Sources(b, "energy_livetime"), t), trigs = {Counter(j, "triggers", t)},
         evts = {Counter(j, "events", t)}, unders = {Counter(j, "underflows", t)},
         overs = {Counter(j, "overflows", t)}
  PROVE  MadeRow(b, j, t, wd, Row(wd, rt, tlt, elt, trigs, evts, unders, overs))
<1> DEFINE row == Row(wd, rt, tlt, elt, trigs, evts, unders, overs)
           M(S) == Made(j, S, t)
           X(i) == Sources(b, NineNames[i])
<1>1. /\ row[1] = rt /\ row[2] = tlt /\ row[3] = elt /\ row[4] = trigs /\ row[5] = evts
      /\ row[6] = trigs \cup tlt /\ row[7] = evts \cup overs \cup unders \cup rt
      /\ wd = 9 => row[8] = unders /\ row[9] = overs BY DEF Row, Seven, Nine
<1>2. /\ X(1) = {"realtime"} /\ X(2) = {"trigger_livetime"} /\ X(4) = {"triggers"}
      /\ X(3) = Sources(b, "energy_livetime") /\ X(5) = {"events"}
      /\ X(6) = {"triggers", "trigger_livetime"}
      /\ X(7) = {"events", "underflows", "overflows", "realtime"}
      /\ X(8) = {"underflows"} /\ X(9) = {"overflows"} BY DEF Sources, NineNames
<1>3. /\ M({"realtime"}) = rt /\ M({"trigger_livetime"}) = tlt /\ M({"triggers"}) = trigs
      /\ M({"events"}) = evts /\ M({"underflows"}) = unders /\ M({"overflows"}) = overs
      /\ M({"triggers", "trigger_livetime"}) = trigs \cup tlt
      /\ M({"events", "underflows", "overflows", "realtime"}) = evts \cup overs \cup unders \cup rt
  BY DEF Made
<1> HIDE DEF row, M, X
<1>4. \A i \in 1..wd : i \in 1..7 \/ (wd = 9 /\ i \in {8, 9})
  <2>1. CASE wd = 7 BY <2>1
  <2>2. CASE wd = 9 BY <2>2
  <2>3. QED BY <2>1, <2>2
<1>5. elt = M(X(3)) BY <1>2 DEF M
<1>6. /\ row[1] = M(X(1)) /\ row[2] = M(X(2)) /\ row[3] = M(X(3)) /\ row[4] = M(X(4))
      /\ row[5] = M(X(5)) /\ row[6] = M(X(6)) /\ row[7] = M(X(7)) BY <1>1, <1>2, <1>3, <1>5
<1>7. wd = 9 => row[8] = M(X(8)) /\ row[9] = M(X(9)) BY <1>1, <1>2, <1>3
<1>8. \A i \in 1..wd : row[i] = M(X(i)) BY <1>4, <1>6, <1>7
<1>9. QED BY <1>8 DEF row, M, X, MadeRow

\* Rows of all channels, all of one instant.
LEMMA RowsSend ==
  ASSUME NEW b, Rec(b), b.n \in Nat, NEW z, Went(b, z), NEW R, NEW wd \in {7, 9},
         z.ok => \E t : \A j \in 1..b.n, i \in 1..wd :
                           R[j][i] = Made(j, Sources(b, NineNames[i]), t),
         NEW o, IF z.ok THEN o \in Answer(z.m, Rows(R, b.n, wd)) ELSE o = z
  PROVE  Sends(b, o, RowsOf(b, wd), "once")
<1> DEFINE N == 1..(b.n * wd)
           x == Rows(R, b.n, wd)
           P == RowsOf(b, wd)
           Q(i) == 1 + ((i - 1) \div wd)
           S(i) == Sources(b, NineNames[1 + ((i - 1) % wd)])
<1>1. \A i \in N : Q(i) \in 1..b.n /\ 1 + ((i - 1) % wd) \in 1..wd
  <2>1. CASE wd = 7 BY <2>1
  <2>2. CASE wd = 9 BY <2>2
  <2>3. QED BY <2>1, <2>2
<1>2. ASSUME z.ok PROVE Is(x, P) /\ Timed(b, x, "once")
  <2>1. PICK t : \A j \in 1..b.n, i \in 1..wd : R[j][i] = Made(j, Sources(b, NineNames[i]), t)
    BY <1>2
  <2>2. \A i \in N : x[i] = Made(Q(i), S(i), t) BY <1>1, <2>1 DEF Rows
  <2>3. \A i \in N : P[i] = {<<s, Q(i), 0>> : s \in S(i)} BY DEF From, RowsOf
  <2>4. DOMAIN x = N /\ P = [i \in N |-> P[i]] BY DEF Rows, RowsOf
  <2> HIDE DEF x, P, N, Q, S
  <2>5. \A i \in N : {Triple(w) : w \in x[i]} = P[i] /\ \A w \in x[i] : w.at = t
    BY <2>2, <2>3, MadeIs
  <2>6. Since(x, t) BY <2>4, <2>5 DEF Since
  <2>7. [i \in DOMAIN x |-> {Triple(w) : w \in x[i]}] = P BY <2>4, <2>5
  <2>8. QED BY <2>6, <2>7 DEF Is, Timed
<1>3. IF z.ok THEN o \in Answer(z.m, x) ELSE o = z OBVIOUS
<1> HIDE DEF x, P
<1>4. Sends(b, o, P, "once") BY <1>2, <1>3, AnswerSends
<1>5. QED BY <1>4 DEF P

\* Its numbers are made of that channel's counters.
LEMMA ModuleRowIs ==
  ASSUME NEW b, b.product # "udxp", NEW z, NEW j, NEW t, NEW wd \in {7, 9},
         \A s : Entry(z.m, j - 1, s) = {Counter(j, s, t)}
  PROVE  MadeRow(b, j, t, wd, ModuleRow(b, z, j, wd))
<1> DEFINE E(s) == Entry(z.m, j - 1, s)
           rt == E("realtime")  tlt == E("trigger_livetime")  trigs == E("triggers")
           elt == IF b.product = "stj" THEN {} ELSE E("energy_livetime")
           evts == E("events")  unders == E("underflows")  overs == E("overflows")
<1>1. Sources(b, "energy_livetime") = IF b.product = "stj" THEN {} ELSE {"energy_livetime"}
  BY DEF Sources
<1>2. elt = Made(j, Sources(b, "energy_livetime"), t) BY <1>1 DEF Made
<1>3. ModuleRow(b, z, j, wd) = Row(wd, rt, tlt, elt, trigs, evts, unders, overs) BY DEF ModuleRow
<1>4. /\ rt = {Counter(j, "realtime", t)} /\ tlt = {Counter(j, "trigger_livetime", t)}
      /\ trigs = {Counter(j, "triggers", t)} /\ evts = {Counter(j, "events", t)}
      /\ unders = {Counter(j, "underflows", t)} /\ overs = {Counter(j, "overflows", t)} OBVIOUS
<1> HIDE DEF rt, tlt, elt, trigs, evts, unders, overs
<1>5. MadeRow(b, j, t, wd, Row(wd, rt, tlt, elt, trigs, evts, unders, overs)) BY <1>2, <1>4, RowIs
<1>6. QED BY <1>3, <1>5

\* The statistics of a module are of one instant.
LEMMA StatisticsSend ==
  ASSUME NEW b, BoardType(b), b.product \in Big, NEW c, NEW wd \in {7, 9},
         NEW z \in DxpReadMemory(b, c, "burst", 0, Header(b)), NEW o,
         IF z.ok THEN o \in Answer(z.m, [i \in 1..(b.n * wd) |->
                               ModuleRow(b, z, 1 + ((i - 1) \div wd), wd)[1 + ((i - 1) % wd)]])
         ELSE o = z
  PROVE  Sends(b, o, RowsOf(b, wd), "once")
<1> DEFINE R == [j \in 1..b.n |-> ModuleRow(b, z, j, wd)]
<1>1. Rec(b) /\ b.n \in Nat /\ b.product # "udxp" BY SizesAssumption DEF BoardType, Big
<1>2. AtOnce(b, c, "burst", 0, Header(b), z) BY <1>1, BurstOut
<1>3. ASSUME z.ok
      PROVE  \E t : \A j \in 1..b.n, i \in 1..wd : R[j][i] = Made(j, Sources(b, NineNames[i]), t)
  <2>1. PICK t : Tallied(z.m, b.n, t) BY <1>1, <1>2, <1>3, ModuleTallied
  <2>2. ASSUME NEW j \in 1..b.n
        PROVE  \A i \in 1..wd : R[j][i] = Made(j, Sources(b, NineNames[i]), t)
    <3>1. R[j] = ModuleRow(b, z, j, wd) OBVIOUS
    <3>2. \A s : Entry(z.m, j - 1, s) = {Counter(j, s, t)} BY <2>1 DEF Tallied
    <3> HIDE DEF R
    <3>3. MadeRow(b, j, t, wd, R[j]) BY <1>1, <3>1, <3>2, ModuleRowIs
    <3>4. QED BY <3>3 DEF MadeRow
  <2> HIDE DEF R
  <2>3. QED BY <2>2
<1>4. [i \in 1..(b.n * wd) |-> ModuleRow(b, z, 1 + ((i - 1) \div wd), wd)[1 + ((i - 1) % wd)]]
        = Rows(R, b.n, wd)
  <2>1. \A i \in 1..(b.n * wd) : 1 + ((i - 1) \div wd) \in 1..b.n
    <3>1. CASE wd = 7 BY <1>1, <3>1
    <3>2. CASE wd = 9 BY <1>1, <3>2
    <3>3. QED BY <3>1, <3>2
  <2>2. \A i \in 1..(b.n * wd) : R[1 + ((i - 1) \div wd)] = ModuleRow(b, z, 1 + ((i - 1) \div wd), wd)
    BY <2>1
  <2> HIDE DEF R
  <2>3. QED BY <2>2 DEF Rows
<1>5. Went(b, z) BY <1>2 DEF AtOnce
<1> HIDE DEF R
<1>6. QED BY <1>1, <1>3, <1>4, <1>5, RowsSend

\* The statistics of an xMAP, and of a Mercury, which computes them alike.
LEMMA XmapStatisticsOut ==
  ASSUME NEW b, BoardType(b), b.product \in {"xmap", "mercury"}, NEW c, NEW wd, NEW o,
         \/ wd = 7 /\ o \in XmapGetModuleStatistics(b, c)
         \/ wd = 9 /\ o \in XmapGetModuleStatistics2(b, c)
  PROVE  Sends(b, o, RowsOf(b, wd), "once")
<1>1. b.product \in Big /\ wd \in {7, 9} /\ 9 # 7 BY DEF Big
<1>2. CASE wd = 7 /\ o \in XmapGetModuleStatistics(b, c)
  BY <1>1, <1>2, StatisticsSend DEF XmapGetModuleStatistics, XmapGetStatisticsBlock, Then, OfChannels,
     ModuleRow, Row, Header, XmapStatsOffset, XmapExtractRealtime, XmapExtractTLivetime, XmapExtractELivetime, XmapExtractTriggers,
     XmapExtractEvents, XmapExtractUnderflows, XmapExtractOverflows
<1>3. CASE wd = 9 /\ o \in XmapGetModuleStatistics2(b, c)
  BY <1>1, <1>3, StatisticsSend DEF XmapGetModuleStatistics2, XmapGetStatisticsBlock, Then, OfChannels,
     ModuleRow, Row, Header, XmapStatsOffset, XmapExtractRealtime, XmapExtractTLivetime, XmapExtractELivetime, XmapExtractTriggers,
     XmapExtractEvents, XmapExtractUnderflows, XmapExtractOverflows
<1>4. QED BY <1>2, <1>3

\* Those of an STJ.
LEMMA StjStatisticsOut ==
  ASSUME NEW b, BoardType(b), b.product = "stj", NEW c, NEW wd, NEW o,
         \/ wd = 7 /\ o \in StjGetModuleStatistics(b, c)
         \/ wd = 9 /\ o \in StjGetModuleStatistics2(b, c)
  PROVE  Sends(b, o, RowsOf(b, wd), "once")
<1>1. b.product \in Big /\ wd \in {7, 9} /\ 9 # 7 BY DEF Big
<1>2. CASE wd = 7 /\ o \in StjGetModuleStatistics(b, c)
  BY <1>1, <1>2, StatisticsSend DEF StjGetModuleStatistics, StjGetStatisticsBlock, Then, OfChannels,
     ModuleRow, Row, Header, StjStatsOffset, StjExtractRealtime, StjExtractTLivetime, StjExtractELivetime, StjExtractTriggers,
     StjExtractEvents, StjExtractUnderflows, StjExtractOverflows
<1>3. CASE wd = 9 /\ o \in StjGetModuleStatistics2(b, c)
  BY <1>1, <1>3, StatisticsSend DEF StjGetModuleStatistics2, StjGetStatisticsBlock, Then, OfChannels,
     ModuleRow, Row, Header, StjStatsOffset, StjExtractRealtime, StjExtractTLivetime, StjExtractELivetime, StjExtractTriggers,
     StjExtractEvents, StjExtractUnderflows, StjExtractOverflows
<1>4. QED BY <1>2, <1>3

-----------------------------------------------------------------------------
(* Lengths, flags, and what is as long as they are. *)

\* A number is answered as it is.
LEMMA NumberOut ==
  ASSUME NEW b, Rec(b), NEW x, NEW o \in Number(b, x)
  PROVE  Numbered(b, o, x)
<1> DEFINE g == <<{Cell(b, 0, "number", x)}>>
<1>1. o \in Answer(b, g) BY DEF Number
<1>2. g = <<{Figure(x, b.now)}>> BY DEF Cell, Figure
<1> HIDE DEF g
<1>3. Went(b, o) /\ o.m.got = g BY <1>1, AnswerOut
<1>4. QED BY <1>2, <1>3 DEF Numbered

\* A number is answered also when something was read before.
LEMMA NumberedThen ==
  ASSUME NEW b, Rec(b), NEW z, Went(b, z), NEW x, NEW o,
         IF z.ok THEN Numbered(z.m, o, x) ELSE o = z
  PROVE  Numbered(b, o, x)
<1>1. CASE z.ok BY <1>1, WentThen DEF Numbered
<1>2. CASE ~z.ok BY <1>2 DEF Numbered
<1>3. QED BY <1>1, <1>2

\* A number is of one instant.
LEMMA NumberedOnce ==
  ASSUME NEW b, NEW o, NEW x, Numbered(b, o, x), o.ok
  PROVE  \E t : Since(o.m.got, t)
<1>1. PICK t : o.m.got = <<{Figure(x, t)}>> BY DEF Numbered
<1>2. DOMAIN o.m.got = {1} /\ o.m.got[1] = {Figure(x, t)} BY <1>1
<1>3. Figure(x, t).at = t BY DEF Figure
<1>4. QED BY <1>2, <1>3 DEF Since

\* The lengths of a spectrum: of the same board, however late it is asked.
LEMMA LengthLater ==
  ASSUME NEW b, NEW l, Changed(b, l, Scratch), NEW c
  PROVE  Length(l, c) = Length(b, c)
  BY DEF Changed, Scratch, Fields, Length

\* The length of a spectrum.
LEMMA NspecOut ==
  ASSUME NEW b, Rec(b), b.product \in Big \cup {"saturn"}, NEW c, NEW o \in DxpNspec(b, c)
  PROVE  Numbered(b, o, Length(b, c))
<1>1. GetSpectrumLength(b) = LooksTwice(b)
  BY DEF Big, GetSpectrumLength, LooksTwice, XmapGetSpectrumLength, MercuryGetSpectrumLength,
         StjGetSpectrumLength, SaturnGetSpectrumLength, XmapReadDspsymbol, MercuryReadDspsymbol,
         StjReadDspsymbol, SaturnReadDspsymbol, Then
<1> DEFINE B == LooksTwice(b)
<1>2. PICK z \in B : IF z.ok THEN o \in Number(z.m, Length(z.m, c)) ELSE o = z
  BY <1>1 DEF DxpNspec, Then
<1>3. Looked(b, z) BY <1>2, LooksTwiceOut
<1> HIDE DEF B
<1>4. Went(b, z) /\ Rec(z.m) /\ Length(z.m, c) = Length(b, c) BY <1>3, LookedWent, LengthLater
<1>5. z.ok => Numbered(z.m, o, Length(b, c)) BY <1>2, <1>4, NumberOut
<1>6. QED BY <1>2, <1>4, <1>5, NumberedThen

\* A number is answered after parameters were looked up.
LEMMA LookedNumber ==
  ASSUME NEW b, Rec(b), NEW x, NEW z, Looked(b, z), NEW o,
         IF z.ok THEN o \in Number(z.m, x) ELSE o = z
  PROVE  Numbered(b, o, x)
<1>1. Went(b, z) /\ Rec(z.m) BY LookedWent
<1>2. z.ok => Numbered(z.m, o, x) BY <1>1, NumberOut
<1>3. QED BY <1>1, <1>2, NumberedThen

\* The length of a baseline.
LEMMA NbaseOut ==
  ASSUME NEW b, Rec(b), b.product \in {"xmap", "mercury", "saturn"}, NEW o \in DxpNbase(b)
  PROVE  Numbered(b, o, BaseLen)
<1>1. GetBaselineLength(b) = Looking(b)
  BY DEF GetBaselineLength, XmapDxpGetBaselineLength, MercuryDxpGetBaselineLength,
         SaturnDxpGetBaselineLength, XmapReadDspsymbol, MercuryReadDspsymbol, SaturnReadDspsymbol
<1>2. PICK z \in Looking(b) : IF z.ok THEN o \in Number(z.m, BaseLen) ELSE o = z
  BY <1>1 DEF DxpNbase, Then
<1>3. QED BY <1>2, LookingOut, LookedNumber

\* Whether a run is active.
LEMMA IsrunningOut ==
  ASSUME NEW b, Rec(b), NEW o \in DxpIsrunning(b)
  PROVE  Numbered(b, o, IF b.running THEN 1 ELSE 0)
<1> DEFINE x(l) == IF l.running THEN 1 ELSE 0
<1>1. PICK z \in Looking(b) : IF z.ok THEN o \in Number(z.m, x(z.m)) ELSE o = z
  BY DEF DxpIsrunning, Then
<1>2. Looked(b, z) BY LookingOut
<1>3. z.m.running = b.running BY <1>2 DEF Looked, Changed, Fields
<1>4. x(z.m) = x(b) BY <1>3
<1> HIDE DEF x
<1>5. Numbered(b, o, x(b)) BY <1>1, <1>2, <1>4, LookedNumber
<1>6. QED BY <1>5 DEF x

-----------------------------------------------------------------------------
(* The spectra, the SCAs, the baselines and the parameters of a module. *)

\* What the type of an xMAP, a Mercury or an STJ says.
LEMMA BigType ==
  ASSUME NEW b, BoardType(b), b.product \in Big
  PROVE  /\ Rec(b) /\ b.error = FALSE /\ b.n = ModuleChannels /\ b.n \in Nat \ {0}
         /\ b.product # "udxp" /\ b.product # "saturn" BY SizesAssumption DEF BoardType, Big

\* The spectrum of a channel is of one instant.
LEMMA SpectrumSends ==
  ASSUME NEW b, BoardType(b), b.product \in Big, NEW c \in 1..b.n,
         NEW o \in Delivered(DxpDoReadout(b, c, "spectrum"))
  PROVE  Sends(b, o, Bins(b, c), "once")
<1> DEFINE outs == DxpDoReadout(b, c, "spectrum")
           a == Below(b, c) + Header(b)
           len == Length(b, c)
<1>1. Rec(b) /\ b.error = FALSE /\ c \in Nat \ {0}
  <2>1. b.n \in Nat BY BigType
  <2>2. c \in Nat \ {0} BY <2>1
  <2>3. QED BY <2>2, BigType
<1>2. \A z \in outs : AtOnce(b, c, "burst", a, len, z) BY <1>1, ModuleSpectrumOut
<1>3. "burst" \in Memories BY DEF Memories
<1>4. Bins(b, c) = Words(b, c, "burst", a, len) BY DEF Bins
<1>5. o \in Delivered(outs) OBVIOUS
<1> HIDE DEF outs, a, len
<1>6. QED BY <1>1, <1>2, <1>3, <1>4, <1>5, DeliveredOnce

\* The spectra of a module are one block, and of one instant.
LEMMA ModuleSpectraSends ==
  ASSUME NEW b, BoardType(b), b.product \in Big, NEW c \in 1..b.n, NEW a, a = Header(b),
         NEW o \in Delivered(DxpReadMemory(b, c, "burst", a, b.val[c]["number_mca_channels"] * b.n))
  PROVE  Sends(b, o, AllBins(b, c), "once")
<1> DEFINE len == b.val[c]["number_mca_channels"] * b.n
           outs == DxpReadMemory(b, c, "burst", a, len)
<1>1. Rec(b) BY BigType
<1>2. \A z \in outs : AtOnce(b, c, "burst", a, len, z) BY <1>1, BurstOut
<1>3. "burst" \in Memories BY DEF Memories
<1>4. AllBins(b, c) = Words(b, c, "burst", a, len) BY DEF AllBins
<1>5. o \in Delivered(outs) OBVIOUS
<1> HIDE DEF outs, len
<1>6. QED BY <1>1, <1>2, <1>3, <1>4, <1>5, DeliveredOnce

\* The SCAs of a channel are of one instant.
LEMMA ScasSend ==
  ASSUME NEW b, BoardType(b), b.product \in Big, NEW c \in 1..b.n,
         NEW o \in Pairs(Then(Parameter(b), LAMBDA l :
                              DxpReadMemory(l, c, "burst", ScaMemBase + ((c - 1) * ScaOffset),
                                            2 * b.val[c]["number_of_scas"])))
  PROVE  Sends(b, o, Scas(b, c), "once")
<1> DEFINE n == b.val[c]["number_of_scas"]
           a == ScaAt(c)
           F(l) == DxpReadMemory(l, c, "burst", a, 2 * n)
           outs == Then(Parameter(b), F)
<1>1. Rec(b) BY BigType
<1>2. o \in Pairs(outs) BY DEF ScaAt
<1>3. n \in Nat BY DEF BoardType, ValType
<1> HIDE DEF n, a
<1>4. ASSUME NEW z \in outs PROVE AtOnce(b, c, "burst", a, 2 * n, z)
  <2>1. Parameter(b) = Looking(b)
    BY DEF Big, Parameter, ReadDspsymbol, XmapReadDspsymbol, MercuryReadDspsymbol, StjReadDspsymbol
  <2>2. PICK y \in Looking(b) : IF y.ok THEN z \in F(y.m) ELSE z = y BY <2>1 DEF Then
  <2>3. Went(b, y) /\ Rec(y.m) /\ Changed(b, y.m, Scratch) BY <1>1, LookingOut, LookedWent
  <2>4. y.m.product \in Big BY <2>3 DEF Changed, Scratch, Fields
  <2>5. y.ok => AtOnce(y.m, c, "burst", a, 2 * n, z) BY <2>2, <2>3, <2>4, BurstOut
  <2>6. QED BY <1>1, <2>2, <2>3, <2>5, AtOnceThen
<1>5. "burst" \in Memories BY DEF Memories
<1>6. Scas(b, c) = PairsOf(b, c, "burst", a, n) BY DEF Scas, n, a
<1> HIDE DEF outs
<1>7. QED BY <1>1, <1>2, <1>3, <1>4, <1>5, <1>6, PairsOnce

\* The baseline of a Mercury is of one instant, that of an xMAP of several.
LEMMA BaselineSends ==
  ASSUME NEW b, BoardType(b), b.product \in {"xmap", "mercury"}, NEW c,
         NEW o \in Delivered(DxpDoReadout(b, c, "baseline"))
  PROVE  Sends(b, o, Histograms(b, c), IF b.product = "mercury" THEN "once" ELSE "any")
<1> DEFINE outs == DxpDoReadout(b, c, "baseline")
           a == 0
<1>1. Rec(b) /\ b.error = FALSE BY BigType DEF Big
<1>2. \A z \in outs : /\ Piecewise(b, c, "baseline", a, BaseLen, z)
                      /\ b.product = "mercury" => AtOnce(b, c, "baseline", a, BaseLen, z)
  BY <1>1, ModuleBaselineOut
<1>3. "baseline" \in Memories BY DEF Memories
<1>4. Histograms(b, c) = Words(b, c, "baseline", a, BaseLen) BY DEF Histograms
<1>5. o \in Delivered(outs) OBVIOUS
<1> HIDE DEF outs, a
<1>6. CASE b.product = "mercury" BY <1>1, <1>2, <1>3, <1>4, <1>5, <1>6, DeliveredOnce
<1>7. CASE b.product = "xmap" BY <1>1, <1>2, <1>3, <1>4, <1>5, <1>7, DeliveredPiecewise
<1>8. QED BY <1>6, <1>7

\* The parameters are the channel's, each of its own instant.
LEMMA ParamsSend ==
  ASSUME NEW b, Rec(b), b.error = FALSE, b.product \in {"xmap", "mercury", "stj", "udxp"}, NEW c,
         NEW o \in Delivered(DxpDoReadout(b, c, "params"))
  PROVE  Sends(b, o, Params(b, c), "any")
<1> DEFINE outs == DxpDoReadout(b, c, "params")
           a == 0
           len == 2
<1>1. \A z \in outs : Piecewise(b, c, "parameters", a, len, z) BY ParamsReadout
<1>2. "parameters" \in Memories BY DEF Memories
<1>3. Params(b, c) = Words(b, c, "parameters", a, len) BY DEF Params
<1>4. o \in Delivered(outs) OBVIOUS
<1> HIDE DEF outs, a, len
<1>5. QED BY <1>1, <1>2, <1>3, <1>4, DeliveredPiecewise

-----------------------------------------------------------------------------
(* The sizes of mapping buffers. *)

\* A parameter of a module.
LEMMA ParameterOut ==
  ASSUME NEW b, Rec(b), b.product \in Big \cup {"saturn", "udxp"}, NEW o \in Parameter(b)
  PROVE  Looked(b, o) /\ Went(b, o) /\ Rec(o.m) /\ Changed(b, o.m, Scratch)
<1>1. Parameter(b) = Looking(b)
  BY DEF Big, Parameter, ReadDspsymbol, XmapReadDspsymbol, MercuryReadDspsymbol, StjReadDspsymbol,
         SaturnReadDspsymbol, UdxpReadDspsymbol
<1>2. Looked(b, o) BY <1>1, LookingOut
<1>3. QED BY <1>2, LookedWent

\* A call that looks, and finds the mode that is active.
LEMMA ModeFound ==
  ASSUME NEW b, Rec(b), NEW modes, NEW z, Looked(b, z), NEW o,
         IF z.ok THEN o \in IF z.m.mode \in modes THEN Done(z.m) ELSE Refused(z.m) ELSE o = z
  PROVE  o.ok \in BOOLEAN /\ Changed(b, o.m, {"now", "budget"}) /\ (o.ok => b.mode \in modes)
<1>1. z.m.mode = b.mode BY DEF Looked, Changed, Fields
<1>2. CASE z.ok /\ z.m.mode \in modes
  <2>1. o.ok = TRUE /\ o.m = z.m BY <1>2, DoneIs
  <2>2. QED BY <1>1, <1>2, <2>1 DEF Looked
<1>3. CASE z.ok /\ z.m.mode \notin modes
  <2>1. o.ok = FALSE /\ o.m = z.m BY <1>3, RefusedIs
  <2>2. QED BY <2>1 DEF Looked
<1>4. CASE ~z.ok BY <1>4 DEF Looked
<1>5. QED BY <1>2, <1>3, <1>4

\* The mode is asked for also after something was looked up.
LEMMA MappedThen ==
  ASSUME NEW b, Rec(b), NEW z, Looked(b, z), NEW modes, NEW o,
         IF z.ok THEN Mapped(z.m, o, modes) ELSE o = z
  PROVE  Mapped(b, o, modes)
<1>1. CASE z.ok
  <2>1. Changed(b, o.m, {"now", "budget"}) BY <1>1, ChangedTwice DEF Looked, Mapped
  <2>2. z.m.mode = b.mode BY DEF Looked, Changed, Fields
  <2>3. QED BY <1>1, <2>1, <2>2 DEF Mapped
<1>2. CASE ~z.ok BY <1>2 DEF Mapped, Looked
<1>3. QED BY <1>1, <1>2

\* Asking an xMAP, or a Mercury, for its mode.
LEMMA XmapMappingOut ==
  ASSUME NEW b, Rec(b), b.product \in {"xmap", "mercury"}, NEW modes,
         NEW o \in XmapIsMapping(b, modes)
  PROVE  Mapped(b, o, modes)
<1> DEFINE G(a) == IF a.mode \in modes THEN Done(a) ELSE Refused(a)
           F(l) == IF l.mode = "none" THEN Refused(l) ELSE Then(Parameter(l), G)
<1>1. o \in Then(Looking(b), F) BY DEF XmapIsMapping
<1> HIDE DEF F
<1>2. PICK z \in Looking(b) : IF z.ok THEN o \in F(z.m) ELSE o = z BY <1>1 DEF Then
<1>3. Looked(b, z) /\ Rec(z.m) BY LookingOut, LookedWent
<1>4. z.m.product = b.product BY <1>3 DEF Looked, Changed, Fields
<1>5. CASE z.ok /\ z.m.mode = "none"
  <2>1. o \in Refused(z.m) BY <1>2, <1>5 DEF F
  <2>2. o.ok = FALSE /\ o.m = z.m BY <2>1, RefusedIs
  <2>3. QED BY <1>3, <2>2 DEF Mapped, Looked
<1>6. CASE z.ok /\ z.m.mode # "none"
  <2>1. o \in Then(Parameter(z.m), G) BY <1>2, <1>6 DEF F
  <2> HIDE DEF G
  <2>2. PICK y \in Parameter(z.m) : IF y.ok THEN o \in G(y.m) ELSE o = y BY <2>1 DEF Then
  <2>3. Looked(z.m, y) BY <1>3, <1>4, <2>2, ParameterOut DEF Big
  <2>4. Mapped(z.m, o, modes) BY <1>3, <2>2, <2>3, ModeFound DEF G, Mapped
  <2>5. QED BY <1>3, <1>6, <2>4, MappedThen
<1>7. CASE ~z.ok BY <1>2, <1>3, <1>7 DEF Mapped, Looked
<1>8. QED BY <1>5, <1>6, <1>7

\* Asking an STJ for its mode.
LEMMA StjMappingOut ==
  ASSUME NEW b, Rec(b), b.product = "stj", NEW modes, NEW o \in StjIsMapping(b, modes)
  PROVE  Mapped(b, o, modes)
<1> DEFINE G(a) == IF a.mode \in modes THEN Done(a) ELSE Refused(a)
<1>1. o \in Then(Parameter(b), G) BY DEF StjIsMapping
<1> HIDE DEF G
<1>2. PICK y \in Parameter(b) : IF y.ok THEN o \in G(y.m) ELSE o = y BY <1>1 DEF Then
<1>3. Looked(b, y) BY <1>2, ParameterOut DEF Big
<1>4. QED BY <1>2, <1>3, ModeFound DEF G, Mapped

\* The size is that of the board as it is, whatever was asked for it.
LEMMA SizeLater ==
  ASSUME NEW b, NEW l, Changed(b, l, Scratch), NEW c
  PROVE  SizeOf(l, c) = SizeOf(b, c)
<1>1. l.product = b.product /\ l.mode = b.mode /\ l.n = b.n /\ l.val = b.val /\ l.scas = b.scas
      /\ l.pixels = b.pixels BY DEF Changed, Scratch, Fields
<1>2. BufferSize(l, c) = BufferSize(b, c) BY <1>1 DEF BufferSize, PixelSize, Chans
<1>3. StjSize(l, c) = StjSize(b, c)
  BY <1>1 DEF StjSize, StjGetMCAPixelBlockSize, StjGetSCAPixelBlockSize
<1>4. QED BY <1>1, <1>2, <1>3 DEF SizeOf

\* To ask for the mode leaves the board.
LEMMA MappedWent ==
  ASSUME NEW b, NEW modes, NEW z, Mapped(b, z, modes)
  PROVE  Went(b, z) /\ Rec(z.m) /\ Changed(b, z.m, Scratch)
  BY DEF Mapped, Went, Changed, Scratch, Rec

\* The size of a buffer, of a board that is mapping.
LEMMA SizeOut ==
  ASSUME NEW b, Rec(b), b.product \in Big, NEW c, NEW modes, NEW z, Mapped(b, z, modes), NEW o,
         Measured(b.product, c, z, o)
  PROVE  Numbered(b, o, SizeOf(b, c)) /\ (o.ok => b.mode \in modes)
<1> DEFINE s == SizeOf(b, c)
<1>1. Went(b, z) /\ Rec(z.m) /\ Changed(b, z.m, Scratch) BY MappedWent
<1>2. z.m.product = b.product BY <1>1 DEF Changed, Scratch, Fields
<1>3. ASSUME z.ok PROVE Numbered(z.m, o, s)
  <2>1. PICK y \in Parameter(z.m) :
           IF y.ok THEN \E w \in Parameter(y.m) :
                IF w.ok THEN \E x : o \in Number(w.m, x) /\ (w.m.product = b.product => x = SizeOf(w.m, c))
                ELSE o = w
           ELSE o = y BY <1>3 DEF Measured
  <2>2. Went(z.m, y) /\ Rec(y.m) /\ Changed(z.m, y.m, Scratch) BY <1>1, <1>2, <2>1, ParameterOut
  <2>3. y.m.product = b.product BY <1>2, <2>2 DEF Changed, Scratch, Fields
  <2>4. ASSUME y.ok PROVE Numbered(y.m, o, s)
    <3>1. PICK w \in Parameter(y.m) :
             IF w.ok THEN \E x : o \in Number(w.m, x) /\ (w.m.product = b.product => x = SizeOf(w.m, c))
             ELSE o = w BY <2>1, <2>4
    <3>2. Went(y.m, w) /\ Rec(w.m) /\ Changed(y.m, w.m, Scratch) BY <2>2, <2>3, <3>1, ParameterOut
    <3>3. w.m.product = b.product BY <2>3, <3>2 DEF Changed, Scratch, Fields
    <3>4. Changed(b, w.m, Scratch) BY <1>1, <2>2, <3>2, ChangedTwice
    <3>5. SizeOf(w.m, c) = s BY <3>4, SizeLater
    <3> HIDE DEF s
    <3>6. w.ok => Numbered(w.m, o, s) BY <3>1, <3>2, <3>3, <3>5, NumberOut
    <3>7. QED BY <2>2, <3>1, <3>2, <3>6, NumberedThen
  <2> HIDE DEF s
  <2>5. QED BY <1>1, <2>1, <2>2, <2>4, NumberedThen
<1>4. ~z.ok => o = z BY DEF Measured
<1>5. o.ok => b.mode \in modes BY <1>4 DEF Mapped
<1> HIDE DEF s
<1>6. Numbered(b, o, s) BY <1>1, <1>3, <1>4, NumberedThen
<1>7. QED BY <1>5, <1>6 DEF s

\* The size of a buffer is answered in the mapping modes only, by the xMAP.
LEMMA XmapBufferOut ==
  ASSUME NEW b, Rec(b), b.product = "xmap", NEW c, NEW o \in XmapGetBufferLen(b, c)
  PROVE  Numbered(b, o, SizeOf(b, c)) /\ (o.ok => b.mode \in {"mca", "sca"})
<1> DEFINE modes == {"mca", "sca"}
           N(w) == Block + (w.pixels * (IF w.mode = "mca" THEN XmapGetMCAPixelBlockSize(w, c)
                                        ELSE XmapGetSCAPixelBlockSize(w)))
<1>1. PICK z \in XmapIsMapping(b, modes) :
         IF z.ok THEN \E y \in Parameter(z.m) :
              IF y.ok THEN \E w \in Parameter(y.m) :
                   IF w.ok THEN o \in Number(w.m, N(w.m)) ELSE o = w
              ELSE o = y
         ELSE o = z BY DEF XmapGetBufferLen, Then
<1>2. \A w : w.product = "xmap" => N(w) = SizeOf(w, c)
  BY DEF SizeOf, BufferSize, PixelSize, XmapGetMCAPixelBlockSize, XmapGetSCAPixelBlockSize
<1>3. Mapped(b, z, modes) /\ b.product \in Big BY XmapMappingOut DEF Big
<1> HIDE DEF N
<1>4. Measured(b.product, c, z, o) BY <1>1, <1>2 DEF Measured
<1>5. QED BY <1>3, <1>4, SizeOut

\* By a Mercury.
LEMMA MercuryBufferOut ==
  ASSUME NEW b, Rec(b), b.product = "mercury", NEW c, NEW o \in MercuryGetBufferLen(b, c)
  PROVE  Numbered(b, o, SizeOf(b, c)) /\ (o.ok => b.mode \in {"mca", "sca"})
<1> DEFINE modes == {"mca", "sca"}
           N(w) == Block + (w.pixels * MercuryGetMCAPixelBlockSize(w, c))
<1>1. PICK z \in XmapIsMapping(b, modes) :
         IF z.ok THEN \E y \in Parameter(z.m) :
              IF y.ok THEN \E w \in Parameter(y.m) :
                   IF w.ok THEN o \in Number(w.m, N(w.m)) ELSE o = w
              ELSE o = y
         ELSE o = z
  BY DEF MercuryGetBufferLen, MercuryIsMapping, MercuryCheckBit, XmapIsMapping, Then
<1>2. \A w : w.product = "mercury" => N(w) = SizeOf(w, c)
  BY DEF SizeOf, BufferSize, PixelSize, MercuryGetMCAPixelBlockSize
<1>3. Mapped(b, z, modes) /\ b.product \in Big BY XmapMappingOut DEF Big
<1> HIDE DEF N
<1>4. Measured(b.product, c, z, o) BY <1>1, <1>2 DEF Measured
<1>5. QED BY <1>3, <1>4, SizeOut

\* By an STJ.
LEMMA StjBufferOut ==
  ASSUME NEW b, Rec(b), b.product = "stj", NEW c, NEW o \in StjGetBufferLen(b, c)
  PROVE  Numbered(b, o, SizeOf(b, c)) /\ (o.ok => b.mode \in {"mca", "sca"})
<1> DEFINE modes == {"mca", "sca"}
           N(w) == Block + (w.pixels * (IF w.mode = "mca" THEN StjGetMCAPixelBlockSize(w, c)
                                        ELSE StjGetSCAPixelBlockSize(w)))
<1>1. PICK z \in StjIsMapping(b, modes) :
         IF z.ok THEN \E y \in Parameter(z.m) :
              IF y.ok THEN \E w \in Parameter(y.m) :
                   IF w.ok THEN o \in Number(w.m, N(w.m)) ELSE o = w
              ELSE o = y
         ELSE o = z BY DEF StjGetBufferLen, Then
<1>2. \A w : w.product = "stj" => N(w) = SizeOf(w, c) BY DEF SizeOf, StjSize
<1>3. Mapped(b, z, modes) /\ b.product \in Big BY StjMappingOut DEF Big
<1> HIDE DEF N
<1>4. Measured(b.product, c, z, o) BY <1>1, <1>2 DEF Measured
<1>5. QED BY <1>3, <1>4, SizeOut

-----------------------------------------------------------------------------
(* Whatever is asked of a module. *)

\* Blocks and numbers have names of their own.
LEMMA BlocksApart == Blocks \cap (ModuleCounters \cup Picks) = {}
  BY DEF Blocks, ModuleCounters, Picks, Counters, GatedNames

\* What is read of a module, by each name.
LEMMA WantedIs ==
  ASSUME NEW b, NEW c
  PROVE  /\ \A n \in ModuleCounters : Wanted(b, c, n) = OneOf(b, c, n)
         /\ Wanted(b, c, "module_statistics") = SevenOf(b)
         /\ Wanted(b, c, "module_statistics_2") = NineOf(b)
         /\ Wanted(b, c, "mca") = Bins(b, c) /\ Wanted(b, c, "module_mca") = AllBins(b, c)
         /\ Wanted(b, c, "sca") = Scas(b, c) /\ Wanted(b, c, "baseline") = Histograms(b, c)
         /\ Wanted(b, c, "values") = Params(b, c)
<1>1. \A n \in Blocks : n \notin ModuleCounters BY BlocksApart
<1>2. QED BY <1>1 DEF Wanted, OneOf, Blocks

\* Data that are sent are a reply.
LEMMA SendsReplies ==
  ASSUME NEW b, NEW c, NEW n, NEW o, NEW P, NEW when, Sends(b, o, P, when),
         when = "once" \/ n \in ByWords(b), n \in Promising => P = Wanted(b, c, n),
         n # "mca_length", n # "buffer_len"
  PROVE  Replies(b, c, n, o)
  BY DEF Replies, Sends, Timed

\* A number is a reply.
LEMMA NumberedReplies ==
  ASSUME NEW b, NEW c, NEW n, NEW o, NEW x, Numbered(b, o, x), n \notin Promising,
         n = "mca_length" => x = Length(b, c),
         n = "buffer_len" /\ b.product # "stj" =>
             x = BufferSize(b, c) /\ (o.ok => b.mode \in {"mca", "sca"})
  PROVE  Replies(b, c, n, o)
<1>1. Went(b, o) BY DEF Numbered
<1>2. ASSUME o.ok
      PROVE  (\E t : Since(o.m.got, t)) /\ (\E t : o.m.got = <<{Figure(x, t)}>>)
  BY <1>2, NumberedOnce DEF Numbered
<1>3. QED BY <1>1, <1>2 DEF Replies

\* So is a refusal.
LEMMA FailedReplies ==
  ASSUME NEW b, Rec(b), NEW c, NEW n, NEW o \in Refused(b)
  PROVE  Replies(b, c, n, o)
  BY RefusedOut DEF Replies

\* The names that promise no data of the run.
LEMMA NoPromise ==
  Promising \cap {"mca_length", "baseline_length", "run_active", "max_sca_length", "sca_length",
                  "buffer_len", "list_buffer_len_a", "list_buffer_len_b", "unknown"} = {}
  BY DEF Promising, Counters, GatedNames, SnapshotNames

\* The length of a list mode buffer may be of two instants.
LEMMA WordReplies ==
  ASSUME NEW b, NEW c, NEW n \in {"list_buffer_len_a", "list_buffer_len_b"}, NEW o, Went(b, o)
  PROVE  Replies(b, c, n, o)
  BY NoPromise DEF Replies, ByWords

\* Each half of it is looked up.
LEMMA OneWordOut ==
  ASSUME NEW b, Rec(b), NEW c, NEW buf, NEW i, NEW o \in OneListWord(b, c, buf, i)
  PROVE  Went(b, o)
<1>1. PICK l \in Later(b) : o \in Access(l, [l EXCEPT !.words = Append(@, ListWord(l, c, buf, i))])
  BY DEF OneListWord, ReadingOne
<1> DEFINE w == Append(l.words, ListWord(l, c, buf, i))
<1>2. o \in Access(l, [l EXCEPT !.words = w]) BY <1>1
<1> HIDE DEF w
<1>3. QED BY <1>2, ReadOut

\* To read them leaves the board.
LEMMA HalvesOut ==
  ASSUME NEW b, Rec(b), NEW c, NEW buf, NEW z, Went(b, z), NEW o,
         IF z.ok THEN o \in ListHalves(z.m, c, buf) ELSE o = z
  PROVE  Went(b, o)
<1> DEFINE R(l, i) == OneListWord(l, c, buf, i)
           A(l) == Answer(l, <<{l.words[1], l.words[2]}>>) \cup Refused(l)
           G(l) == Then(R(l, 1), A)
<1>1. Rec(z.m) BY WentRec
<1>2. ASSUME z.ok PROVE Went(z.m, o)
  <2> DEFINE e == [z.m EXCEPT !["words"] = <<>>]
  <2>1. Changed(z.m, e, Scratch) /\ Rec(e) BY <1>1, PutScratch
  <2>2. o \in Then(R(e, 0), G) BY <1>2 DEF ListHalves
  <2> HIDE DEF e, G
  <2>3. PICK y \in R(e, 0) : IF y.ok THEN o \in G(y.m) ELSE o = y BY <2>2 DEF Then
  <2>4. Went(e, y) /\ Rec(y.m) BY <2>1, <2>3, OneWordOut, WentRec
  <2>5. ASSUME y.ok PROVE Went(y.m, o)
    <3>1. o \in Then(R(y.m, 1), A) BY <2>3, <2>5 DEF G
    <3> HIDE DEF A
    <3>2. PICK x \in R(y.m, 1) : IF x.ok THEN o \in A(x.m) ELSE o = x BY <3>1 DEF Then
    <3>3. Went(y.m, x) /\ Rec(x.m) BY <2>4, <3>2, OneWordOut, WentRec
    <3>4. x.ok => Went(x.m, o)
      <4> DEFINE g == <<{x.m.words[1], x.m.words[2]}>>
      <4>1. x.ok => o \in Answer(x.m, g) \/ o \in Refused(x.m) BY <3>2 DEF A
      <4> HIDE DEF g
      <4>2. QED BY <3>3, <4>1, AnswerOut, RefusedOut
    <3>5. QED BY <2>4, <3>2, <3>3, <3>4, WentThen
  <2>6. Went(e, o) BY <2>1, <2>3, <2>4, <2>5, WentThen
  <2>7. QED BY <1>1, <2>1, <2>6, ChangedTwice DEF Went
<1>3. QED BY <1>1, <1>2, WentThen

\* The length of a list mode buffer of an xMAP, or of a Mercury.
LEMMA XmapListOut ==
  ASSUME NEW b, Rec(b), b.product \in {"xmap", "mercury"}, NEW c, NEW buf,
         NEW o \in XmapGetListBufferLen(b, c, buf)
  PROVE  Went(b, o)
<1>1. PICK z \in XmapIsMapping(b, {"list"}) : IF z.ok THEN o \in ListHalves(z.m, c, buf) ELSE o = z
  BY DEF XmapGetListBufferLen, ListHalves, OneListWord, Then
<1>2. QED BY <1>1, XmapMappingOut, MappedWent, HalvesOut

\* The length of a list mode buffer of an STJ.
LEMMA StjListOut ==
  ASSUME NEW b, Rec(b), b.product = "stj", NEW c, NEW buf, NEW o \in StjGetListBufferLen(b, c, buf)
  PROVE  Went(b, o)
<1>1. PICK z \in StjIsMapping(b, {"list"}) : IF z.ok THEN o \in ListHalves(z.m, c, buf) ELSE o = z
  BY DEF StjGetListBufferLen, ListHalves, OneListWord, Then
<1>2. QED BY <1>1, StjMappingOut, MappedWent, HalvesOut

\* What an xMAP replies to any name, and a Mercury, which computes all but the size of a
\* buffer alike.
LEMMA XmapReplies ==
  ASSUME NEW b, BoardType(b), b.product \in {"xmap", "mercury"}, NEW c \in 1..b.n, NEW n \in Names(b),
         n = "buffer_len" => b.product = "xmap", NEW o \in XmapGetRunData(b, c, n)
  PROVE  Replies(b, c, n, o)
<1>1. Rec(b) /\ b.product \in Big /\ b.error = FALSE BY BigType DEF Big
<1>2. CASE n \in ModuleCounters
  <2>1. Sends(b, o, OneOf(b, c, n), "once") BY <1>2, XmapCountersOut DEF OneOf
  <2>2. n # "mca_length" /\ n # "buffer_len" BY <1>2 DEF ModuleCounters, Counters
  <2>3. QED BY <1>2, <2>1, <2>2, WantedIs, SendsReplies
<1>3. CASE n = "module_statistics"
  <2>1. o \in XmapGetModuleStatistics(b, c) BY <1>3, SMTT(30) DEF XmapGetRunData
  <2>2. Sends(b, o, SevenOf(b), "once") BY <2>1, XmapStatisticsOut DEF SevenOf
  <2>3. QED BY <1>3, <2>2, WantedIs, SendsReplies
<1>4. CASE n = "module_statistics_2"
  <2>1. o \in XmapGetModuleStatistics2(b, c) BY <1>4, SMTT(30) DEF XmapGetRunData
  <2>2. Sends(b, o, NineOf(b), "once") BY <2>1, XmapStatisticsOut DEF NineOf
  <2>3. QED BY <1>4, <2>2, WantedIs, SendsReplies
<1>5. CASE n = "mca"
  <2>1. o \in XmapGetMCA(b, c) BY <1>5, SMTT(30) DEF XmapGetRunData
  <2>2. Sends(b, o, Bins(b, c), "once") BY <1>1, <2>1, SpectrumSends DEF XmapGetMCA
  <2>3. QED BY <1>5, <2>2, WantedIs, SendsReplies
<1>6. CASE n = "module_mca"
  <2>1. o \in XmapGetModuleMCA(b, c) BY <1>6, SMTT(30) DEF XmapGetRunData
  <2>2. Sends(b, o, AllBins(b, c), "once")
    BY <1>1, <2>1, ModuleSpectraSends DEF XmapGetModuleMCA, Header
  <2>3. QED BY <1>6, <2>2, WantedIs, SendsReplies
<1>7. CASE n = "baseline"
  <2> DEFINE when == IF b.product = "xmap" THEN "any" ELSE "once"
  <2>1. o \in XmapGetBaseline(b, c) BY <1>7, SMTT(30) DEF XmapGetRunData
  <2>2. Sends(b, o, Histograms(b, c), when) BY <1>1, <2>1, BaselineSends DEF XmapGetBaseline
  <2>3. when = "once" \/ n \in ByWords(b) BY <1>7 DEF ByWords
  <2> HIDE DEF when
  <2>4. QED BY <1>7, <2>2, <2>3, WantedIs, SendsReplies
<1>8. CASE n = "sca"
  <2>1. o \in XmapGetSCAData(b, c) BY <1>8, SMTT(30) DEF XmapGetRunData
  <2>2. CASE b.val[c]["number_of_scas"] = 0 BY <1>1, <2>1, <2>2, FailedReplies DEF XmapGetSCAData
  <2>3. CASE b.val[c]["number_of_scas"] # 0
    <3>1. Sends(b, o, Scas(b, c), "once") BY <1>1, <2>1, <2>3, ScasSend DEF XmapGetSCAData
    <3>2. QED BY <1>8, <3>1, WantedIs, SendsReplies
  <2>4. QED BY <2>2, <2>3
<1>9. CASE n = "mca_length"
  <2>1. o \in XmapGetMCALength(b, c) BY <1>9, SMTT(30) DEF XmapGetRunData
  <2>2. Numbered(b, o, Length(b, c)) BY <1>1, <2>1, NspecOut DEF XmapGetMCALength
  <2>3. QED BY <1>9, <2>2, NumberedReplies, NoPromise
<1>10. CASE n = "run_active"
  <2>1. o \in XmapGetRunActive(b) BY <1>10, SMTT(30) DEF XmapGetRunData
  <2>2. Numbered(b, o, IF b.running THEN 1 ELSE 0) BY <1>1, <2>1, IsrunningOut DEF XmapGetRunActive
  <2>3. QED BY <1>10, <2>2, NumberedReplies, NoPromise
<1>11. CASE n = "baseline_length"
  <2>1. o \in XmapGetBaselineLength(b) BY <1>11, SMTT(30) DEF XmapGetRunData
  <2>2. Numbered(b, o, BaseLen) BY <1>1, <2>1, NbaseOut DEF XmapGetBaselineLength
  <2>3. QED BY <1>11, <2>2, NumberedReplies, NoPromise
<1>12. CASE n = "max_sca_length"
  <2>1. o \in XmapGetMaxSCALength(b) BY <1>12, SMTT(30) DEF XmapGetRunData
  <2>2. Numbered(b, o, MaxScas) BY <1>1, <2>1, NumberOut DEF XmapGetMaxSCALength
  <2>3. QED BY <1>12, <2>2, NumberedReplies, NoPromise
<1>13. CASE n = "sca_length"
  <2>1. o \in XmapGetSCALength(b, c) BY <1>13, SMTT(30) DEF XmapGetRunData
  <2>2. Numbered(b, o, b.val[c]["number_of_scas"]) BY <1>1, <2>1, NumberOut DEF XmapGetSCALength
  <2>3. QED BY <1>13, <2>2, NumberedReplies, NoPromise
<1>14. CASE n = "buffer_len"
  <2>1. o \in XmapGetBufferLen(b, c) BY <1>14, SMTT(30) DEF XmapGetRunData
  <2>2. Numbered(b, o, BufferSize(b, c)) /\ (o.ok => b.mode \in {"mca", "sca"})
    BY <1>1, <1>14, <2>1, XmapBufferOut DEF SizeOf
  <2>3. QED BY <1>14, <2>2, NumberedReplies, NoPromise
<1>15. CASE n \in {"list_buffer_len_a", "list_buffer_len_b"}
  <2>1. o \in XmapGetListBufferLenA(b, c) \/ o \in XmapGetListBufferLenB(b, c)
    BY <1>15, SMTT(30) DEF XmapGetRunData
  <2>2. Went(b, o) BY <1>1, <2>1, XmapListOut DEF XmapGetListBufferLenA, XmapGetListBufferLenB
  <2>3. QED BY <1>15, <2>2, WordReplies
<1>16. CASE n = "unknown"
  <2>1. o \in Refused(b) BY <1>16, SMTT(30) DEF XmapGetRunData
  <2>2. QED BY <1>1, <2>1, FailedReplies
<1>17. QED
  BY <1>2, <1>3, <1>4, <1>5, <1>6, <1>7, <1>8, <1>9, <1>10, <1>11, <1>12, <1>13, <1>14, <1>15, <1>16
  DEF Names, ModuleCounters, ScaNames, BaselineNames, Big

\* A Mercury reads and computes what an xMAP does; the size of a buffer apart.
LEMMA MercuryAsXmap ==
  ASSUME NEW b, NEW c, NEW n \in Names(b), b.product = "mercury", n # "buffer_len",
         NEW o \in MercuryGetRunData(b, c, n)
  PROVE  o \in XmapGetRunData(b, c, n)
<1>1. /\ MercuryGetRealtime(b, c) = XmapGetRealtime(b, c)
      /\ MercuryGetTLivetime(b, c) = XmapGetTLivetime(b, c)
      /\ MercuryGetELivetime(b, c) = XmapGetELivetime(b, c)
      /\ MercuryGetTriggers(b, c) = XmapGetTriggers(b, c)
      /\ MercuryGetMCAEvents(b, c) = XmapGetMCAEvents(b, c)
      /\ MercuryGetUnderflows(b, c) = XmapGetUnderflows(b, c)
      /\ MercuryGetOverflows(b, c) = XmapGetOverflows(b, c)
      /\ MercuryGetTotalEvents(b, c) = XmapGetTotalEvents(b, c)
      /\ MercuryGetICR(b, c) = XmapGetICR(b, c)
      /\ MercuryGetOCR(b, c) = XmapGetOCR(b, c)
      /\ MercuryGetModuleStatistics(b, c) = XmapGetModuleStatistics(b, c)
      /\ MercuryGetModuleStatistics2(b, c) = XmapGetModuleStatistics2(b, c)
      /\ MercuryGetMCALength(b, c) = XmapGetMCALength(b, c)
      /\ MercuryGetMCA(b, c) = XmapGetMCA(b, c)
      /\ MercuryGetModuleMCA(b, c) = XmapGetModuleMCA(b, c)
      /\ MercuryGetSCALength(b, c) = XmapGetSCALength(b, c)
      /\ MercuryGetSCAData(b, c) = XmapGetSCAData(b, c)
      /\ MercuryGetListBufferLenA(b, c) = XmapGetListBufferLenA(b, c)
      /\ MercuryGetListBufferLenB(b, c) = XmapGetListBufferLenB(b, c)
      /\ MercuryGetBaseline(b, c) = XmapGetBaseline(b, c)
      /\ MercuryGetBaselineLength(b) = XmapGetBaselineLength(b)
      /\ MercuryGetRunActive(b) = XmapGetRunActive(b)
      /\ MercuryGetMaxSCALength(b) = XmapGetMaxSCALength(b)
  BY Zenon DEF MercuryGetStatisticsBlock, MercuryStatsOffset, MercuryExtractRealtime,
      MercuryExtractTLivetime, MercuryExtractELivetime, MercuryExtractTriggers,
      MercuryExtractEvents, MercuryExtractUnderflows, MercuryExtractOverflows,
      MercuryGetRealtime, MercuryGetTLivetime, MercuryGetELivetime, MercuryGetTriggers,
      MercuryGetMCAEvents, MercuryGetUnderflows, MercuryGetOverflows, MercuryGetTotalEvents,
      MercuryGetICR, MercuryGetOCR, MercuryGetModuleStatistics, MercuryGetModuleStatistics2,
      MercuryGetMCALength, MercuryGetMCA, MercuryGetModuleMCA, MercuryGetSCALength,
      MercuryGetSCAData, MercuryGetListBufferLenA, MercuryGetListBufferLenB,
      MercuryGetBaseline, MercuryGetBaselineLength, MercuryGetRunActive,
      MercuryGetMaxSCALength, MercuryGetListBufferLen, MercuryIsMapping,
      XmapGetStatisticsBlock, XmapStatsOffset, XmapExtractRealtime, XmapExtractTLivetime,
      XmapExtractELivetime, XmapExtractTriggers, XmapExtractEvents, XmapExtractUnderflows,
      XmapExtractOverflows, XmapGetRealtime, XmapGetTLivetime, XmapGetELivetime,
      XmapGetTriggers, XmapGetMCAEvents, XmapGetUnderflows, XmapGetOverflows,
      XmapGetTotalEvents, XmapGetICR, XmapGetOCR, XmapGetModuleStatistics,
      XmapGetModuleStatistics2, XmapGetMCALength, XmapGetMCA, XmapGetModuleMCA,
      XmapGetSCALength, XmapGetSCAData, XmapGetListBufferLenA, XmapGetListBufferLenB,
      XmapGetBaseline, XmapGetBaselineLength, XmapGetRunActive, XmapGetMaxSCALength,
      XmapGetListBufferLen, XmapIsMapping, MercuryCheckBit
<1>2. n \in ModuleCounters \cup {"module_statistics", "module_statistics_2", "mca_length", "mca",
          "module_mca", "baseline_length", "baseline", "run_active", "max_sca_length", "sca_length",
          "sca", "list_buffer_len_a", "list_buffer_len_b", "unknown"}
  BY DEF Names, Big, ModuleCounters, ScaNames, BaselineNames
<1>3. QED BY <1>1, <1>2, SMTT(20) DEF MercuryGetRunData, XmapGetRunData, ModuleCounters, Counters

\* What a Mercury replies to any name.
LEMMA MercuryReplies ==
  ASSUME NEW b, BoardType(b), b.product = "mercury", NEW c \in 1..b.n, NEW n \in Names(b),
         NEW o \in MercuryGetRunData(b, c, n)
  PROVE  Replies(b, c, n, o)
<1>1. CASE n = "buffer_len"
  <2>1. o \in MercuryGetBufferLen(b, c) BY <1>1, SMTT(30) DEF MercuryGetRunData
  <2>2. Numbered(b, o, BufferSize(b, c)) /\ (o.ok => b.mode \in {"mca", "sca"})
    BY <2>1, MercuryBufferOut DEF BoardType, SizeOf
  <2>3. QED BY <1>1, <2>2, NumberedReplies, NoPromise
<1>2. CASE n # "buffer_len" BY <1>2, MercuryAsXmap, XmapReplies
<1>3. QED BY <1>1, <1>2

\* What an STJ replies to any name.
LEMMA StjReplies ==
  ASSUME NEW b, BoardType(b), b.product = "stj", NEW c \in 1..b.n, NEW n \in Names(b),
         NEW o \in StjGetRunData(b, c, n)
  PROVE  Replies(b, c, n, o)
<1>1. Rec(b) /\ b.product \in Big /\ b.error = FALSE BY BigType DEF Big
<1>2. CASE n \in ModuleCounters
  <2>1. Sends(b, o, OneOf(b, c, n), "once") BY <1>2, StjCountersOut DEF OneOf
  <2>2. n # "mca_length" /\ n # "buffer_len" BY <1>2 DEF ModuleCounters, Counters
  <2>3. QED BY <1>2, <2>1, <2>2, WantedIs, SendsReplies
<1>3. CASE n = "module_statistics"
  <2>1. o \in StjGetModuleStatistics(b, c) BY <1>3, SMTT(30) DEF StjGetRunData
  <2>2. Sends(b, o, SevenOf(b), "once") BY <2>1, StjStatisticsOut DEF SevenOf
  <2>3. QED BY <1>3, <2>2, WantedIs, SendsReplies
<1>4. CASE n = "module_statistics_2"
  <2>1. o \in StjGetModuleStatistics2(b, c) BY <1>4, SMTT(30) DEF StjGetRunData
  <2>2. Sends(b, o, NineOf(b), "once") BY <2>1, StjStatisticsOut DEF NineOf
  <2>3. QED BY <1>4, <2>2, WantedIs, SendsReplies
<1>5. CASE n = "mca"
  <2>1. o \in StjGetMCA(b, c) BY <1>5, SMTT(30) DEF StjGetRunData
  <2>2. Sends(b, o, Bins(b, c), "once") BY <1>1, <2>1, SpectrumSends DEF StjGetMCA
  <2>3. QED BY <1>5, <2>2, WantedIs, SendsReplies
<1>6. CASE n = "module_mca"
  <2>1. o \in StjGetModuleMCA(b, c) BY <1>6, SMTT(30) DEF StjGetRunData
  <2>2. Sends(b, o, AllBins(b, c), "once")
    BY <1>1, <2>1, ModuleSpectraSends DEF StjGetModuleMCA, Header
  <2>3. QED BY <1>6, <2>2, WantedIs, SendsReplies
<1>7. CASE n = "mca_length"
  <2>1. o \in StjGetMCALength(b, c) BY <1>7, SMTT(30) DEF StjGetRunData
  <2>2. Numbered(b, o, Length(b, c)) BY <1>1, <2>1, NspecOut DEF StjGetMCALength
  <2>3. QED BY <1>7, <2>2, NumberedReplies, NoPromise
<1>8. CASE n = "run_active"
  <2>1. o \in StjGetRunActive(b) BY <1>8, SMTT(30) DEF StjGetRunData
  <2>2. Numbered(b, o, IF b.running THEN 1 ELSE 0) BY <1>1, <2>1, IsrunningOut DEF StjGetRunActive
  <2>3. QED BY <1>8, <2>2, NumberedReplies, NoPromise
<1>9. CASE n = "buffer_len"
  <2>1. o \in StjGetBufferLen(b, c) BY <1>9, SMTT(30) DEF StjGetRunData
  <2>2. Numbered(b, o, SizeOf(b, c)) BY <1>1, <2>1, StjBufferOut
  <2>3. QED BY <1>9, <2>2, NumberedReplies, NoPromise
<1>10. CASE n \in {"list_buffer_len_a", "list_buffer_len_b"}
  <2>1. o \in StjGetListBufferLenA(b, c) \/ o \in StjGetListBufferLenB(b, c)
    BY <1>10, SMTT(30) DEF StjGetRunData
  <2>2. Went(b, o) BY <1>1, <2>1, StjListOut DEF StjGetListBufferLenA, StjGetListBufferLenB
  <2>3. QED BY <1>10, <2>2, WordReplies
<1>11. CASE n = "unknown"
  <2>1. o \in Refused(b) BY <1>11, SMTT(30) DEF StjGetRunData
  <2>2. QED BY <1>1, <2>1, FailedReplies
<1>12. QED BY <1>2, <1>3, <1>4, <1>5, <1>6, <1>7, <1>8, <1>9, <1>10, <1>11
       DEF Names, ModuleCounters, ScaNames, BaselineNames, Big

-----------------------------------------------------------------------------
(* The Saturn.  What a call answers is what it promises when no access       *)
(* failed; what it answers after a failure is of one instant still.          *)

\* Numbers are kept apart from the words they come from.
LEMMA AnswerKeeps ==
  ASSUME NEW b, Rec(b), NEW x, NEW o \in Answer(b, x)
  PROVE  o.m.words = b.words /\ o.m.speed = b.speed
<1>1. o.m = [b EXCEPT !.got = x] BY DEF Answer, Done
<1>2. QED BY <1>1, PutScratch DEF Fields

\* The tally is of the words.
LEMMA TalliedSame ==
  ASSUME NEW y, NEW z, y.words = z.words, NEW n, NEW t, Tallied(z, n, t)
  PROVE  Tallied(y, n, t)
  BY DEF Tallied, Entry

\* The block of parameters holds the counters of the channel.
LEMMA SaturnTallied ==
  ASSUME NEW b, BoardType(b), b.product = "saturn", NEW c \in 1..b.n,
         NEW o \in SaturnGetDSPBlock(b, c)
  PROVE  Went(b, o) /\ (o.ok => o.m.got = <<>> /\ \E t : Tallied(o.m, 1, t))
<1>1. Rec(b) /\ c = 1 BY DEF BoardType, Big
<1>2. PICK z \in DxpReadMemory(b, c, "data", 0, Block) :
         IF z.ok THEN o \in Answer(z.m, <<>>) ELSE o = z BY DEF SaturnGetDSPBlock, Then
<1>3. AtOnce(b, c, "data", 0, Block, z) BY <1>1, <1>2, SaturnMemoryOut
<1>4. Went(b, z) /\ Rec(z.m) /\ z.ok \in BOOLEAN BY <1>3, WentRec DEF AtOnce
<1>5. CASE z.ok = FALSE BY <1>2, <1>4, <1>5
<1>6. CASE z.ok = TRUE
  <2>1. o \in Answer(z.m, <<>>) BY <1>2, <1>6
  <2>2. Went(z.m, o) /\ o.m.got = <<>> /\ o.m.words = z.m.words
    <3>1. Went(z.m, o) /\ o.m.got = <<>>
      <4> DEFINE e == <<>>
      <4>1. Rec(z.m) /\ o \in Answer(z.m, e) BY <1>4, <2>1
      <4> HIDE DEF e
      <4>2. Went(z.m, o) /\ o.m.got = e BY <4>1, AnswerOut
      <4>3. QED BY <4>2 DEF e
    <3>2. o.m.words = z.m.words BY <1>4, <2>1, AnswerKeeps
    <3>3. QED BY <3>1, <3>2
  <2>3. Went(b, o) BY <1>1, <1>4, <1>6, <2>2, WentThen
  <2>4. PICK l : z.m.words = [i \in 1..Block |-> WordAt(l, c, "data", 0 + i - 1)]
    BY <1>3, <1>6 DEF AtOnce
  <2>5. z.m.words[0 + 1] = WordAt(l, c, "data", 0) BY <2>4, SizesAssumption
  <2>6. WordAt(l, c, "data", 0) = Counter(1, "counters", l.now)
    BY <1>1, SizesAssumption DEF WordAt, DataWord, Cell, Counter
  <2>7. \A item : Entry(z.m, 0, item) = {Counter(1, item, l.now)} BY <2>5, <2>6, EntryIs
  <2>8. Tallied(z.m, 1, l.now) BY <2>7 DEF Tallied
  <2>9. Tallied(o.m, 1, l.now) BY <2>2, <2>8, TalliedSame
  <2>10. QED BY <2>2, <2>3, <2>9
<1>7. QED BY <1>4, <1>5, <1>6

\* One more number is taken from the words.
LEMMA AlsoOut ==
  ASSUME NEW b, Rec(b), NEW item, NEW o \in Also(b, item)
  PROVE  Extracted(b, o, item)
<1> DEFINE x == Append(b.got, Entry(b, 0, item))
<1>1. o \in Answer(b, x) BY DEF Also
<1> HIDE DEF x
<1>2. Went(b, o) /\ o.m.got = x /\ o.m.words = b.words BY <1>1, AnswerOut, AnswerKeeps
<1>3. QED BY <1>2 DEF Extracted, x

\* What looking up a parameter answers.
LEMMA ParameterShape ==
  ASSUME NEW b, b.product = "saturn", NEW z \in Parameter(b)
  PROVE  z = [ok |-> z.ok, m |-> z.m] /\ z.ok \in BOOLEAN
<1>1. PICK l \in Later(b) : z \in Access(l, l)
  BY DEF Parameter, ReadDspsymbol, SaturnReadDspsymbol, Looking
<1>2. CASE z \in Done(l)
  <2>1. z = [ok |-> TRUE, m |-> l] BY <1>2 DEF Done
  <2>2. QED BY <2>1
<1>3. CASE z \in Faulty(l)
  <2>1. z \in Refused([l EXCEPT !.budget = @ - 1]) BY <1>3 DEF Faulty
  <2> DEFINE x == [l EXCEPT !.budget = @ - 1]
  <2>2. z = [ok |-> FALSE, m |-> x] BY <2>1 DEF Refused
  <2> HIDE DEF x
  <2>3. QED BY <2>2
<1>4. QED BY <1>1, <1>2, <1>3 DEF Access

\* The clock of a Saturn is read, or known from before.
LEMMA ClockOut ==
  ASSUME NEW b, Rec(b), b.product = "saturn", NEW o \in SaturnGetClockSpeed(b)
  PROVE  Clocked(b, o)
<1>1. PICK z \in Parameter(b) :
         \E y : /\ IF z.ok THEN y = [z EXCEPT !.m.speed = b.clock]
                   ELSE y = [ok |-> TRUE, m |-> [z.m EXCEPT !.speed = 20]]
                /\ o \in IF y.m.speed \in {20, 40} THEN Done(y.m) ELSE Refused(y.m)
  <2> DEFINE read == {IF z.ok THEN [z EXCEPT !.m.speed = b.clock]
                      ELSE [ok |-> TRUE, m |-> [z.m EXCEPT !.speed = 20]] : z \in Parameter(b)}
             F(l) == IF l.speed \in {20, 40} THEN Done(l) ELSE Refused(l)
  <2>1. o \in Then(read, F) BY DEF SaturnGetClockSpeed
  <2> HIDE DEF F
  <2>2. PICK y \in read : IF y.ok THEN o \in F(y.m) ELSE o = y BY <2>1 DEF Then
  <2>3. PICK z \in Parameter(b) : y = IF z.ok THEN [z EXCEPT !.m.speed = b.clock]
                                      ELSE [ok |-> TRUE, m |-> [z.m EXCEPT !.speed = 20]] BY <2>2
  <2>4. z = [ok |-> z.ok, m |-> z.m] /\ z.ok \in BOOLEAN BY <2>3, ParameterShape
  <2>5. y.ok
    <3>1. CASE z.ok = TRUE
      <4>1. y = [z EXCEPT !.m.speed = b.clock] BY <2>3, <3>1
      <4>2. y.ok = z.ok BY <2>4, <4>1
      <4>3. QED BY <3>1, <4>2
    <3>2. CASE z.ok = FALSE BY <2>3, <3>2
    <3>3. QED BY <2>4, <3>1, <3>2
  <2>6. QED BY <2>2, <2>3, <2>5 DEF F
<1>2. Looked(b, z) /\ Went(b, z) /\ Rec(z.m) BY ParameterOut
<1>3. z = [ok |-> z.ok, m |-> z.m] /\ z.ok \in BOOLEAN BY ParameterShape
<1>4. PICK y : /\ IF z.ok THEN y = [z EXCEPT !.m.speed = b.clock]
                  ELSE y = [ok |-> TRUE, m |-> [z.m EXCEPT !.speed = 20]]
               /\ o \in IF y.m.speed \in {20, 40} THEN Done(y.m) ELSE Refused(y.m) BY <1>1
<1> DEFINE x == IF z.ok THEN b.clock ELSE 20
<1>5. y.m = [z.m EXCEPT !.speed = x]
  <2>1. CASE z.ok = TRUE
    <3>1. y = [z EXCEPT !.m.speed = b.clock] BY <1>4, <2>1
    <3>2. y.m = [z.m EXCEPT !.speed = b.clock] BY <1>3, <3>1
    <3>3. QED BY <2>1, <3>2
  <2>2. CASE z.ok = FALSE BY <1>4, <2>2
  <2>3. QED BY <1>3, <2>1, <2>2
<1> HIDE DEF x
<1>6. /\ Changed(z.m, y.m, Scratch) /\ Rec(y.m) /\ y.m.budget = z.m.budget /\ y.m.speed = x
      /\ y.m.words = z.m.words /\ y.m.got = z.m.got /\ y.m.clock = z.m.clock
  BY <1>2, <1>5, PutScratch DEF Fields
<1>7. o.ok \in BOOLEAN /\ o.m = y.m BY <1>4, DoneIs, RefusedIs
<1>8. Changed(b, y.m, Scratch) BY <1>2, <1>6, ChangedTwice DEF Went
<1>9. z.m.words = b.words /\ z.m.got = b.got /\ z.m.clock = b.clock
  BY <1>2 DEF Looked, Changed, Fields
<1>10. y.m.budget = b.budget => y.m.speed = y.m.clock
  <2>1. z.m.budget = b.budget => z.ok BY <1>2 DEF Looked, Rec
  <2>2. z.ok => x = b.clock BY DEF x
  <2>3. QED BY <1>6, <1>9, <2>1, <2>2
<1>11. QED BY <1>6, <1>7, <1>8, <1>9, <1>10 DEF Clocked, Went

\* A time is taken from the words, in the wrong unit if the clock was not read.
LEMMA TimeOut ==
  ASSUME NEW b, Rec(b), b.product = "saturn", NEW item, NEW o \in SaturnTime(b, item)
  PROVE  Extracted(b, o, item)
<1> DEFINE X(l) == IF l.speed = l.clock THEN item ELSE "wrong_unit"
<1>1. PICK z \in SaturnGetClockSpeed(b) : IF z.ok THEN o \in Also(z.m, X(z.m)) ELSE o = z
  BY DEF SaturnTime, Then
<1>2. Clocked(b, z) BY ClockOut
<1>3. Went(b, z) /\ Rec(z.m) /\ z.ok \in BOOLEAN /\ z.m.budget <= b.budget /\ b.budget \in Nat
      /\ z.m.budget \in Nat BY <1>2, WentRec DEF Clocked, Went, Changed, Rec
<1>4. CASE z.ok = FALSE BY <1>1, <1>3, <1>4 DEF Extracted
<1>5. CASE z.ok = TRUE
  <2> DEFINE x == X(z.m)
  <2>1. o \in Also(z.m, x) BY <1>1, <1>5
  <2>2. x \in {item, "wrong_unit"} /\ (z.m.budget = b.budget => x = item) BY <1>2, <1>5 DEF Clocked
  <2> HIDE DEF x, X
  <2>3. Extracted(z.m, o, x) BY <1>3, <2>1, AlsoOut
  <2>4. Went(b, o) BY <1>3, <1>5, <2>3, WentThen DEF Extracted
  <2>5. z.m.words = b.words /\ z.m.got = b.got BY <1>2, <1>5 DEF Clocked
  <2>6. \A e : Entry(z.m, 0, e) = Entry(b, 0, e) BY <2>5 DEF Entry
  <2>7. o \in Answer(z.m, Append(z.m.got, Entry(z.m, 0, x))) BY <2>1 DEF Also
  <2> DEFINE g == Append(z.m.got, Entry(z.m, 0, x))
  <2>8. g = Append(b.got, Entry(b, 0, x)) BY <2>5, <2>6
  <2>9. o \in Answer(z.m, g) BY <2>7
  <2> HIDE DEF g
  <2>10. o.m.got = g /\ o.m.words = b.words /\ o.m.budget = z.m.budget
    <3>1. o.m.got = g /\ o.m.budget = z.m.budget
      <4> DEFINE y == z.m
      <4>1. Rec(y) BY <1>3
      <4>2. o \in Answer(y, g) BY <2>9
      <4>3. Answering(y, g, o)
        <5> HIDE DEF y
        <5>1. QED BY ONLY <4>1, <4>2, AnswerGiven
      <4>4. QED BY <4>3 DEF Answering
    <3>2. o.m.words = z.m.words BY <1>3, <2>9, AnswerKeeps
    <3>3. QED BY <2>5, <3>1, <3>2
  <2>11. QED BY <2>2, <2>4, <2>8, <2>10 DEF Extracted
<1>6. QED BY <1>3, <1>4, <1>5

\* One number more is gathered.
LEMMA GathersMore ==
  ASSUME NEW b, Rec(b), NEW s, NEW n \in Nat, NEW z, Gathers(b, z, s, n), NEW o,
         IF z.ok THEN Extracted(z.m, o, s[n + 1]) ELSE o = z
  PROVE  Gathers(b, o, s, n + 1)
<1>1. Went(b, z) /\ Rec(z.m) /\ z.ok \in BOOLEAN BY WentRec DEF Gathers
<1>2. CASE z.ok = FALSE BY <1>1, <1>2 DEF Gathers
<1>3. CASE z.ok = TRUE
  <2>1. Extracted(z.m, o, s[n + 1]) BY <1>3
  <2>2. Went(z.m, o) /\ Went(b, o) /\ o.ok \in BOOLEAN
    BY <1>1, <1>3, <2>1, WentThen, WentRec DEF Extracted
  <2>3. ASSUME o.ok = TRUE
        PROVE  \E t : /\ Tallied(o.m, 1, t)
                      /\ o.m.got = [i \in 1..(n + 1) |-> o.m.got[i]]
                      /\ \A i \in 1..(n + 1) : \E x \in {s[i], "wrong_unit"} :
                           /\ o.m.got[i] = {Counter(1, x, t)}
                           /\ o.m.budget = b.budget => x = s[i]
    <3>1. PICK t : /\ Tallied(z.m, 1, t)
                   /\ z.m.got = [i \in 1..n |-> z.m.got[i]]
                   /\ \A i \in 1..n : \E x \in {s[i], "wrong_unit"} :
                        /\ z.m.got[i] = {Counter(1, x, t)}
                        /\ z.m.budget = b.budget => x = s[i] BY <1>3 DEF Gathers
    <3>2. PICK y \in {s[n + 1], "wrong_unit"} :
            /\ o.m.got = Append(z.m.got, Entry(z.m, 0, y))
            /\ o.m.budget = z.m.budget => y = s[n + 1] BY <2>1, <2>3 DEF Extracted
    <3>3. o.m.words = z.m.words BY <2>1, <2>3 DEF Extracted
    <3>4. Tallied(o.m, 1, t) BY <3>1, <3>3, TalliedSame
    <3>5. Entry(z.m, 0, y) = {Counter(1, y, t)}
      <4>1. 1 \in 1..1 /\ 1 - 1 = 0 OBVIOUS
      <4>2. Entry(z.m, 1 - 1, y) = {Counter(1, y, t)} BY <3>1, <4>1 DEF Tallied
      <4>3. QED BY <4>1, <4>2
    <3> DEFINE e == Entry(z.m, 0, y)
    <3>6. o.m.got = [i \in 1..(n + 1) |-> IF i = n + 1 THEN e ELSE z.m.got[i]]
      <4> DEFINE g == z.m.got
      <4>1. g = [i \in 1..n |-> g[i]] BY <3>1
      <4>2. o.m.got = Append(g, e) BY <3>2
      <4>3. Append(g, e) = [i \in 1..(n + 1) |-> IF i = n + 1 THEN e ELSE g[i]]
        <5> HIDE DEF g, e
        <5>1. QED BY <4>1, Appended
      <4>4. QED BY <4>2, <4>3
    <3>7. o.m.budget = b.budget => z.m.budget = b.budget /\ o.m.budget = z.m.budget
      <4>1. b.budget \in Nat /\ z.m.budget \in Nat /\ o.m.budget \in Nat
        BY <1>1, <2>2, WentRec DEF Rec
      <4>2. o.m.budget <= z.m.budget /\ z.m.budget <= b.budget BY <1>1, <2>2 DEF Went, Changed
      <4>3. QED BY <4>1, <4>2
    <3>8. ASSUME NEW i \in 1..(n + 1)
          PROVE  \E x \in {s[i], "wrong_unit"} :
                           /\ o.m.got[i] = {Counter(1, x, t)}
                           /\ o.m.budget = b.budget => x = s[i]
      <4>1. CASE i = n + 1 BY <3>2, <3>5, <3>6, <3>7, <4>1
      <4>2. CASE i # n + 1
        <5>1. i \in 1..n /\ o.m.got[i] = z.m.got[i]
          <6> HIDE DEF e
          <6>1. QED BY <3>6, <4>2
        <5>2. QED BY <3>1, <3>7, <5>1
      <4>3. QED BY <4>1, <4>2
    <3>9. o.m.got = [i \in 1..(n + 1) |-> o.m.got[i]] BY <3>6
    <3>10. QED BY <3>4, <3>8, <3>9
  <2>4. QED BY <2>2, <2>3 DEF Gathers
<1>4. QED BY <1>1, <1>2, <1>3

\* Also of all that may have been gathered before.
LEMMA ExtractionsOut ==
  ASSUME NEW b, BoardType(b), b.product = "saturn", NEW s, NEW n \in Nat, NEW outs,
         \A z \in outs : Gathers(b, z, s, n), NEW item, item = s[n + 1]
  PROVE  \A o \in Extractions(outs, item) : Gathers(b, o, s, n + 1)
<1>1. SUFFICES ASSUME NEW o \in Extractions(outs, item) PROVE Gathers(b, o, s, n + 1) OBVIOUS
<1>2. PICK z \in outs : o \in IF z.ok THEN Extraction(z.m, item) ELSE {z} BY DEF Extractions
<1>3. Rec(b) /\ Gathers(b, z, s, n) BY DEF BoardType
<1>4. Went(b, z) /\ Rec(z.m) /\ z.m.product = "saturn"
  BY <1>3, WentRec DEF Gathers, Went, Changed, Scratch, Fields
<1>5. z.ok => Extracted(z.m, o, item) BY <1>2, <1>4, AlsoOut, TimeOut DEF Extraction
<1>6. IF z.ok THEN Extracted(z.m, o, s[n + 1]) ELSE o = z BY <1>2, <1>5
<1>7. QED BY <1>3, <1>6, GathersMore

\* The block is read, and nothing gathered yet.
LEMMA BlockGathers ==
  ASSUME NEW b, BoardType(b), b.product = "saturn", NEW c \in 1..b.n, NEW s
  PROVE  \A z \in SaturnGetDSPBlock(b, c) : Gathers(b, z, s, 0)
<1>1. SUFFICES ASSUME NEW z \in SaturnGetDSPBlock(b, c) PROVE Gathers(b, z, s, 0) OBVIOUS
<1>2. Went(b, z) /\ (z.ok => z.m.got = <<>> /\ \E t : Tallied(z.m, 1, t)) BY SaturnTallied
<1>3. z.ok => z.m.got = [i \in 1..0 |-> z.m.got[i]] BY <1>2
<1>4. QED BY <1>2, <1>3 DEF Gathers

\* One number, of the counters S.
LEMMA OneIs ==
  ASSUME NEW c, NEW S, NEW t, NEW X, X = Made(c, S, t)
  PROVE  Is(<<X>>, Of(c, S)) /\ Since(<<X>>, t)
<1> DEFINE g == <<X>>
           T == {<<s, c, 0>> : s \in S}
<1>1. (\A w \in X : w.at = t) /\ {Triple(w) : w \in X} = T BY MadeIs
<1>2. DOMAIN g = {1} /\ g[1] = X OBVIOUS
<1>3. Of(c, S) = [i \in {1} |-> T]
  <2>1. Of(c, S) = <<T>> BY DEF Of
  <2> HIDE DEF T
  <2>2. QED BY <2>1
<1>4. Since(g, t) BY <1>1, <1>2 DEF Since
<1>5. Is(g, Of(c, S))
  <2> HIDE DEF g, T
  <2>1. [i \in DOMAIN g |-> {Triple(w) : w \in g[i]}] = [i \in {1} |-> T] BY <1>1, <1>2
  <2>2. QED BY <1>3, <2>1 DEF Is
<1>6. QED BY <1>4, <1>5

\* What was gathered is of the instant of the block.
LEMMA GatheredAt ==
  ASSUME NEW b, NEW s, NEW n \in Nat, NEW z, Gathers(b, z, s, n), z.ok
  PROVE  \E t : Gathered(b, z, s, n, t)
<1>1. PICK t : /\ z.m.got = [i \in 1..n |-> z.m.got[i]]
               /\ \A i \in 1..n : \E x \in {s[i], "wrong_unit"} :
                    /\ z.m.got[i] = {Counter(1, x, t)}
                    /\ z.m.budget = b.budget => x = s[i] BY DEF Gathers
<1>2. DOMAIN z.m.got = 1..n BY <1>1
<1>3. \A x : Counter(1, x, t).at = t BY DEF Counter
<1>4. \A i \in 1..n : \A w \in z.m.got[i] : w.at = t BY <1>1, <1>3
<1>5. z.m.budget = b.budget => \A i \in 1..n : z.m.got[i] = {Counter(1, s[i], t)} BY <1>1
<1>6. QED BY <1>2, <1>4, <1>5 DEF Gathered

\* One number that was gathered is the answer.
LEMMA GatheredOne ==
  ASSUME NEW b, NEW s, NEW item, item = s[1], NEW o, Gathers(b, o, s, 1), NEW S, S = {item}
  PROVE  Trusted(b, o, Of(1, S))
<1>1. ASSUME o.ok
      PROVE  (\E t : Since(o.m.got, t)) /\ (o.m.budget = b.budget => Is(o.m.got, Of(1, S)))
  <2> DEFINE g == o.m.got
             X == g[1]
  <2>0. PICK t : Gathered(b, o, s, 1, t) BY <1>1, GatheredAt
  <2>1. /\ DOMAIN g = 1..1
        /\ \A i \in 1..1 : \A w \in g[i] : w.at = t
        /\ o.m.budget = b.budget => \A i \in 1..1 : g[i] = {Counter(1, s[i], t)}
    BY <2>0 DEF Gathered
  <2>2. Since(g, t) BY <2>1 DEF Since
  <2>3. ASSUME o.m.budget = b.budget PROVE Is(g, Of(1, S))
    <3>1. X = Made(1, S, t) BY <2>1, <2>3 DEF Made
    <3>2. Is(<<X>>, Of(1, S))
      <4> HIDE DEF X
      <4>1. QED BY <3>1, OneIs
    <3>3. DOMAIN g = DOMAIN <<X>> /\ \A i \in DOMAIN <<X>> : g[i] = <<X>>[i] BY <2>1
    <3> DEFINE h == <<X>>
    <3>4. Is(h, Of(1, S)) /\ DOMAIN g = DOMAIN h /\ \A i \in DOMAIN h : g[i] = h[i] BY <3>2, <3>3
    <3> HIDE DEF h, g
    <3>5. [i \in DOMAIN g |-> {Triple(w) : w \in g[i]}] = [i \in DOMAIN h |-> {Triple(w) : w \in h[i]}]
      BY <3>4
    <3>6. QED BY <3>4, <3>5 DEF Is
  <2>4. QED BY <2>2, <2>3
<1>2. QED BY <1>1 DEF Trusted, Gathers

\* A number that is computed from those that were gathered.
LEMMA CombinedOut ==
  ASSUME NEW b, Rec(b), NEW s, NEW n \in Nat, NEW outs, \A z \in outs : Gathers(b, z, s, n),
         NEW S, S = {s[i] : i \in 1..n}, NEW o \in Combined(outs)
  PROVE  Trusted(b, o, Of(1, S))
<1> DEFINE X(z) == UNION {z.m.got[i] : i \in DOMAIN z.m.got}
<1>1. PICK z \in outs : IF z.ok THEN o \in Answer(z.m, <<X(z)>>) ELSE o = z BY DEF Combined, Then
<1>2. Gathers(b, z, s, n) BY <1>1
<1>3. Went(b, z) /\ Rec(z.m) /\ z.ok \in BOOLEAN BY <1>2, WentRec DEF Gathers
<1>4. CASE z.ok = FALSE BY <1>1, <1>3, <1>4 DEF Trusted
<1>5. CASE z.ok = TRUE
  <2> DEFINE Y == X(z)
             g == <<Y>>
  <2>1. o \in Answer(z.m, g) BY <1>1, <1>5
  <2>0. PICK t : Gathered(b, z, s, n, t) BY <1>2, <1>5, GatheredAt
  <2>2. /\ DOMAIN z.m.got = 1..n
        /\ \A i \in 1..n : \A w \in z.m.got[i] : w.at = t
        /\ z.m.budget = b.budget => \A i \in 1..n : z.m.got[i] = {Counter(1, s[i], t)}
    BY <2>0 DEF Gathered
  <2>3. \A w \in Y : w.at = t BY <2>2
  <2>4. Since(g, t)
    <3> HIDE DEF Y
    <3>1. QED BY <2>3 DEF Since
  <2>5. ASSUME z.m.budget = b.budget PROVE Is(g, Of(1, S))
    <3>1. \A i \in 1..n : z.m.got[i] = {Counter(1, s[i], t)} BY <2>2, <2>5
    <3>2. Y = {Counter(1, s[i], t) : i \in 1..n} BY <2>2, <3>1
    <3>3. Made(1, S, t) = {Counter(1, s[i], t) : i \in 1..n} BY DEF Made
    <3>4. Y = Made(1, S, t) BY <3>2, <3>3
    <3> HIDE DEF Y
    <3>5. QED BY <3>4, OneIs
  <2> HIDE DEF g, Y, X
  <2>6. Rec(z.m) BY <1>3
  <2>7. Went(z.m, o) /\ o.m.got = g /\ o.m.budget = z.m.budget
    <3>1. Went(z.m, o) /\ o.m.got = g BY <2>1, <2>6, AnswerOut
    <3> DEFINE y == z.m
    <3>4. Rec(y) BY <2>6
    <3>6. o \in Answer(y, g) BY <2>1
    <3>5. Answering(y, g, o)
      <4> HIDE DEF y
      <4>1. QED BY ONLY <3>4, <3>6, AnswerGiven
    <3>2. o.m.budget = z.m.budget BY <3>5 DEF Answering
    <3>3. QED BY <3>1, <3>2
  <2>8. Went(b, o) BY <1>3, <1>5, <2>7, WentThen
  <2>9. QED BY <2>4, <2>5, <2>7, <2>8 DEF Trusted
<1>6. QED BY <1>3, <1>4, <1>5

\* The real time of a Saturn.
LEMMA RealtimeGathers ==
  ASSUME NEW b, BoardType(b), b.product = "saturn", NEW c \in 1..b.n, NEW s, s = <<"realtime">>
  PROVE  \A o \in SaturnGetRealtime(b, c) : Gathers(b, o, s, 1)
<1> DEFINE T0 == SaturnGetDSPBlock(b, c)
           T1 == Then(T0, SaturnExtractRealtime)
<1>1. \A z \in T0 : Gathers(b, z, s, 0) BY BlockGathers
<1>2. \A o \in T1 : Gathers(b, o, s, 1)
  <2> HIDE DEF T0
  <2>1. SUFFICES ASSUME NEW o \in T1 PROVE Gathers(b, o, s, 1) OBVIOUS
  <2>2. o \in Extractions(T0, "realtime")
    BY DEF Then, Extractions, Extraction, Times, SaturnExtractRealtime
  <2>3. s[0 + 1] = "realtime" OBVIOUS
  <2>4. \A z \in T0 : Gathers(b, z, s, 0) BY <1>1
  <2>5. 0 \in Nat /\ 0 + 1 = 1 OBVIOUS
  <2> HIDE DEF T1
  <2>6. Gathers(b, o, s, 0 + 1) BY <2>2, <2>3, <2>4, <2>5, ExtractionsOut
  <2>7. QED BY <2>5, <2>6
<1>3. QED BY <1>2 DEF SaturnGetRealtime

\* Its trigger livetime.
LEMMA LivetimeGathers ==
  ASSUME NEW b, BoardType(b), b.product = "saturn", NEW c \in 1..b.n, NEW s, s = <<"trigger_livetime">>
  PROVE  \A o \in SaturnGetLivetime(b, c) : Gathers(b, o, s, 1)
<1> DEFINE T0 == SaturnGetDSPBlock(b, c)
           T1 == Then(T0, SaturnExtractTLivetime)
<1>1. \A z \in T0 : Gathers(b, z, s, 0) BY BlockGathers
<1>2. \A o \in T1 : Gathers(b, o, s, 1)
  <2> HIDE DEF T0
  <2>1. SUFFICES ASSUME NEW o \in T1 PROVE Gathers(b, o, s, 1) OBVIOUS
  <2>2. o \in Extractions(T0, "trigger_livetime")
    BY DEF Then, Extractions, Extraction, Times, SaturnExtractTLivetime
  <2>3. s[0 + 1] = "trigger_livetime" OBVIOUS
  <2>4. \A z \in T0 : Gathers(b, z, s, 0) BY <1>1
  <2>5. 0 \in Nat /\ 0 + 1 = 1 OBVIOUS
  <2> HIDE DEF T1
  <2>6. Gathers(b, o, s, 0 + 1) BY <2>2, <2>3, <2>4, <2>5, ExtractionsOut
  <2>7. QED BY <2>5, <2>6
<1>3. QED BY <1>2 DEF SaturnGetLivetime

\* Its energy livetime.
LEMMA ELivetimeGathers ==
  ASSUME NEW b, BoardType(b), b.product = "saturn", NEW c \in 1..b.n, NEW s, s = <<"energy_livetime">>
  PROVE  \A o \in SaturnGetELivetime(b, c) : Gathers(b, o, s, 1)
<1> DEFINE T0 == SaturnGetDSPBlock(b, c)
           T1 == Then(T0, SaturnExtractELivetime)
<1>1. \A z \in T0 : Gathers(b, z, s, 0) BY BlockGathers
<1>2. \A o \in T1 : Gathers(b, o, s, 1)
  <2> HIDE DEF T0
  <2>1. SUFFICES ASSUME NEW o \in T1 PROVE Gathers(b, o, s, 1) OBVIOUS
  <2>2. o \in Extractions(T0, "energy_livetime")
    BY DEF Then, Extractions, Extraction, Times, SaturnExtractELivetime
  <2>3. s[0 + 1] = "energy_livetime" OBVIOUS
  <2>4. \A z \in T0 : Gathers(b, z, s, 0) BY <1>1
  <2>5. 0 \in Nat /\ 0 + 1 = 1 OBVIOUS
  <2> HIDE DEF T1
  <2>6. Gathers(b, o, s, 0 + 1) BY <2>2, <2>3, <2>4, <2>5, ExtractionsOut
  <2>7. QED BY <2>5, <2>6
<1>3. QED BY <1>2 DEF SaturnGetELivetime

\* Its triggers.
LEMMA TriggersGather ==
  ASSUME NEW b, BoardType(b), b.product = "saturn", NEW c \in 1..b.n, NEW s, s = <<"triggers">>
  PROVE  \A o \in SaturnGetTriggers(b, c) : Gathers(b, o, s, 1)
<1> DEFINE T0 == SaturnGetDSPBlock(b, c)
           T1 == Then(T0, SaturnExtractTriggers)
<1>1. \A z \in T0 : Gathers(b, z, s, 0) BY BlockGathers
<1>2. \A o \in T1 : Gathers(b, o, s, 1)
  <2> HIDE DEF T0
  <2>1. SUFFICES ASSUME NEW o \in T1 PROVE Gathers(b, o, s, 1) OBVIOUS
  <2>2. o \in Extractions(T0, "triggers")
    BY DEF Then, Extractions, Extraction, Times, SaturnExtractTriggers
  <2>3. s[0 + 1] = "triggers" OBVIOUS
  <2>4. \A z \in T0 : Gathers(b, z, s, 0) BY <1>1
  <2>5. 0 \in Nat /\ 0 + 1 = 1 OBVIOUS
  <2> HIDE DEF T1
  <2>6. Gathers(b, o, s, 0 + 1) BY <2>2, <2>3, <2>4, <2>5, ExtractionsOut
  <2>7. QED BY <2>5, <2>6
<1>3. QED BY <1>2 DEF SaturnGetTriggers

\* Its events.
LEMMA EventsGather ==
  ASSUME NEW b, BoardType(b), b.product = "saturn", NEW c \in 1..b.n, NEW s, s = <<"events">>
  PROVE  \A o \in SaturnGetMCAEvents(b, c) : Gathers(b, o, s, 1)
<1> DEFINE T0 == SaturnGetDSPBlock(b, c)
           T1 == Then(T0, SaturnExtractEvents)
<1>1. \A z \in T0 : Gathers(b, z, s, 0) BY BlockGathers
<1>2. \A o \in T1 : Gathers(b, o, s, 1)
  <2> HIDE DEF T0
  <2>1. SUFFICES ASSUME NEW o \in T1 PROVE Gathers(b, o, s, 1) OBVIOUS
  <2>2. o \in Extractions(T0, "events")
    BY DEF Then, Extractions, Extraction, Times, SaturnExtractEvents
  <2>3. s[0 + 1] = "events" OBVIOUS
  <2>4. \A z \in T0 : Gathers(b, z, s, 0) BY <1>1
  <2>5. 0 \in Nat /\ 0 + 1 = 1 OBVIOUS
  <2> HIDE DEF T1
  <2>6. Gathers(b, o, s, 0 + 1) BY <2>2, <2>3, <2>4, <2>5, ExtractionsOut
  <2>7. QED BY <2>5, <2>6
<1>3. QED BY <1>2 DEF SaturnGetMCAEvents

\* Its underflows.
LEMMA UnderflowsGather ==
  ASSUME NEW b, BoardType(b), b.product = "saturn", NEW c \in 1..b.n, NEW s, s = <<"underflows">>
  PROVE  \A o \in SaturnGetUnderflows(b, c) : Gathers(b, o, s, 1)
<1> DEFINE T0 == SaturnGetDSPBlock(b, c)
           T1 == Then(T0, SaturnExtractUnders)
<1>1. \A z \in T0 : Gathers(b, z, s, 0) BY BlockGathers
<1>2. \A o \in T1 : Gathers(b, o, s, 1)
  <2> HIDE DEF T0
  <2>1. SUFFICES ASSUME NEW o \in T1 PROVE Gathers(b, o, s, 1) OBVIOUS
  <2>2. o \in Extractions(T0, "underflows")
    BY DEF Then, Extractions, Extraction, Times, SaturnExtractUnders
  <2>3. s[0 + 1] = "underflows" OBVIOUS
  <2>4. \A z \in T0 : Gathers(b, z, s, 0) BY <1>1
  <2>5. 0 \in Nat /\ 0 + 1 = 1 OBVIOUS
  <2> HIDE DEF T1
  <2>6. Gathers(b, o, s, 0 + 1) BY <2>2, <2>3, <2>4, <2>5, ExtractionsOut
  <2>7. QED BY <2>5, <2>6
<1>3. QED BY <1>2 DEF SaturnGetUnderflows

\* Its overflows.
LEMMA OverflowsGather ==
  ASSUME NEW b, BoardType(b), b.product = "saturn", NEW c \in 1..b.n, NEW s, s = <<"overflows">>
  PROVE  \A o \in SaturnGetOverflows(b, c) : Gathers(b, o, s, 1)
<1> DEFINE T0 == SaturnGetDSPBlock(b, c)
           T1 == Then(T0, SaturnExtractOvers)
<1>1. \A z \in T0 : Gathers(b, z, s, 0) BY BlockGathers
<1>2. \A o \in T1 : Gathers(b, o, s, 1)
  <2> HIDE DEF T0
  <2>1. SUFFICES ASSUME NEW o \in T1 PROVE Gathers(b, o, s, 1) OBVIOUS
  <2>2. o \in Extractions(T0, "overflows")
    BY DEF Then, Extractions, Extraction, Times, SaturnExtractOvers
  <2>3. s[0 + 1] = "overflows" OBVIOUS
  <2>4. \A z \in T0 : Gathers(b, z, s, 0) BY <1>1
  <2>5. 0 \in Nat /\ 0 + 1 = 1 OBVIOUS
  <2> HIDE DEF T1
  <2>6. Gathers(b, o, s, 0 + 1) BY <2>2, <2>3, <2>4, <2>5, ExtractionsOut
  <2>7. QED BY <2>5, <2>6
<1>3. QED BY <1>2 DEF SaturnGetOverflows

\* All seven, from one block.
LEMMA StatisticsGather ==
  ASSUME NEW b, BoardType(b), b.product = "saturn", NEW c \in 1..b.n, NEW s, s = <<"realtime", "trigger_livetime", "energy_livetime", "triggers", "events", "underflows", "overflows">>
  PROVE  \A o \in SaturnStatistics(b, c) : Gathers(b, o, s, 7)
<1> DEFINE T0 == SaturnGetDSPBlock(b, c)
           T1 == Then(T0, SaturnExtractRealtime)
           T2 == Then(T1, SaturnExtractTLivetime)
           T3 == Then(T2, SaturnExtractELivetime)
           T4 == Then(T3, SaturnExtractTriggers)
           T5 == Then(T4, SaturnExtractEvents)
           T6 == Then(T5, SaturnExtractUnders)
           T7 == Then(T6, SaturnExtractOvers)
<1>1. \A z \in T0 : Gathers(b, z, s, 0) BY BlockGathers
<1>2. \A o \in T1 : Gathers(b, o, s, 1)
  <2> HIDE DEF T0
  <2>1. SUFFICES ASSUME NEW o \in T1 PROVE Gathers(b, o, s, 1) OBVIOUS
  <2>2. o \in Extractions(T0, "realtime")
    BY DEF Then, Extractions, Extraction, Times, SaturnExtractRealtime
  <2>3. s[0 + 1] = "realtime" OBVIOUS
  <2>4. \A z \in T0 : Gathers(b, z, s, 0) BY <1>1
  <2>5. 0 \in Nat /\ 0 + 1 = 1 OBVIOUS
  <2> HIDE DEF T1
  <2>6. Gathers(b, o, s, 0 + 1) BY <2>2, <2>3, <2>4, <2>5, ExtractionsOut
  <2>7. QED BY <2>5, <2>6
<1>3. \A o \in T2 : Gathers(b, o, s, 2)
  <2> HIDE DEF T1
  <2>1. SUFFICES ASSUME NEW o \in T2 PROVE Gathers(b, o, s, 2) OBVIOUS
  <2>2. o \in Extractions(T1, "trigger_livetime")
    BY DEF Then, Extractions, Extraction, Times, SaturnExtractTLivetime
  <2>3. s[1 + 1] = "trigger_livetime" OBVIOUS
  <2>4. \A z \in T1 : Gathers(b, z, s, 1) BY <1>2
  <2>5. 1 \in Nat /\ 1 + 1 = 2 OBVIOUS
  <2> HIDE DEF T2
  <2>6. Gathers(b, o, s, 1 + 1) BY <2>2, <2>3, <2>4, <2>5, ExtractionsOut
  <2>7. QED BY <2>5, <2>6
<1>4. \A o \in T3 : Gathers(b, o, s, 3)
  <2> HIDE DEF T2
  <2>1. SUFFICES ASSUME NEW o \in T3 PROVE Gathers(b, o, s, 3) OBVIOUS
  <2>2. o \in Extractions(T2, "energy_livetime")
    BY DEF Then, Extractions, Extraction, Times, SaturnExtractELivetime
  <2>3. s[2 + 1] = "energy_livetime" OBVIOUS
  <2>4. \A z \in T2 : Gathers(b, z, s, 2) BY <1>3
  <2>5. 2 \in Nat /\ 2 + 1 = 3 OBVIOUS
  <2> HIDE DEF T3
  <2>6. Gathers(b, o, s, 2 + 1) BY <2>2, <2>3, <2>4, <2>5, ExtractionsOut
  <2>7. QED BY <2>5, <2>6
<1>5. \A o \in T4 : Gathers(b, o, s, 4)
  <2> HIDE DEF T3
  <2>1. SUFFICES ASSUME NEW o \in T4 PROVE Gathers(b, o, s, 4) OBVIOUS
  <2>2. o \in Extractions(T3, "triggers")
    BY DEF Then, Extractions, Extraction, Times, SaturnExtractTriggers
  <2>3. s[3 + 1] = "triggers" OBVIOUS
  <2>4. \A z \in T3 : Gathers(b, z, s, 3) BY <1>4
  <2>5. 3 \in Nat /\ 3 + 1 = 4 OBVIOUS
  <2> HIDE DEF T4
  <2>6. Gathers(b, o, s, 3 + 1) BY <2>2, <2>3, <2>4, <2>5, ExtractionsOut
  <2>7. QED BY <2>5, <2>6
<1>6. \A o \in T5 : Gathers(b, o, s, 5)
  <2> HIDE DEF T4
  <2>1. SUFFICES ASSUME NEW o \in T5 PROVE Gathers(b, o, s, 5) OBVIOUS
  <2>2. o \in Extractions(T4, "events")
    BY DEF Then, Extractions, Extraction, Times, SaturnExtractEvents
  <2>3. s[4 + 1] = "events" OBVIOUS
  <2>4. \A z \in T4 : Gathers(b, z, s, 4) BY <1>5
  <2>5. 4 \in Nat /\ 4 + 1 = 5 OBVIOUS
  <2> HIDE DEF T5
  <2>6. Gathers(b, o, s, 4 + 1) BY <2>2, <2>3, <2>4, <2>5, ExtractionsOut
  <2>7. QED BY <2>5, <2>6
<1>7. \A o \in T6 : Gathers(b, o, s, 6)
  <2> HIDE DEF T5
  <2>1. SUFFICES ASSUME NEW o \in T6 PROVE Gathers(b, o, s, 6) OBVIOUS
  <2>2. o \in Extractions(T5, "underflows")
    BY DEF Then, Extractions, Extraction, Times, SaturnExtractUnders
  <2>3. s[5 + 1] = "underflows" OBVIOUS
  <2>4. \A z \in T5 : Gathers(b, z, s, 5) BY <1>6
  <2>5. 5 \in Nat /\ 5 + 1 = 6 OBVIOUS
  <2> HIDE DEF T6
  <2>6. Gathers(b, o, s, 5 + 1) BY <2>2, <2>3, <2>4, <2>5, ExtractionsOut
  <2>7. QED BY <2>5, <2>6
<1>8. \A o \in T7 : Gathers(b, o, s, 7)
  <2> HIDE DEF T6
  <2>1. SUFFICES ASSUME NEW o \in T7 PROVE Gathers(b, o, s, 7) OBVIOUS
  <2>2. o \in Extractions(T6, "overflows")
    BY DEF Then, Extractions, Extraction, Times, SaturnExtractOvers
  <2>3. s[6 + 1] = "overflows" OBVIOUS
  <2>4. \A z \in T6 : Gathers(b, z, s, 6) BY <1>7
  <2>5. 6 \in Nat /\ 6 + 1 = 7 OBVIOUS
  <2> HIDE DEF T7
  <2>6. Gathers(b, o, s, 6 + 1) BY <2>2, <2>3, <2>4, <2>5, ExtractionsOut
  <2>7. QED BY <2>5, <2>6
<1>9. QED BY <1>8 DEF SaturnStatistics

\* What the total of output events is computed from.
LEMMA TotalPartsGather ==
  ASSUME NEW b, BoardType(b), b.product = "saturn", NEW c \in 1..b.n, NEW s, s = <<"events", "underflows", "overflows">>
  PROVE  \A o \in TotalParts(b, c) : Gathers(b, o, s, 3)
<1> DEFINE T0 == SaturnGetDSPBlock(b, c)
           T1 == Then(T0, SaturnExtractEvents)
           T2 == Then(T1, SaturnExtractUnders)
           T3 == Then(T2, SaturnExtractOvers)
<1>1. \A z \in T0 : Gathers(b, z, s, 0) BY BlockGathers
<1>2. \A o \in T1 : Gathers(b, o, s, 1)
  <2> HIDE DEF T0
  <2>1. SUFFICES ASSUME NEW o \in T1 PROVE Gathers(b, o, s, 1) OBVIOUS
  <2>2. o \in Extractions(T0, "events")
    BY DEF Then, Extractions, Extraction, Times, SaturnExtractEvents
  <2>3. s[0 + 1] = "events" OBVIOUS
  <2>4. \A z \in T0 : Gathers(b, z, s, 0) BY <1>1
  <2>5. 0 \in Nat /\ 0 + 1 = 1 OBVIOUS
  <2> HIDE DEF T1
  <2>6. Gathers(b, o, s, 0 + 1) BY <2>2, <2>3, <2>4, <2>5, ExtractionsOut
  <2>7. QED BY <2>5, <2>6
<1>3. \A o \in T2 : Gathers(b, o, s, 2)
  <2> HIDE DEF T1
  <2>1. SUFFICES ASSUME NEW o \in T2 PROVE Gathers(b, o, s, 2) OBVIOUS
  <2>2. o \in Extractions(T1, "underflows")
    BY DEF Then, Extractions, Extraction, Times, SaturnExtractUnders
  <2>3. s[1 + 1] = "underflows" OBVIOUS
  <2>4. \A z \in T1 : Gathers(b, z, s, 1) BY <1>2
  <2>5. 1 \in Nat /\ 1 + 1 = 2 OBVIOUS
  <2> HIDE DEF T2
  <2>6. Gathers(b, o, s, 1 + 1) BY <2>2, <2>3, <2>4, <2>5, ExtractionsOut
  <2>7. QED BY <2>5, <2>6
<1>4. \A o \in T3 : Gathers(b, o, s, 3)
  <2> HIDE DEF T2
  <2>1. SUFFICES ASSUME NEW o \in T3 PROVE Gathers(b, o, s, 3) OBVIOUS
  <2>2. o \in Extractions(T2, "overflows")
    BY DEF Then, Extractions, Extraction, Times, SaturnExtractOvers
  <2>3. s[2 + 1] = "overflows" OBVIOUS
  <2>4. \A z \in T2 : Gathers(b, z, s, 2) BY <1>3
  <2>5. 2 \in Nat /\ 2 + 1 = 3 OBVIOUS
  <2> HIDE DEF T3
  <2>6. Gathers(b, o, s, 2 + 1) BY <2>2, <2>3, <2>4, <2>5, ExtractionsOut
  <2>7. QED BY <2>5, <2>6
<1>5. QED BY <1>4 DEF TotalParts

\* What the input count rate is computed from.
LEMMA ICRPartsGather ==
  ASSUME NEW b, BoardType(b), b.product = "saturn", NEW c \in 1..b.n, NEW s, s = <<"trigger_livetime", "triggers">>
  PROVE  \A o \in ICRParts(b, c) : Gathers(b, o, s, 2)
<1> DEFINE T0 == SaturnGetDSPBlock(b, c)
           T1 == Then(T0, SaturnExtractTLivetime)
           T2 == Then(T1, SaturnExtractTriggers)
<1>1. \A z \in T0 : Gathers(b, z, s, 0) BY BlockGathers
<1>2. \A o \in T1 : Gathers(b, o, s, 1)
  <2> HIDE DEF T0
  <2>1. SUFFICES ASSUME NEW o \in T1 PROVE Gathers(b, o, s, 1) OBVIOUS
  <2>2. o \in Extractions(T0, "trigger_livetime")
    BY DEF Then, Extractions, Extraction, Times, SaturnExtractTLivetime
  <2>3. s[0 + 1] = "trigger_livetime" OBVIOUS
  <2>4. \A z \in T0 : Gathers(b, z, s, 0) BY <1>1
  <2>5. 0 \in Nat /\ 0 + 1 = 1 OBVIOUS
  <2> HIDE DEF T1
  <2>6. Gathers(b, o, s, 0 + 1) BY <2>2, <2>3, <2>4, <2>5, ExtractionsOut
  <2>7. QED BY <2>5, <2>6
<1>3. \A o \in T2 : Gathers(b, o, s, 2)
  <2> HIDE DEF T1
  <2>1. SUFFICES ASSUME NEW o \in T2 PROVE Gathers(b, o, s, 2) OBVIOUS
  <2>2. o \in Extractions(T1, "triggers")
    BY DEF Then, Extractions, Extraction, Times, SaturnExtractTriggers
  <2>3. s[1 + 1] = "triggers" OBVIOUS
  <2>4. \A z \in T1 : Gathers(b, z, s, 1) BY <1>2
  <2>5. 1 \in Nat /\ 1 + 1 = 2 OBVIOUS
  <2> HIDE DEF T2
  <2>6. Gathers(b, o, s, 1 + 1) BY <2>2, <2>3, <2>4, <2>5, ExtractionsOut
  <2>7. QED BY <2>5, <2>6
<1>4. QED BY <1>3 DEF ICRParts

\* What the output count rate is computed from.
LEMMA OCRPartsGather ==
  ASSUME NEW b, BoardType(b), b.product = "saturn", NEW c \in 1..b.n, NEW s, s = <<"realtime", "events", "underflows", "overflows">>
  PROVE  \A o \in OCRParts(b, c) : Gathers(b, o, s, 4)
<1> DEFINE T0 == SaturnGetDSPBlock(b, c)
           T1 == Then(T0, SaturnExtractRealtime)
           T2 == Then(T1, SaturnExtractEvents)
           T3 == Then(T2, SaturnExtractUnders)
           T4 == Then(T3, SaturnExtractOvers)
<1>1. \A z \in T0 : Gathers(b, z, s, 0) BY BlockGathers
<1>2. \A o \in T1 : Gathers(b, o, s, 1)
  <2> HIDE DEF T0
  <2>1. SUFFICES ASSUME NEW o \in T1 PROVE Gathers(b, o, s, 1) OBVIOUS
  <2>2. o \in Extractions(T0, "realtime")
    BY DEF Then, Extractions, Extraction, Times, SaturnExtractRealtime
  <2>3. s[0 + 1] = "realtime" OBVIOUS
  <2>4. \A z \in T0 : Gathers(b, z, s, 0) BY <1>1
  <2>5. 0 \in Nat /\ 0 + 1 = 1 OBVIOUS
  <2> HIDE DEF T1
  <2>6. Gathers(b, o, s, 0 + 1) BY <2>2, <2>3, <2>4, <2>5, ExtractionsOut
  <2>7. QED BY <2>5, <2>6
<1>3. \A o \in T2 : Gathers(b, o, s, 2)
  <2> HIDE DEF T1
  <2>1. SUFFICES ASSUME NEW o \in T2 PROVE Gathers(b, o, s, 2) OBVIOUS
  <2>2. o \in Extractions(T1, "events")
    BY DEF Then, Extractions, Extraction, Times, SaturnExtractEvents
  <2>3. s[1 + 1] = "events" OBVIOUS
  <2>4. \A z \in T1 : Gathers(b, z, s, 1) BY <1>2
  <2>5. 1 \in Nat /\ 1 + 1 = 2 OBVIOUS
  <2> HIDE DEF T2
  <2>6. Gathers(b, o, s, 1 + 1) BY <2>2, <2>3, <2>4, <2>5, ExtractionsOut
  <2>7. QED BY <2>5, <2>6
<1>4. \A o \in T3 : Gathers(b, o, s, 3)
  <2> HIDE DEF T2
  <2>1. SUFFICES ASSUME NEW o \in T3 PROVE Gathers(b, o, s, 3) OBVIOUS
  <2>2. o \in Extractions(T2, "underflows")
    BY DEF Then, Extractions, Extraction, Times, SaturnExtractUnders
  <2>3. s[2 + 1] = "underflows" OBVIOUS
  <2>4. \A z \in T2 : Gathers(b, z, s, 2) BY <1>3
  <2>5. 2 \in Nat /\ 2 + 1 = 3 OBVIOUS
  <2> HIDE DEF T3
  <2>6. Gathers(b, o, s, 2 + 1) BY <2>2, <2>3, <2>4, <2>5, ExtractionsOut
  <2>7. QED BY <2>5, <2>6
<1>5. \A o \in T4 : Gathers(b, o, s, 4)
  <2> HIDE DEF T3
  <2>1. SUFFICES ASSUME NEW o \in T4 PROVE Gathers(b, o, s, 4) OBVIOUS
  <2>2. o \in Extractions(T3, "overflows")
    BY DEF Then, Extractions, Extraction, Times, SaturnExtractOvers
  <2>3. s[3 + 1] = "overflows" OBVIOUS
  <2>4. \A z \in T3 : Gathers(b, z, s, 3) BY <1>4
  <2>5. 3 \in Nat /\ 3 + 1 = 4 OBVIOUS
  <2> HIDE DEF T4
  <2>6. Gathers(b, o, s, 3 + 1) BY <2>2, <2>3, <2>4, <2>5, ExtractionsOut
  <2>7. QED BY <2>5, <2>6
<1>6. QED BY <1>5 DEF OCRParts

\* An answer that is computed is trusted as far as what it is computed from.
LEMMA AnswerTrusted ==
  ASSUME NEW b, Rec(b), NEW z, Went(b, z), z.ok = TRUE, NEW x, NEW P, TrustedAnswer(b, x, z, P),
         NEW o \in Answer(z.m, x)
  PROVE  Trusted(b, o, P)
<1> DEFINE y == z.m
<1>1. Rec(y) /\ o \in Answer(y, x) BY WentRec
<1> HIDE DEF y
<1>2. Went(y, o) /\ o.m.got = x BY <1>1, AnswerOut
<1>3. o.m.budget = y.budget BY <1>1, AnswerOut
<1>4. Went(b, o) BY <1>2, WentThen DEF y
<1>5. QED BY <1>2, <1>3, <1>4 DEF Trusted, TrustedAnswer, y

\* Numbers that are made of their own counters are those asked for.
LEMMA RowClean ==
  ASSUME NEW b, b.n = 1, NEW wd \in {7, 9}, NEW x, DOMAIN x = 1..wd, NEW t,
         MadeRow(b, 1, t, wd, x)
  PROVE  Is(x, RowsOf(b, wd))
<1> DEFINE N == 1..wd
           P == RowsOf(b, wd)
<1>1. b.n * wd = wd /\ \A i \in N : 1 + ((i - 1) \div wd) = 1 /\ 1 + ((i - 1) % wd) = i
  <2>1. CASE wd = 7 BY <2>1
  <2>2. CASE wd = 9 BY <2>2
  <2>3. QED BY <2>1, <2>2
<1>2. P = [i \in N |-> From(b, 1 + ((i - 1) \div wd), NineNames[1 + ((i - 1) % wd)])]
  BY <1>1 DEF RowsOf
<1>3. \A i \in N : P[i] = From(b, 1, NineNames[i]) BY <1>1, <1>2
<1>4. \A i \in N : P[i] = {<<s, 1, 0>> : s \in Sources(b, NineNames[i])} BY <1>3 DEF From
<1>5. P = [i \in N |-> P[i]] BY <1>2
<1> HIDE DEF P, N
<1>6. \A i \in N : {Triple(w) : w \in x[i]} = P[i] BY <1>4, MadeIs DEF N, MadeRow
<1>7. [i \in DOMAIN x |-> {Triple(w) : w \in x[i]}] = P BY <1>5, <1>6 DEF N
<1>8. QED BY <1>7 DEF Is, P

\* The statistics of a Saturn, a row of seven numbers or of nine.
LEMMA SaturnStatisticsOut ==
  ASSUME NEW b, BoardType(b), b.product = "saturn", NEW c \in 1..b.n, NEW wd, NEW o,
         \/ wd = 7 /\ o \in SaturnGetModuleStatistics(b, c)
         \/ wd = 9 /\ o \in SaturnGetModuleStatistics2(b, c)
  PROVE  Trusted(b, o, RowsOf(b, wd))
<1> DEFINE s == <<"realtime", "trigger_livetime", "energy_livetime", "triggers", "events", "underflows", "overflows">>
           X(g) == Row(wd, g[1], g[2], g[3], g[4], g[5], g[6], g[7])
<1>1. PICK z \in SaturnStatistics(b, c) : IF z.ok THEN o \in Answer(z.m, X(z.m.got)) ELSE o = z
  BY DEF SaturnGetModuleStatistics, SaturnGetModuleStatistics2, Then, Row
<1>2. Gathers(b, z, s, 7)
  <2> DEFINE r == s
  <2>1. r = s OBVIOUS
  <2> HIDE DEF r
  <2>2. Gathers(b, z, r, 7) BY <1>1, <2>1, StatisticsGather
  <2>3. QED BY <2>2 DEF r
<1>3. Rec(b) /\ b.n = 1 /\ wd \in {7, 9} BY DEF BoardType, Big
<1>4. Went(b, z) /\ Rec(z.m) /\ z.ok \in BOOLEAN BY <1>2, WentRec DEF Gathers
<1>5. CASE z.ok = FALSE BY <1>1, <1>4, <1>5 DEF Trusted
<1>6. CASE z.ok = TRUE
  <2> DEFINE g == z.m.got
             x == X(g)
  <2>1. PICK t : Gathered(b, z, s, 7, t)
    <3> HIDE DEF s
    <3>1. QED BY <1>2, <1>6, GatheredAt
  <2>2. \A i \in 1..7 : \A w \in g[i] : w.at = t BY <2>1 DEF Gathered
  <2>3. Since(x, t)
    <3> HIDE DEF g
    <3>1. QED BY <2>2 DEF Since, Row, Seven, Nine
  <2>4. ASSUME z.m.budget = b.budget PROVE Is(x, RowsOf(b, wd))
    <3>1. \A i \in 1..7 : g[i] = {Counter(1, s[i], t)} BY <2>1, <2>4 DEF Gathered
    <3>2. /\ g[1] = {Counter(1, "realtime", t)} /\ g[2] = {Counter(1, "trigger_livetime", t)}
          /\ g[3] = {Counter(1, "energy_livetime", t)} /\ g[4] = {Counter(1, "triggers", t)}
          /\ g[5] = {Counter(1, "events", t)} /\ g[6] = {Counter(1, "underflows", t)}
          /\ g[7] = {Counter(1, "overflows", t)} BY <3>1
    <3>3. g[3] = Made(1, Sources(b, "energy_livetime"), t) BY <3>2 DEF Sources, Made
    <3>4. b.product # "udxp" OBVIOUS
    <3>5. DOMAIN x = 1..wd
      <4>1. CASE wd = 7 BY <4>1 DEF Row, Seven
      <4>2. CASE wd = 9 BY <4>2 DEF Row, Nine
      <4>3. QED BY <1>3, <4>1, <4>2
    <3>6. x = Row(wd, g[1], g[2], g[3], g[4], g[5], g[6], g[7]) OBVIOUS
    <3> HIDE DEF g, x
    <3>7. MadeRow(b, 1, t, wd, x) BY <1>3, <3>2, <3>3, <3>4, <3>6, RowIs
    <3>8. QED BY <1>3, <3>5, <3>6, <3>7, RowClean
  <2> HIDE DEF x
  <2>5. TrustedAnswer(b, x, z, RowsOf(b, wd)) BY <2>3, <2>4 DEF TrustedAnswer
  <2>6. QED BY <1>1, <1>3, <1>4, <1>6, <2>5, AnswerTrusted DEF x
<1>7. QED BY <1>4, <1>5, <1>6

\* The board a call left is the board it found.
LEMMA SameItem ==
  ASSUME NEW b, NEW l, Changed(b, l, Scratch), NEW c, NEW mem \in Memories, NEW a
  PROVE  Item(l, c, mem, a) = Item(b, c, mem, a)
  BY SameWord DEF Item

\* The spectrum of a Saturn is of one instant.
LEMMA SaturnBinsOut ==
  ASSUME NEW b, BoardType(b), b.product = "saturn", NEW c, NEW o \in SaturnGetMCAData(b, c)
  PROVE  Sends(b, o, SaturnBins(b, c), "once")
<1> DEFINE a == b.val[c]["mca_start_address"]
           len == b.val[c]["number_mca_channels"]
           outs == DxpReadMemory(b, c, "spectrum", a, len)
<1>1. o \in Delivered(outs) BY DEF SaturnGetMCAData
<1>2. Rec(b) /\ "spectrum" \in Memories /\ "spectrum" \in {"spectrum", "data"}
  BY DEF BoardType, Memories
<1>3. \A z \in outs : AtOnce(b, c, "spectrum", a, len, z) BY <1>2, SaturnMemoryOut
<1> HIDE DEF outs, a, len
<1>4. Sends(b, o, Words(b, c, "spectrum", a, len), "once") BY <1>1, <1>2, <1>3, DeliveredOnce
<1>5. QED BY <1>4 DEF SaturnBins, a, len

\* The SCAs of a Saturn are of one instant.
LEMMA SaturnScasOut ==
  ASSUME NEW b, BoardType(b), b.product = "saturn", NEW c \in 1..b.n, NEW o \in SaturnGetSCAData(b, c)
  PROVE  Trusted(b, o, SaturnScas(b, c))
<1> DEFINE n == b.val[c]["number_of_scas"]
           R(l, a) == Pairs(DxpReadMemory(l, c, "data", a, 2 * n))
<1>1. Rec(b) /\ n \in Nat /\ "data" \in Memories /\ "data" \in {"spectrum", "data"}
  BY DEF BoardType, ValType, Memories
<1>2. CASE 2 * n = 0
  <2>1. o \in Refused(b) BY <1>2 DEF SaturnGetSCAData
  <2>2. QED BY <1>1, <2>1, RefusedOut DEF Trusted
<1>3. CASE 2 * n # 0
  <2>1. PICK z \in Parameter(b) : o \in IF z.ok THEN R(z.m, ScaMemBase)
                                        ELSE R(z.m, 0) \cup R(z.m, ScaMemBase)
    BY <1>3 DEF SaturnGetSCAData
  <2>2. Looked(b, z) /\ Went(b, z) /\ Rec(z.m) /\ Changed(b, z.m, Scratch)
    BY <1>1, <2>1, ParameterOut
  <2>3. PICK a : o \in R(z.m, a) /\ (z.ok => a = ScaMemBase) BY <2>1
  <2>4. z.m.product = "saturn" BY <2>2 DEF Changed, Scratch, Fields
  <2> DEFINE D == DxpReadMemory(z.m, c, "data", a, 2 * n)
  <2>5. \A y \in D : AtOnce(z.m, c, "data", a, 2 * n, y) BY <1>1, <2>2, <2>4, SaturnMemoryOut
  <2>6. o \in Pairs(D) BY <2>3
  <2> HIDE DEF D, n, R
  <2>7. Sends(z.m, o, PairsOf(z.m, c, "data", a, n), "once") BY <1>1, <2>2, <2>5, <2>6, PairsOnce
  <2>8. Went(b, o) BY <1>1, <2>2, <2>7, ChangedTwice DEF Sends, Went
  <2>9. o.ok => \E t : Since(o.m.got, t) BY <2>7 DEF Sends, Timed
  <2>10. ASSUME o.ok, o.m.budget = b.budget PROVE Is(o.m.got, SaturnScas(b, c))
    <3>1. z.m.budget = b.budget
      <4>1. o.m.budget <= z.m.budget /\ z.m.budget <= b.budget
        BY <2>2, <2>7 DEF Sends, Went, Changed
      <4>2. z.m.budget \in Nat /\ b.budget \in Nat BY <1>1, <2>2 DEF Rec
      <4>3. QED BY <2>10, <4>1, <4>2
    <3>2. z.ok
      <4>1. b.budget \in Nat BY <1>1 DEF Rec
      <4>2. QED BY <2>2, <3>1, <4>1 DEF Looked
    <3>3. \A x : Item(z.m, c, "data", x) = Item(b, c, "data", x) BY <1>1, <2>2, SameItem
    <3>4. PairsOf(z.m, c, "data", a, n) = PairsOf(b, c, "data", a, n) BY <3>3 DEF PairsOf
    <3>5. Is(o.m.got, PairsOf(z.m, c, "data", a, n)) BY <2>7, <2>10 DEF Sends
    <3>6. QED BY <2>3, <3>2, <3>4, <3>5 DEF SaturnScas, n
  <2>11. QED BY <2>8, <2>9, <2>10 DEF Trusted
<1>4. QED BY <1>2, <1>3

\* A readout that may find an error of the run.
LEMMA DeliveredOrReported ==
  ASSUME NEW b, Rec(b), NEW c, NEW mem \in Memories, NEW a, NEW len, NEW outs,
         \A z \in outs : Reported(b, z) \/ AtOnce(b, c, mem, a, len, z), NEW o \in Delivered(outs)
  PROVE  Reported(b, o) \/ Sends(b, o, Words(b, c, mem, a, len), "once")
<1>1. PICK z \in outs : o \in Delivered({z}) BY DEF Delivered, Then
<1>2. CASE Reported(b, z)
  <2>1. z.ok = FALSE BY <1>2 DEF Reported
  <2>2. o = z BY <1>1, <2>1 DEF Delivered, Then
  <2>3. QED BY <1>2, <2>2
<1>3. CASE AtOnce(b, c, mem, a, len, z)
  <2> DEFINE Z == {z}
  <2>1. o \in Delivered(Z) /\ \A y \in Z : AtOnce(b, c, mem, a, len, y) BY <1>1, <1>3
  <2> HIDE DEF Z
  <2>2. QED BY <2>1, DeliveredOnce
<1>4. QED BY <1>2, <1>3

\* Its parameters are one block, unless an error is reported.
LEMMA SaturnParamsSend ==
  ASSUME NEW b, Rec(b), b.product = "saturn", NEW c, NEW o \in SaturnGetParamData(b, c)
  PROVE  Reported(b, o) \/ Sends(b, o, Params(b, c), "once")
<1> DEFINE outs == DxpDoReadout(b, c, "params")
<1>1. \A z \in outs : Reported(b, z) \/ AtOnce(b, c, "parameters", 0, 2, z) BY SaturnParamsReadout
<1>2. o \in Delivered(outs) /\ "parameters" \in Memories BY DEF SaturnGetParamData, Memories
<1> HIDE DEF outs
<1>3. Reported(b, o) \/ Sends(b, o, Words(b, c, "parameters", 0, 2), "once")
  BY <1>1, <1>2, DeliveredOrReported
<1>4. QED BY <1>3 DEF Params

\* So is its baseline.
LEMMA SaturnBaselineSends ==
  ASSUME NEW b, Rec(b), b.product = "saturn", NEW c, NEW o \in SaturnGetBaseline(b, c)
  PROVE  Reported(b, o) \/ Sends(b, o, Histograms(b, c), "once")
<1> DEFINE D(l) == DxpDoReadout(l, c, "baseline")
<1>1. PICK z \in DxpNbase(b) : IF z.ok THEN o \in Delivered(D(z.m)) ELSE o = z
  BY DEF SaturnGetBaseline, Then
<1>2. Went(b, z) /\ Rec(z.m) /\ z.ok \in BOOLEAN /\ Changed(b, z.m, Scratch)
  BY <1>1, NbaseOut, WentRec DEF Numbered
<1>3. CASE z.ok = FALSE BY <1>1, <1>2, <1>3 DEF Sends
<1>4. CASE z.ok = TRUE
  <2> DEFINE l == z.m
             outs == D(l)
  <2>1. Rec(l) /\ l.product = "saturn" /\ o \in Delivered(outs)
    BY <1>1, <1>2, <1>4 DEF Changed, Scratch, Fields
  <2> HIDE DEF l
  <2>2. \A y \in outs : Reported(l, y) \/ AtOnce(l, c, "baseline", 0, BaseLen, y)
    BY <2>1, SaturnBaselineReadout
  <2>3. "baseline" \in Memories BY DEF Memories
  <2> HIDE DEF outs, D
  <2>4. Reported(l, o) \/ Sends(l, o, Words(l, c, "baseline", 0, BaseLen), "once")
    BY <2>1, <2>2, <2>3, DeliveredOrReported
  <2>5. Words(l, c, "baseline", 0, BaseLen) = Histograms(b, c)
    <3>1. \A x : Item(l, c, "baseline", x) = Item(b, c, "baseline", x) BY <1>2, <2>3, SameItem DEF l
    <3>2. QED BY <3>1 DEF Words, Histograms
  <2> DEFINE H == Histograms(b, c)
  <2>6. CASE Reported(l, o) BY <1>2, <2>6, ReportedThen DEF l
  <2>7. CASE Sends(l, o, H, "once")
    <3> HIDE DEF H
    <3>1. Sends(b, o, H, "once") BY <1>2, <1>4, <2>7, SendsThen DEF l
    <3>2. QED BY <3>1 DEF H
  <2>8. QED BY <2>4, <2>5, <2>6, <2>7
<1>5. QED BY <1>2, <1>3, <1>4

\* What is read of a Saturn, by each name.
LEMMA SaturnWantedIs ==
  ASSUME NEW b, NEW c
  PROVE  /\ \A n \in ModuleCounters : SaturnWanted(b, c, n) = OneOf(b, c, n)
         /\ SaturnWanted(b, c, "module_statistics") = SevenOf(b)
         /\ SaturnWanted(b, c, "module_statistics_2") = NineOf(b)
         /\ SaturnWanted(b, c, "mca") = SaturnBins(b, c)
         /\ SaturnWanted(b, c, "sca") = SaturnScas(b, c)
         /\ SaturnWanted(b, c, "baseline") = Histograms(b, c)
         /\ SaturnWanted(b, c, "values") = Params(b, c)
<1>1. \A n \in Blocks : n \notin ModuleCounters BY BlocksApart
<1>2. QED BY <1>1 DEF SaturnWanted, OneOf, Blocks

\* A trusted answer is what a Saturn says.
LEMMA TrustedConfides ==
  ASSUME NEW b, NEW c, NEW n, NEW o, NEW P, Trusted(b, o, P),
         n \in Promising => P = SaturnWanted(b, c, n), n # "mca", n # "mca_length"
  PROVE  Confides(b, c, n, o)
  BY DEF Confides, Trusted

\* Data that are sent are.
LEMMA SendsConfides ==
  ASSUME NEW b, NEW c, NEW n, NEW o, NEW P, Sends(b, o, P, "once"),
         P = SaturnWanted(b, c, n), n = "mca" => P = SaturnBins(b, c), n # "mca_length"
  PROVE  Confides(b, c, n, o)
  BY DEF Confides, Sends, Timed

\* An error that is reported is.
LEMMA ReportedConfides ==
  ASSUME NEW b, NEW c, NEW n \in {"baseline", "values"}, NEW o, Reported(b, o)
  PROVE  Confides(b, c, n, o)
  BY DEF Confides, Reported

\* A number is.
LEMMA NumberedConfides ==
  ASSUME NEW b, NEW c, NEW n, NEW o, NEW x, Numbered(b, o, x), n \notin Promising,
         n = "mca_length" => x = Length(b, c)
  PROVE  Confides(b, c, n, o)
<1>1. o.ok => \E t : Since(o.m.got, t) BY NumberedOnce
<1>2. n # "mca" BY DEF Promising
<1>3. Went(b, o) BY DEF Numbered
<1>4. ASSUME n = "mca_length", o.ok PROVE \E t : o.m.got = <<{Figure(Length(b, c), t)}>>
  BY <1>4 DEF Numbered
<1>5. QED BY <1>1, <1>2, <1>3, <1>4 DEF Confides

\* Each number of a run of a Saturn is computed from its own counters.
LEMMA SaturnCountersOut ==
  ASSUME NEW b, BoardType(b), b.product = "saturn", NEW c \in 1..b.n, NEW n \in ModuleCounters,
         NEW o \in SaturnGetRunData(b, c, n)
  PROVE  Trusted(b, o, <<From(b, c, n)>>)
<1>1. Rec(b) /\ c = 1 /\ b.product # "udxp" /\ b.product # "stj" BY DEF BoardType, Big
<1>2. CASE n = "realtime"
  <2> DEFINE s == <<"realtime">>
             S == {"realtime"}
  <2>1. o \in SaturnGetRealtime(b, c) BY <1>2, SMTT(30) DEF SaturnGetRunData
  <2>2. s = <<"realtime">> /\ s[1] = "realtime" /\ S = {s[1]} OBVIOUS
  <2>3. Sources(b, n) = S BY <1>1, <1>2 DEF Sources
  <2> HIDE DEF s, S
  <2>4. Gathers(b, o, s, 1) BY <2>1, <2>2, RealtimeGathers
  <2>5. Trusted(b, o, Of(1, S)) BY <2>2, <2>4, GatheredOne
  <2>6. QED BY <1>1, <2>3, <2>5, FromIs
<1>3. CASE n = "trigger_livetime"
  <2> DEFINE s == <<"trigger_livetime">>
             S == {"trigger_livetime"}
  <2>1. o \in SaturnGetLivetime(b, c) BY <1>3, SMTT(30) DEF SaturnGetRunData
  <2>2. s = <<"trigger_livetime">> /\ s[1] = "trigger_livetime" /\ S = {s[1]} OBVIOUS
  <2>3. Sources(b, n) = S BY <1>1, <1>3 DEF Sources
  <2> HIDE DEF s, S
  <2>4. Gathers(b, o, s, 1) BY <2>1, <2>2, LivetimeGathers
  <2>5. Trusted(b, o, Of(1, S)) BY <2>2, <2>4, GatheredOne
  <2>6. QED BY <1>1, <2>3, <2>5, FromIs
<1>4. CASE n = "energy_livetime"
  <2> DEFINE s == <<"energy_livetime">>
             S == {"energy_livetime"}
  <2>1. o \in SaturnGetELivetime(b, c) BY <1>4, SMTT(30) DEF SaturnGetRunData
  <2>2. s = <<"energy_livetime">> /\ s[1] = "energy_livetime" /\ S = {s[1]} OBVIOUS
  <2>3. Sources(b, n) = S BY <1>1, <1>4 DEF Sources
  <2> HIDE DEF s, S
  <2>4. Gathers(b, o, s, 1) BY <2>1, <2>2, ELivetimeGathers
  <2>5. Trusted(b, o, Of(1, S)) BY <2>2, <2>4, GatheredOne
  <2>6. QED BY <1>1, <2>3, <2>5, FromIs
<1>5. CASE n = "triggers"
  <2> DEFINE s == <<"triggers">>
             S == {"triggers"}
  <2>1. o \in SaturnGetTriggers(b, c) BY <1>5, SMTT(30) DEF SaturnGetRunData
  <2>2. s = <<"triggers">> /\ s[1] = "triggers" /\ S = {s[1]} OBVIOUS
  <2>3. Sources(b, n) = S BY <1>1, <1>5 DEF Sources
  <2> HIDE DEF s, S
  <2>4. Gathers(b, o, s, 1) BY <2>1, <2>2, TriggersGather
  <2>5. Trusted(b, o, Of(1, S)) BY <2>2, <2>4, GatheredOne
  <2>6. QED BY <1>1, <2>3, <2>5, FromIs
<1>6. CASE n = "mca_events"
  <2> DEFINE s == <<"events">>
             S == {"events"}
  <2>1. o \in SaturnGetMCAEvents(b, c) BY <1>6, SMTT(30) DEF SaturnGetRunData
  <2>2. s = <<"events">> /\ s[1] = "events" /\ S = {s[1]} OBVIOUS
  <2>3. Sources(b, n) = S BY <1>1, <1>6 DEF Sources
  <2> HIDE DEF s, S
  <2>4. Gathers(b, o, s, 1) BY <2>1, <2>2, EventsGather
  <2>5. Trusted(b, o, Of(1, S)) BY <2>2, <2>4, GatheredOne
  <2>6. QED BY <1>1, <2>3, <2>5, FromIs
<1>7. CASE n = "underflows"
  <2> DEFINE s == <<"underflows">>
             S == {"underflows"}
  <2>1. o \in SaturnGetUnderflows(b, c) BY <1>7, SMTT(30) DEF SaturnGetRunData
  <2>2. s = <<"underflows">> /\ s[1] = "underflows" /\ S = {s[1]} OBVIOUS
  <2>3. Sources(b, n) = S BY <1>1, <1>7 DEF Sources
  <2> HIDE DEF s, S
  <2>4. Gathers(b, o, s, 1) BY <2>1, <2>2, UnderflowsGather
  <2>5. Trusted(b, o, Of(1, S)) BY <2>2, <2>4, GatheredOne
  <2>6. QED BY <1>1, <2>3, <2>5, FromIs
<1>8. CASE n = "overflows"
  <2> DEFINE s == <<"overflows">>
             S == {"overflows"}
  <2>1. o \in SaturnGetOverflows(b, c) BY <1>8, SMTT(30) DEF SaturnGetRunData
  <2>2. s = <<"overflows">> /\ s[1] = "overflows" /\ S = {s[1]} OBVIOUS
  <2>3. Sources(b, n) = S BY <1>1, <1>8 DEF Sources
  <2> HIDE DEF s, S
  <2>4. Gathers(b, o, s, 1) BY <2>1, <2>2, OverflowsGather
  <2>5. Trusted(b, o, Of(1, S)) BY <2>2, <2>4, GatheredOne
  <2>6. QED BY <1>1, <2>3, <2>5, FromIs
<1>9. CASE n = "total_output_events"
  <2> DEFINE s == <<"events", "underflows", "overflows">>
             S == {s[i] : i \in 1..3}
             outs == TotalParts(b, c)
  <2>1. o \in SaturnGetTotalEvents(b, c) BY <1>9, SMTT(30) DEF SaturnGetRunData
  <2>2. s = <<"events", "underflows", "overflows">> /\ S = {s[i] : i \in 1..3} /\ o \in Combined(outs)
    BY <2>1 DEF SaturnGetTotalEvents, TotalParts
  <2>3. S = {"events", "underflows", "overflows"} OBVIOUS
  <2>4. Sources(b, n) = {"events", "underflows", "overflows"} BY <1>1, <1>9 DEF Sources
  <2> HIDE DEF s, S
  <2>5. \A z \in outs : Gathers(b, z, s, 3) BY <2>2, TotalPartsGather
  <2> HIDE DEF outs
  <2>6. Trusted(b, o, Of(1, S)) BY <1>1, <2>2, <2>5, CombinedOut
  <2>7. QED BY <1>1, <2>3, <2>4, <2>6, FromIs
<1>10. CASE n = "input_count_rate"
  <2> DEFINE s == <<"trigger_livetime", "triggers">>
             S == {s[i] : i \in 1..2}
             outs == ICRParts(b, c)
  <2>1. o \in SaturnGetICR(b, c) BY <1>10, SMTT(30) DEF SaturnGetRunData
  <2>2. s = <<"trigger_livetime", "triggers">> /\ S = {s[i] : i \in 1..2} /\ o \in Combined(outs)
    BY <2>1 DEF SaturnGetICR, ICRParts
  <2>3. S = {"trigger_livetime", "triggers"} OBVIOUS
  <2>4. Sources(b, n) = {"trigger_livetime", "triggers"} BY <1>1, <1>10 DEF Sources
  <2> HIDE DEF s, S
  <2>5. \A z \in outs : Gathers(b, z, s, 2) BY <2>2, ICRPartsGather
  <2> HIDE DEF outs
  <2>6. Trusted(b, o, Of(1, S)) BY <1>1, <2>2, <2>5, CombinedOut
  <2>7. QED BY <1>1, <2>3, <2>4, <2>6, FromIs
<1>11. CASE n = "output_count_rate"
  <2> DEFINE s == <<"realtime", "events", "underflows", "overflows">>
             S == {s[i] : i \in 1..4}
             outs == OCRParts(b, c)
  <2>1. o \in SaturnGetOCR(b, c) BY <1>11, SMTT(30) DEF SaturnGetRunData
  <2>2. s = <<"realtime", "events", "underflows", "overflows">> /\ S = {s[i] : i \in 1..4} /\ o \in Combined(outs)
    BY <2>1 DEF SaturnGetOCR, OCRParts
  <2>3. S = {"realtime", "events", "underflows", "overflows"} OBVIOUS
  <2>4. Sources(b, n) = {"realtime", "events", "underflows", "overflows"} BY <1>1, <1>11 DEF Sources
  <2> HIDE DEF s, S
  <2>5. \A z \in outs : Gathers(b, z, s, 4) BY <2>2, OCRPartsGather
  <2> HIDE DEF outs
  <2>6. Trusted(b, o, Of(1, S)) BY <1>1, <2>2, <2>5, CombinedOut
  <2>7. QED BY <1>1, <2>3, <2>4, <2>6, FromIs
<1>12. QED BY <1>2, <1>3, <1>4, <1>5, <1>6, <1>7, <1>8, <1>9, <1>10, <1>11 DEF ModuleCounters, Counters

\* Each number of a run of a Saturn is computed from its own counters.
LEMMA SaturnConfides ==
  ASSUME NEW b, BoardType(b), b.product = "saturn", NEW c \in 1..b.n, NEW n \in Names(b),
         NEW o \in SaturnGetRunData(b, c, n)
  PROVE  Confides(b, c, n, o)
<1>1. Rec(b) /\ b.product \notin Big /\ b.product # "stj" /\ b.product # "udxp" BY DEF BoardType, Big
<1>2. CASE n \in ModuleCounters
  <2>1. Trusted(b, o, OneOf(b, c, n)) BY <1>2, SaturnCountersOut DEF OneOf
  <2>2. n # "mca_length" /\ n # "mca" BY <1>2 DEF ModuleCounters, Counters
  <2>3. QED BY <1>2, <2>1, <2>2, SaturnWantedIs, TrustedConfides
<1>3. CASE n = "module_statistics"
  <2>1. o \in SaturnGetModuleStatistics(b, c) BY <1>3, SMTT(30) DEF SaturnGetRunData
  <2>2. Trusted(b, o, SevenOf(b)) BY <2>1, SaturnStatisticsOut DEF SevenOf
  <2>3. QED BY <1>3, <2>2, SaturnWantedIs, TrustedConfides
<1>4. CASE n = "module_statistics_2"
  <2>1. o \in SaturnGetModuleStatistics2(b, c) BY <1>4, SMTT(30) DEF SaturnGetRunData
  <2>2. Trusted(b, o, NineOf(b)) BY <2>1, SaturnStatisticsOut DEF NineOf
  <2>3. QED BY <1>4, <2>2, SaturnWantedIs, TrustedConfides
<1>5. CASE n = "sca"
  <2>1. o \in SaturnGetSCAData(b, c) BY <1>5, SMTT(30) DEF SaturnGetRunData
  <2>2. QED BY <1>5, <2>1, SaturnScasOut, SaturnWantedIs, TrustedConfides
<1>6. CASE n = "mca"
  <2>1. o \in SaturnGetMCAData(b, c) BY <1>6, SMTT(30) DEF SaturnGetRunData
  <2>2. QED BY <1>6, <2>1, SaturnBinsOut, SaturnWantedIs, SendsConfides
<1>7. CASE n = "baseline"
  <2>1. o \in SaturnGetBaseline(b, c) BY <1>7, SMTT(30) DEF SaturnGetRunData
  <2>2. Reported(b, o) \/ Sends(b, o, Histograms(b, c), "once") BY <1>1, <2>1, SaturnBaselineSends
  <2>3. QED BY <1>7, <2>2, ReportedConfides, SaturnWantedIs, SendsConfides
<1>8. CASE n = "mca_length"
  <2>1. o \in SaturnGetMCALength(b, c) BY <1>8, SMTT(30) DEF SaturnGetRunData
  <2>2. Numbered(b, o, Length(b, c)) BY <1>1, <2>1, NspecOut DEF SaturnGetMCALength
  <2>3. QED BY <1>8, <2>2, NumberedConfides, NoPromise
<1>9. CASE n = "baseline_length"
  <2>1. o \in SaturnGetBaselineLength(b) BY <1>9, SMTT(30) DEF SaturnGetRunData
  <2>2. Numbered(b, o, BaseLen) BY <1>1, <2>1, NbaseOut DEF SaturnGetBaselineLength
  <2>3. QED BY <1>9, <2>2, NumberedConfides, NoPromise
<1>10. CASE n = "run_active"
  <2>1. o \in SaturnGetRunActive(b) BY <1>10, SMTT(30) DEF SaturnGetRunData
  <2>2. Numbered(b, o, IF b.running THEN 1 ELSE 0) BY <1>1, <2>1, IsrunningOut DEF SaturnGetRunActive
  <2>3. QED BY <1>10, <2>2, NumberedConfides, NoPromise
<1>11. CASE n = "max_sca_length"
  <2>1. o \in SaturnGetMaxSCALength(b) BY <1>11, SMTT(30) DEF SaturnGetRunData
  <2>2. Numbered(b, o, MaxScas) BY <1>1, <2>1, NumberOut DEF SaturnGetMaxSCALength
  <2>3. QED BY <1>11, <2>2, NumberedConfides, NoPromise
<1>12. CASE n = "sca_length"
  <2>1. o \in SaturnGetSCALength(b, c) BY <1>12, SMTT(30) DEF SaturnGetRunData
  <2>2. Numbered(b, o, b.val[c]["number_of_scas"]) BY <1>1, <2>1, NumberOut DEF SaturnGetSCALength
  <2>3. QED BY <1>12, <2>2, NumberedConfides, NoPromise
<1>13. CASE n = "unknown"
  <2>1. o \in Refused(b) BY <1>13, SMTT(30) DEF SaturnGetRunData
  <2>2. QED BY <1>1, <2>1, RefusedOut DEF Confides
<1>14. QED
  BY <1>1, <1>2, <1>3, <1>4, <1>5, <1>6, <1>7, <1>8, <1>9, <1>10, <1>11, <1>12, <1>13
  DEF Names, ModuleCounters, ScaNames, BaselineNames, Big

\* What it says of its parameters.
LEMMA SaturnValuesConfide ==
  ASSUME NEW b, BoardType(b), b.product = "saturn", NEW c, NEW o \in SaturnGetParamData(b, c)
  PROVE  Confides(b, c, "values", o)
<1> DEFINE n == "values"
<1>1. Rec(b) /\ n \in {"baseline", "values"} /\ n # "mca" /\ n # "mca_length" BY DEF BoardType
<1>2. Reported(b, o) \/ Sends(b, o, Params(b, c), "once") BY <1>1, SaturnParamsSend
<1>3. SaturnWanted(b, c, n) = Params(b, c) BY DEF SaturnWanted, ModuleCounters, Counters
<1> HIDE DEF n
<1>4. CASE Reported(b, o) BY <1>1, <1>4, ReportedConfides DEF n
<1>5. CASE Sends(b, o, Params(b, c), "once") BY <1>1, <1>3, <1>5, SendsConfides DEF n
<1>6. QED BY <1>2, <1>4, <1>5

-----------------------------------------------------------------------------
(* The microDXP: areas of memory, of the run or of the snapshot.             *)

\* What a word of an area is, and of what instant.
LEMMA AreaIs ==
  ASSUME NEW b, NEW l, Changed(b, l, Scratch), NEW c, NEW area \in Areas, NEW i
  PROVE  /\ Triple(AreaWord(l, c, area, i)) = <<AreaItem[area], c, i>>
         /\ AreaWord(l, c, area, i).at = AreaTime(l, area)
         /\ area \in Snapped => AreaTime(l, area) = b.snap
<1>1. l.snap = b.snap BY DEF Changed, Scratch, Fields
<1> DEFINE w == Cell(l, c, AreaItem[area], i)
           x == IF area \in Snapped THEN l.snap ELSE l.now
<1>2. w = [chan |-> c, item |-> AreaItem[area], bin |-> i, at |-> l.now] BY DEF Cell
<1>3. AreaWord(l, c, area, i) = [w EXCEPT !.at = x] BY <1>2 DEF AreaWord
<1> HIDE DEF x
<1>4. AreaWord(l, c, area, i) = [chan |-> c, item |-> AreaItem[area], bin |-> i, at |-> x]
  BY <1>2, <1>3
<1>5. QED BY <1>1, <1>4 DEF Triple, AreaTime, x

\* An area is of one instant, a snapshot's of that of the snapshot.
LEMMA AreaTimed ==
  ASSUME NEW b, NEW got, NEW area, AreaSince(b, got, area)
  PROVE  Timed(b, got, TimeOf(area))
  BY DEF Timed, AreaSince, TimeOf

\* An area that is delivered.
LEMMA AreaDelivered ==
  ASSUME NEW b, Rec(b), NEW c, NEW area \in Areas, NEW len \in Nat, NEW outs,
         \A z \in outs : AreaOnce(b, c, area, len, z), NEW o \in Delivered(outs)
  PROVE  Sends(b, o, Items(AreaItem[area], c, len), TimeOf(area))
<1> DEFINE X(z) == [i \in DOMAIN z.m.words |-> {z.m.words[i]}]
           it == AreaItem[area]
<1>1. PICK z \in outs : IF z.ok THEN o \in Answer(z.m, X(z)) ELSE o = z BY DEF Delivered, Then
<1>2. AreaOnce(b, c, area, len, z) BY <1>1
<1>3. Went(b, z) BY <1>2 DEF AreaOnce
<1> DEFINE x == X(z)
           Q == Items(it, c, len)
<1>4. ASSUME z.ok PROVE Is(x, Q) /\ Timed(b, x, TimeOf(area))
  <2>1. PICK l : Changed(b, l, Scratch)
                 /\ z.m.words = [i \in 1..len |-> AreaWord(l, c, area, i - 1)]
    BY <1>2, <1>4 DEF AreaOnce
  <2>2. x = [i \in 1..len |-> {AreaWord(l, c, area, i - 1)}] BY <2>1
  <2>3. \A i \in 1..len : x[i] = {AreaWord(l, c, area, i - 1)} BY <2>2
  <2>4. \A i : Triple(AreaWord(l, c, area, i)) = <<it, c, i>>
               /\ AreaWord(l, c, area, i).at = AreaTime(l, area) BY <2>1, AreaIs
  <2>5. area \in Snapped => AreaTime(l, area) = b.snap BY <2>1, AreaIs
  <2>6. DOMAIN x = 1..len BY <2>2
  <2>7. Q = [i \in 1..len |-> {<<it, c, i - 1>>}] BY DEF Items
  <2> HIDE DEF x, X, Q, it
  <2>8. Since(x, AreaTime(l, area)) BY <2>3, <2>4, <2>6 DEF Since
  <2>9. \A i \in 1..len : {Triple(w) : w \in x[i]} = {<<it, c, i - 1>>} BY <2>3, <2>4
  <2>10. [i \in DOMAIN x |-> {Triple(w) : w \in x[i]}] = Q BY <2>6, <2>7, <2>9
  <2>11. Timed(b, x, TimeOf(area)) BY <2>5, <2>8, AreaTimed DEF AreaSince
  <2>12. QED BY <2>10, <2>11 DEF Is
<1>5. IF z.ok THEN o \in Answer(z.m, x) ELSE o = z BY <1>1
<1> HIDE DEF x, X, Q
<1>6. Sends(b, o, Q, TimeOf(area)) BY <1>3, <1>4, <1>5, AnswerSends
<1>7. QED BY <1>6 DEF Q

\* An area that is delivered two words a number.
LEMMA AreaPairs ==
  ASSUME NEW b, Rec(b), NEW c, NEW area \in {"sca", "snapsca"}, NEW n \in Nat, NEW outs,
         \A z \in outs : AreaOnce(b, c, area, 2 * n, z), NEW o \in Pairs(outs)
  PROVE  Sends(b, o, ScaPairs(c, n), TimeOf(area))
<1> DEFINE X(z) == [i \in 1..(Len(z.m.words) \div 2) |->
                      {z.m.words[(2 * i) - 1], z.m.words[2 * i]}]
<1>1. PICK z \in outs : IF z.ok THEN o \in Answer(z.m, X(z)) ELSE o = z BY DEF Pairs, Then
<1>2. AreaOnce(b, c, area, 2 * n, z) BY <1>1
<1>3. Went(b, z) BY <1>2 DEF AreaOnce
<1>0. area \in Areas /\ AreaItem[area] = "sca" BY DEF Areas, AreaItem
<1> DEFINE x == X(z)
           Q == ScaPairs(c, n)
<1>4. ASSUME z.ok PROVE Is(x, Q) /\ Timed(b, x, TimeOf(area))
  <2>1. PICK l : Changed(b, l, Scratch)
                 /\ z.m.words = [i \in 1..(2 * n) |-> AreaWord(l, c, area, i - 1)]
    BY <1>2, <1>4 DEF AreaOnce
  <2> DEFINE v == z.m.words
             W(i) == AreaWord(l, c, area, i)
  <2>2. Len(v) = 2 * n
    <3>1. v = [i \in 1..(2 * n) |-> v[i]] /\ 2 * n \in Nat BY <2>1
    <3> HIDE DEF v
    <3>2. QED BY <3>1, LengthOf
  <2>3. Len(v) \div 2 = n BY <2>2
  <2>4. x = [i \in 1..n |-> {v[(2 * i) - 1], v[2 * i]}] BY <2>3
  <2>5. \A i \in 1..n : v[(2 * i) - 1] = W((2 * i) - 2) /\ v[2 * i] = W((2 * i) - 1)
    <3>1. SUFFICES ASSUME NEW i \in 1..n
                   PROVE  v[(2 * i) - 1] = W((2 * i) - 2) /\ v[2 * i] = W((2 * i) - 1)
      OBVIOUS
    <3>2. (2 * i) - 1 \in 1..(2 * n) /\ 2 * i \in 1..(2 * n) /\ ((2 * i) - 1) - 1 = (2 * i) - 2
      OBVIOUS
    <3> HIDE DEF W
    <3>3. v = [j \in 1..(2 * n) |-> W(j - 1)] BY <2>1 DEF W
    <3> HIDE DEF v
    <3>4. QED BY <3>2, <3>3
  <2>6. \A i : Triple(W(i)) = <<"sca", c, i>> /\ W(i).at = AreaTime(l, area) BY <1>0, <2>1, AreaIs
  <2>7. area \in Snapped => AreaTime(l, area) = b.snap BY <1>0, <2>1, AreaIs
  <2>8. DOMAIN x = 1..n BY <2>4
  <2>9. Q = [i \in 1..n |-> {<<"sca", c, (2 * i) - 2>>, <<"sca", c, (2 * i) - 1>>}] BY DEF ScaPairs
  <2>10. \A i \in 1..n : x[i] = {W((2 * i) - 2), W((2 * i) - 1)} BY <2>4, <2>5
  <2> HIDE DEF x, X, Q, W, v
  <2>11. Since(x, AreaTime(l, area)) BY <2>6, <2>8, <2>10 DEF Since
  <2>12. \A i \in 1..n : {Triple(w) : w \in x[i]}
                           = {<<"sca", c, (2 * i) - 2>>, <<"sca", c, (2 * i) - 1>>} BY <2>6, <2>10
  <2>13. [i \in DOMAIN x |-> {Triple(w) : w \in x[i]}] = Q BY <2>8, <2>9, <2>12
  <2>14. Timed(b, x, TimeOf(area)) BY <2>7, <2>11, AreaTimed DEF AreaSince
  <2>15. QED BY <2>13, <2>14 DEF Is
<1>5. IF z.ok THEN o \in Answer(z.m, x) ELSE o = z BY <1>1
<1> HIDE DEF x, X, Q
<1>6. Sends(b, o, Q, TimeOf(area)) BY <1>3, <1>4, <1>5, AnswerSends
<1>7. QED BY <1>6 DEF Q

-----------------------------------------------------------------------------
(* Its statistics. *)

\* The statistics of a microDXP are made of their own counters.
LEMMA ConvertedIs ==
  ASSUME NEW b, b.product = "udxp", NEW z, z.super = b.super, NEW t,
         Tallied(z, 1, t)
  PROVE  Nined(b, UdxpConvertStatistics(z), t)
<1> DEFINE E(item) == {Counter(1, item, t)}
           unders == IF b.super THEN E("underflows") ELSE {}
           overs == IF b.super THEN E("overflows") ELSE {}
           ocr == E("events") \cup unders \cup overs \cup E("realtime")
           icr == E("triggers") \cup E("trigger_livetime")
           x == Nine(E("realtime"), E("trigger_livetime"), E("realtime") \cup ocr \cup icr,
                     E("triggers"), E("events"), unders, overs)
<1>1. \A item : Entry(z, 0, item) = E(item)
  <2>1. 1 \in 1..1 /\ 1 - 1 = 0 OBVIOUS
  <2>2. \A item : Entry(z, 1 - 1, item) = E(item) BY <2>1 DEF Tallied
  <2>3. QED BY <2>1, <2>2
<1> HIDE DEF E
<1>2. UdxpConvertStatistics(z) = x BY <1>1 DEF UdxpConvertStatistics
<1> USE DEF E
<1>3. /\ DOMAIN x = 1..9
      /\ x[1] = E("realtime") /\ x[2] = E("trigger_livetime")
      /\ x[3] = E("realtime") \cup ocr \cup icr
      /\ x[4] = E("triggers") /\ x[5] = E("events")
      /\ x[6] = E("triggers") \cup E("trigger_livetime")
      /\ x[7] = E("events") \cup overs \cup unders \cup E("realtime")
      /\ x[8] = unders /\ x[9] = overs
  <2> HIDE DEF E, unders, overs, ocr, icr
  <2>1. QED BY DEF Nine
<1> HIDE DEF x
<1>4. NineNames[1] = "realtime" /\ NineNames[2] = "trigger_livetime"
      /\ NineNames[3] = "energy_livetime" /\ NineNames[4] = "triggers"
      /\ NineNames[5] = "mca_events" /\ NineNames[6] = "input_count_rate"
      /\ NineNames[7] = "output_count_rate" /\ NineNames[8] = "underflows"
      /\ NineNames[9] = "overflows" BY DEF NineNames
<1>5. x[1] = Made(1, Sources(b, "realtime"), t) /\ x[2] = Made(1, Sources(b, "trigger_livetime"), t)
      /\ x[4] = Made(1, Sources(b, "triggers"), t) /\ x[5] = Made(1, Sources(b, "mca_events"), t)
  BY <1>3 DEF Made, Sources
<1>6. x[6] = Made(1, Sources(b, "input_count_rate"), t) BY <1>3 DEF Made, Sources
<1>7. CASE b.super
  <2>1. x[3] = Made(1, Sources(b, "energy_livetime"), t) BY <1>3, <1>7 DEF Made, Sources
  <2>2. x[7] = Made(1, Sources(b, "output_count_rate"), t) BY <1>3, <1>7 DEF Made, Sources
  <2>3. x[8] = Made(1, Sources(b, "underflows"), t) /\ x[9] = Made(1, Sources(b, "overflows"), t)
    BY <1>3, <1>7 DEF Made, Sources
  <2> DEFINE M(i) == Made(1, Sources(b, NineNames[i]), t)
  <2>4. x[1] = M(1) /\ x[2] = M(2) /\ x[3] = M(3) /\ x[4] = M(4) /\ x[5] = M(5) /\ x[6] = M(6)
        /\ x[7] = M(7) /\ x[8] = M(8) /\ x[9] = M(9) BY <1>4, <1>5, <1>6, <2>1, <2>2, <2>3
  <2> HIDE DEF M
  <2>5. \A i \in 1..9 : x[i] = M(i) BY <2>4
  <2>6. QED BY <1>2, <1>3, <2>5 DEF Nined, M
<1>8. CASE ~b.super
  <2>1. x[3] = Made(1, Sources(b, "energy_livetime"), t) BY <1>3, <1>8 DEF Made, Sources
  <2>2. x[7] = Made(1, Sources(b, "output_count_rate"), t) BY <1>3, <1>8 DEF Made, Sources
  <2>3. x[8] = Made(1, Sources(b, "underflows"), t) /\ x[9] = Made(1, Sources(b, "overflows"), t)
    BY <1>3, <1>8 DEF Made, Sources
  <2> DEFINE M(i) == Made(1, Sources(b, NineNames[i]), t)
  <2>4. x[1] = M(1) /\ x[2] = M(2) /\ x[3] = M(3) /\ x[4] = M(4) /\ x[5] = M(5) /\ x[6] = M(6)
        /\ x[7] = M(7) /\ x[8] = M(8) /\ x[9] = M(9) BY <1>4, <1>5, <1>6, <2>1, <2>2, <2>3
  <2> HIDE DEF M
  <2>5. \A i \in 1..9 : x[i] = M(i) BY <2>4
  <2>6. QED BY <1>2, <1>3, <2>5 DEF Nined, M
<1>9. QED BY <1>7, <1>8

\* The counters that were read, of a run or of the snapshot.
LEMMA AreaTallied ==
  ASSUME NEW b, NEW area \in {"stat", "snapstat"}, NEW z, AreaOnce(b, 1, area, 1, z), z.ok
  PROVE  \E t : Tallied(z.m, 1, t) /\ (area \in Snapped => t = b.snap)
<1>1. PICK l : Changed(b, l, Scratch)
               /\ z.m.words = [i \in 1..1 |-> AreaWord(l, 1, area, i - 1)] BY DEF AreaOnce
<1>2. l.snap = b.snap BY <1>1 DEF Changed, Scratch, Fields
<1> DEFINE x == IF area \in Snapped THEN l.snap ELSE l.now
           w == Cell(l, 1, AreaItem[area], 0)
<1>3. AreaItem[area] = "counters" BY DEF AreaItem
<1>4. w = [chan |-> 1, item |-> "counters", bin |-> 0, at |-> l.now] BY <1>3 DEF Cell
<1>5. AreaWord(l, 1, area, 0) = [w EXCEPT !.at = x] BY <1>4 DEF AreaWord
<1> HIDE DEF x
<1>6. AreaWord(l, 1, area, 0) = Counter(1, "counters", x) BY <1>4, <1>5 DEF Counter
<1> HIDE DEF w
<1>7. z.m.words[0 + 1] = Counter(1, "counters", x)
  <2> DEFINE W(i) == AreaWord(l, 1, area, i)
  <2>1. z.m.words = [i \in 1..1 |-> W(i - 1)] /\ W(0) = Counter(1, "counters", x) BY <1>1, <1>6
  <2> HIDE DEF W
  <2>2. QED BY <2>1
<1>8. \A item : Entry(z.m, 0, item) = {Counter(1, item, x)} BY <1>7, EntryIs
<1>9. Tallied(z.m, 1, x) BY <1>8 DEF Tallied
<1>10. QED BY <1>2, <1>9 DEF x

\* They are computed from an area that was read.
LEMMA StatisticsOut ==
  ASSUME NEW b, BoardType(b), b.product = "udxp", NEW area \in {"stat", "snapstat"}, NEW outs,
         \A z \in outs : AreaOnce(b, 1, area, 1, z), NEW o \in Statistics(outs)
  PROVE  Converted(b, o, area)
<1>1. PICK z \in outs : IF z.ok THEN o \in Answer(z.m, UdxpConvertStatistics(z.m)) ELSE o = z
  BY DEF Statistics, Then
<1>2. AreaOnce(b, 1, area, 1, z) BY <1>1
<1>3. Rec(b) /\ Went(b, z) /\ Rec(z.m) /\ z.ok \in BOOLEAN BY <1>2, WentRec DEF BoardType, AreaOnce
<1>4. CASE z.ok = FALSE BY <1>1, <1>3, <1>4 DEF Converted
<1>5. CASE z.ok = TRUE
  <2> DEFINE y == z.m
             x == UdxpConvertStatistics(y)
  <2>1. PICK t : Tallied(z.m, 1, t) /\ (area \in Snapped => t = b.snap) BY <1>2, <1>5, AreaTallied
  <2>2. y.super = b.super BY <1>3 DEF Went, Changed, Scratch, Fields
  <2>3. Rec(y) /\ o \in Answer(y, x) /\ Tallied(y, 1, t) BY <1>1, <1>3, <1>5, <2>1
  <2> HIDE DEF y
  <2>4. Nined(b, x, t) BY <2>2, <2>3, ConvertedIs
  <2> HIDE DEF x
  <2>5. Went(y, o) /\ o.m.got = x BY <2>3, AnswerOut
  <2>6. Went(b, o) BY <1>3, <1>5, <2>5, WentThen DEF y
  <2>7. QED BY <2>1, <2>4, <2>5, <2>6 DEF Converted
<1>6. QED BY <1>3, <1>4, <1>5

\* Nine numbers, of the instant of their area.
LEMMA NinedSends ==
  ASSUME NEW b, b.n = 1, NEW area, NEW o, Converted(b, o, area)
  PROVE  Sends(b, o, NineOf(b), TimeOf(area))
<1> DEFINE g == o.m.got
<1>1. ASSUME o.ok PROVE Is(g, NineOf(b)) /\ Timed(b, g, TimeOf(area))
  <2>1. PICK t : Nined(b, g, t) /\ (area \in Snapped => t = b.snap) BY <1>1 DEF Converted
  <2> HIDE DEF g
  <2>2. DOMAIN g = 1..9 /\ \A i \in 1..9 : g[i] = Made(1, Sources(b, NineNames[i]), t)
    BY <2>1 DEF Nined
  <2>3. Is(g, NineOf(b)) BY <2>2, RowClean DEF NineOf, MadeRow
  <2>4. \A i \in 1..9 : \A w \in g[i] : w.at = t BY <2>2, MadeIs
  <2>5. Since(g, t) BY <2>2, <2>4 DEF Since
  <2>6. QED BY <2>1, <2>3, <2>5, AreaTimed DEF AreaSince
<1>2. QED BY <1>1 DEF Sends, Converted

\* One number of the nine.
LEMMA PickedOut ==
  ASSUME NEW b, Rec(b), NEW area, NEW outs, \A z \in outs : Converted(b, z, area), NEW i \in 1..9,
         NEW o \in Picked(outs, i), NEW S, S = Sources(b, NineNames[i])
  PROVE  Sends(b, o, Of(1, S), TimeOf(area))
<1>1. PICK z \in outs : IF z.ok THEN o \in Answer(z.m, <<z.m.got[i]>>) ELSE o = z
  BY DEF Picked, Then
<1>2. Converted(b, z, area) /\ Went(b, z) BY <1>1 DEF Converted
<1> DEFINE X == z.m.got[i]
           x == <<X>>
<1>3. ASSUME z.ok PROVE Is(x, Of(1, S)) /\ Timed(b, x, TimeOf(area))
  <2>1. PICK t : Nined(b, z.m.got, t) /\ (area \in Snapped => t = b.snap)
    BY <1>2, <1>3 DEF Converted
  <2>2. X = Made(1, S, t) BY <2>1 DEF Nined
  <2> HIDE DEF X
  <2>3. Is(<<X>>, Of(1, S)) /\ Since(<<X>>, t) BY <2>2, OneIs
  <2>4. QED BY <2>1, <2>3, AreaTimed DEF AreaSince
<1>4. IF z.ok THEN o \in Answer(z.m, x) ELSE o = z BY <1>1
<1> HIDE DEF x, X
<1>5. QED BY <1>2, <1>3, <1>4, AnswerSends

\* An area whose place is looked up before it is read.
LEMMA LocatedOut ==
  ASSUME NEW b, Rec(b), b.product = "udxp", NEW c, NEW area, NEW len,
         NEW o \in Located(b, c, area, len)
  PROVE  AreaOnce(b, c, area, len, o)
<1>1. PICK z \in Parameter(b) :
         IF z.ok THEN o \in UdxpReadDirectUsbMemory(z.m, c, area, len) ELSE o = z
  BY DEF Located, Then
<1>2. Went(b, z) /\ Rec(z.m) /\ Changed(b, z.m, Scratch) BY <1>1, ParameterOut
<1> DEFINE y == z.m
<1>3. Rec(y) /\ y.product = "udxp" BY <1>2 DEF Changed, Scratch, Fields
<1>4. z.ok => o \in UdxpReadDirectUsbMemory(y, c, area, len) BY <1>1
<1> HIDE DEF y
<1>5. z.ok => AreaOnce(y, c, area, len, o) BY <1>3, <1>4, UdxpDirectOut
<1>6. IF z.ok THEN AreaOnce(z.m, c, area, len, o) ELSE o = z BY <1>1, <1>5 DEF y
<1>7. QED BY <1>2, <1>6, AreaThen

\* The statistics of the run.
LEMMA UdxpStatisticsOut ==
  ASSUME NEW b, BoardType(b), b.product = "udxp", NEW o \in UdxpGetModuleStatistics(b, 1)
  PROVE  Converted(b, o, "stat")
<1> DEFINE outs == UdxpCmd(b, 1, "stat", 1)
<1>1. o \in Statistics(outs) /\ Rec(b) BY DEF UdxpGetModuleStatistics, Statistics, BoardType
<1>2. \A z \in outs : AreaOnce(b, 1, "stat", 1, z) BY <1>1, UdxpCmdOut
<1> HIDE DEF outs
<1>3. QED BY <1>1, <1>2, StatisticsOut

\* The statistics of the snapshot.
LEMMA SnapshotStatsOut ==
  ASSUME NEW b, BoardType(b), b.product = "udxp", NEW o \in UdxpGetSnapshotStats(b, 1)
  PROVE  Converted(b, o, "snapstat")
<1>0. Rec(b) BY DEF BoardType
<1>1. CASE ~UdxpGetBoardFeatures(b, "snapshot")
  <2>1. o \in Refused(b) BY <1>1 DEF UdxpGetSnapshotStats
  <2>2. QED BY <1>0, <2>1, RefusedOut DEF Converted
<1>2. CASE UdxpGetBoardFeatures(b, "snapshot")
  <2> DEFINE outs == IF b.usb THEN Located(b, 1, "snapstat", 1) ELSE UdxpCmd(b, 1, "snapstat", 1)
  <2>1. o \in Statistics(outs) BY <1>2 DEF UdxpGetSnapshotStats, Statistics, Located
  <2>2. \A z \in outs : AreaOnce(b, 1, "snapstat", 1, z) BY <1>0, UdxpCmdOut, LocatedOut
  <2> HIDE DEF outs
  <2>3. QED BY <2>1, <2>2, StatisticsOut
<1>3. QED BY <1>1, <1>2

\* The gated statistics are read where those of the snapshot are.
LEMMA GatedStatsOut ==
  ASSUME NEW b, BoardType(b), b.product = "udxp", NEW o \in UdxpGetGatedStatistics(b, 1)
  PROVE  Converted(b, o, "snapstat")
<1>1. CASE b.vega BY <1>1, SnapshotStatsOut DEF UdxpGetGatedStatistics
<1>2. CASE ~b.vega
  <2>1. o \in Refused(b) /\ Rec(b) BY <1>2 DEF UdxpGetGatedStatistics, BoardType
  <2>2. QED BY <2>1, RefusedOut DEF Converted
<1>3. QED BY <1>1, <1>2

\* The six of one command are of one instant.
LEMMA AllStatisticsOut ==
  ASSUME NEW b, BoardType(b), b.product = "udxp", NEW o \in UdxpGetAllStatistics(b, 1)
  PROVE  Went(b, o) /\ (o.ok => \E t : Since(o.m.got, t))
<1> DEFINE outs == UdxpCmd(b, 1, "stat", 1)
           E(l, item) == Entry(l, 0, item)
           X(l) == <<E(l, "trigger_livetime"), E(l, "realtime"), E(l, "triggers"), E(l, "events"),
                     E(l, "triggers") \cup E(l, "trigger_livetime"), E(l, "events") \cup E(l, "realtime")>>
<1>0. Rec(b) BY DEF BoardType
<1>1. PICK z \in outs : IF z.ok THEN o \in Answer(z.m, X(z.m)) ELSE o = z
  BY DEF UdxpGetAllStatistics, Then
<1>2. AreaOnce(b, 1, "stat", 1, z) BY <1>0, <1>1, UdxpCmdOut
<1>3. Went(b, z) /\ Rec(z.m) /\ z.ok \in BOOLEAN BY <1>2, WentRec DEF AreaOnce
<1>4. CASE z.ok = FALSE BY <1>1, <1>3, <1>4
<1>5. CASE z.ok = TRUE
  <2> DEFINE x == X(z.m)
             y == z.m
  <2>1. PICK t : Tallied(z.m, 1, t) BY <1>2, <1>5, AreaTallied
  <2>2. \A item : E(z.m, item) = {Counter(1, item, t)}
    <3>1. 1 \in 1..1 /\ 1 - 1 = 0 OBVIOUS
    <3>2. \A item : Entry(z.m, 1 - 1, item) = {Counter(1, item, t)} BY <2>1, <3>1 DEF Tallied
    <3>3. QED BY <3>1, <3>2
  <2>3. \A item : \A w \in E(z.m, item) : w.at = t BY <2>2 DEF Counter
  <2>4. Since(x, t)
    <3> HIDE DEF E
    <3>1. QED BY <2>3 DEF Since
  <2>5. Rec(y) /\ o \in Answer(y, x) BY <1>1, <1>3, <1>5
  <2> HIDE DEF x, X, y
  <2>6. Went(y, o) /\ o.m.got = x BY <2>5, AnswerOut
  <2>7. Went(b, o) BY <1>0, <1>3, <1>5, <2>6, WentThen DEF y
  <2>8. QED BY <2>4, <2>6, <2>7
<1>6. QED BY <1>3, <1>4, <1>5

-----------------------------------------------------------------------------
(* Its spectra and SCAs. *)

\* What is asked for does not depend on when.
LEMMA LaterItems ==
  ASSUME NEW b, NEW l, Changed(b, l, Scratch), NEW c
  PROVE  McaItems(l, c) = McaItems(b, c) /\ ScaItems(l, c) = ScaItems(b, c)
<1>1. l.val = b.val BY DEF Changed, Scratch, Fields
<1>2. QED BY <1>1 DEF McaItems, ScaItems

\* A call leaves a microDXP one.
LEMMA UdxpLater ==
  ASSUME NEW b, UdxpType(b), NEW l, Changed(b, l, Scratch)
  PROVE  UdxpType(l)
<1>1. Rec(l) /\ l.product = b.product /\ l.n = b.n /\ l.par = b.par /\ l.val = b.val
      /\ l.error = b.error BY DEF Changed, Scratch, Fields
<1>2. QED BY <1>1 DEF UdxpType, BoardType

\* What the type of a microDXP says.
LEMMA UdxpIs ==
  ASSUME NEW b, UdxpType(b)
  PROVE  /\ Rec(b) /\ b.product = "udxp" /\ b.n = 1 /\ b.error = FALSE
         /\ b.par[1]["MCALEN"] \in Nat /\ b.par[1]["NUMSCA"] \in Nat
         /\ b.val[1]["number_mca_channels"] \in Nat /\ b.val[1]["number_of_scas"] \in Nat
<1>1. Rec(b) /\ b.product = "udxp" /\ b.n = 1 /\ b.error = FALSE BY DEF UdxpType, BoardType, Big
<1>2. 1 \in 1..b.n /\ b.par[1] \in [MCALEN : Nat, NUMSCA : Nat] /\ b.val[1] \in ValType
  BY <1>1 DEF UdxpType, BoardType, ParType
<1>3. QED BY <1>1, <1>2 DEF ValType

\* The spectrum, from the memory.
LEMMA McaDirectOut ==
  ASSUME NEW b, UdxpType(b), NEW area \in {"spectrum", "snapshot"}, NEW o \in UdxpGetMcaDirect(b, 1, area)
  PROVE  Sends(b, o, McaItems(b, 1), TimeOf(area))
<1> DEFINE len == b.val[1]["number_mca_channels"]
           outs == UdxpReadDirectUsbMemory(b, 1, area, len)
<1>1. o \in Delivered(outs) BY DEF UdxpGetMcaDirect
<1>2. Rec(b) /\ b.product = "udxp" /\ len \in Nat BY UdxpIs
<1>3. area \in Areas /\ AreaItem[area] = "bin" BY DEF Areas, AreaItem
<1>4. \A z \in outs : AreaOnce(b, 1, area, len, z) BY <1>2, UdxpDirectOut
<1> HIDE DEF outs, len
<1>5. Sends(b, o, Items(AreaItem[area], 1, len), TimeOf(area))
  BY <1>1, <1>2, <1>3, <1>4, AreaDelivered
<1>6. QED BY <1>3, <1>5 DEF McaItems, len

\* The spectrum, by a command.
LEMMA McaCmdOut ==
  ASSUME NEW b, UdxpType(b), NEW area \in {"spectrum", "snapshot"}, NEW o \in UdxpGetMcaCmd(b, 1, area)
  PROVE  Sends(b, o, McaItems(b, 1), TimeOf(area))
<1> DEFINE len == b.val[1]["number_mca_channels"]
           outs == UdxpCmd(b, 1, area, len)
<1>1. o \in Delivered(outs) BY DEF UdxpGetMcaCmd
<1>2. Rec(b) /\ b.product = "udxp" /\ len \in Nat BY UdxpIs
<1>3. area \in Areas /\ AreaItem[area] = "bin" BY DEF Areas, AreaItem
<1>4. \A z \in outs : AreaOnce(b, 1, area, len, z) BY <1>2, UdxpCmdOut
<1> HIDE DEF outs, len
<1>5. Sends(b, o, Items(AreaItem[area], 1, len), TimeOf(area))
  BY <1>1, <1>2, <1>3, <1>4, AreaDelivered
<1>6. QED BY <1>3, <1>5 DEF McaItems, len

\* The SCAs, from the memory.
LEMMA ScaDirectOut ==
  ASSUME NEW b, UdxpType(b), NEW area \in {"sca", "snapsca"}, NEW o \in UdxpGetSCADataDirect(b, 1, area)
  PROVE  Sends(b, o, ScaItems(b, 1), TimeOf(area))
<1> DEFINE n == b.val[1]["number_of_scas"]
           outs == UdxpReadDirectUsbMemory(b, 1, area, 2 * n)
<1>1. o \in Pairs(outs) BY DEF UdxpGetSCADataDirect
<1>2. Rec(b) /\ b.product = "udxp" /\ n \in Nat BY UdxpIs
<1>4. \A z \in outs : AreaOnce(b, 1, area, 2 * n, z) BY <1>2, UdxpDirectOut
<1> HIDE DEF outs, n
<1>5. Sends(b, o, ScaPairs(1, n), TimeOf(area)) BY <1>1, <1>2, <1>4, AreaPairs
<1>6. QED BY <1>5 DEF ScaItems, n

\* The SCAs, by a command.
LEMMA ScaCmdOut ==
  ASSUME NEW b, UdxpType(b), NEW area \in {"sca", "snapsca"}, NEW o \in UdxpGetSCADataCmd(b, 1, area)
  PROVE  Sends(b, o, ScaItems(b, 1), TimeOf(area))
<1> DEFINE n == b.val[1]["number_of_scas"]
           outs == UdxpCmd(b, 1, area, 2 * n)
<1>1. o \in Pairs(outs) BY DEF UdxpGetSCADataCmd
<1>2. Rec(b) /\ b.product = "udxp" /\ n \in Nat BY UdxpIs
<1>4. \A z \in outs : AreaOnce(b, 1, area, 2 * n, z) BY <1>2, UdxpCmdOut
<1> HIDE DEF outs, n
<1>5. Sends(b, o, ScaPairs(1, n), TimeOf(area)) BY <1>1, <1>2, <1>4, AreaPairs
<1>6. QED BY <1>5 DEF ScaItems, n

\* The spectrum, at the place that is looked up.
LEMMA McaLocatedOut ==
  ASSUME NEW b, UdxpType(b), NEW area \in {"spectrum", "snapshot"}, NEW o \in McaLocated(b, area)
  PROVE  Sends(b, o, McaItems(b, 1), TimeOf(area))
<1>1. PICK z \in Parameter(b) : IF z.ok THEN o \in UdxpGetMcaDirect(z.m, 1, area) ELSE o = z
  BY DEF McaLocated, Then
<1>2. Rec(b) /\ b.product = "udxp" BY UdxpIs
<1>3. Went(b, z) /\ Changed(b, z.m, Scratch) BY <1>1, <1>2, ParameterOut
<1> DEFINE y == z.m
           Q == McaItems(b, 1)
<1>4. UdxpType(y) /\ McaItems(y, 1) = Q /\ (z.ok => o \in UdxpGetMcaDirect(y, 1, area))
  BY <1>1, <1>3, UdxpLater, LaterItems
<1> HIDE DEF y, Q
<1>5. z.ok => Sends(y, o, Q, TimeOf(area)) BY <1>4, McaDirectOut
<1>6. IF z.ok THEN Sends(z.m, o, Q, TimeOf(area)) ELSE o = z BY <1>1, <1>5 DEF y
<1>7. Sends(b, o, Q, TimeOf(area)) BY <1>2, <1>3, <1>6, SendsThen
<1>8. QED BY <1>7 DEF Q

\* The SCAs, at the place that is looked up.
LEMMA ScaLocatedOut ==
  ASSUME NEW b, UdxpType(b), NEW area \in {"sca", "snapsca"}, NEW o \in ScaLocated(b, area)
  PROVE  Sends(b, o, ScaItems(b, 1), TimeOf(area))
<1>1. PICK z \in Parameter(b) : IF z.ok THEN o \in UdxpGetSCADataDirect(z.m, 1, area) ELSE o = z
  BY DEF ScaLocated, Then
<1>2. Rec(b) /\ b.product = "udxp" BY UdxpIs
<1>3. Went(b, z) /\ Changed(b, z.m, Scratch) BY <1>1, <1>2, ParameterOut
<1> DEFINE y == z.m
           Q == ScaItems(b, 1)
<1>4. UdxpType(y) /\ ScaItems(y, 1) = Q /\ (z.ok => o \in UdxpGetSCADataDirect(y, 1, area))
  BY <1>1, <1>3, UdxpLater, LaterItems
<1> HIDE DEF y, Q
<1>5. z.ok => Sends(y, o, Q, TimeOf(area)) BY <1>4, ScaDirectOut
<1>6. IF z.ok THEN Sends(z.m, o, Q, TimeOf(area)) ELSE o = z BY <1>1, <1>5 DEF y
<1>7. Sends(b, o, Q, TimeOf(area)) BY <1>2, <1>3, <1>6, SendsThen
<1>8. QED BY <1>7 DEF Q

\* The areas of a run and those of a snapshot.
LEMMA TimesOf ==
  /\ TimeOf("spectrum") = "once" /\ TimeOf("stat") = "once" /\ TimeOf("sca") = "once"
  /\ TimeOf("snapshot") = "snap" /\ TimeOf("snapstat") = "snap" /\ TimeOf("snapsca") = "snap"
  BY DEF TimeOf, Snapped

\* The spectrum of the run is of one instant.
LEMMA UdxpMcaOut ==
  ASSUME NEW b, UdxpType(b), NEW o \in UdxpGetMCAData(b, 1)
  PROVE  Sends(b, o, McaItems(b, 1), "once")
<1> DEFINE area == "spectrum"
<1>1. area \in {"spectrum", "snapshot"} /\ TimeOf(area) = "once" BY TimesOf
<1>2. o \in UdxpGetMcaDirect(b, 1, area) \/ o \in UdxpGetMcaCmd(b, 1, area) BY DEF UdxpGetMCAData
<1> HIDE DEF area
<1>3. Sends(b, o, McaItems(b, 1), TimeOf(area)) BY <1>1, <1>2, McaDirectOut, McaCmdOut
<1>4. QED BY <1>1, <1>3

\* So are its SCAs.
LEMMA UdxpScaOut ==
  ASSUME NEW b, UdxpType(b), NEW o \in UdxpGetSCAData(b, 1)
  PROVE  Sends(b, o, ScaItems(b, 1), "once")
<1> DEFINE area == "sca"
<1>1. area \in {"sca", "snapsca"} /\ TimeOf(area) = "once" BY TimesOf
<1>2. o \in Refused(b) \/ o \in ScaLocated(b, area) \/ o \in UdxpGetSCADataCmd(b, 1, area)
  BY DEF UdxpGetSCAData, ScaLocated
<1> HIDE DEF area
<1>3. CASE o \in Refused(b) BY <1>3, RefusedSends, UdxpIs
<1>4. CASE o \in ScaLocated(b, area) BY <1>1, <1>4, ScaLocatedOut
<1>5. CASE o \in UdxpGetSCADataCmd(b, 1, area) BY <1>1, <1>5, ScaCmdOut
<1>6. QED BY <1>2, <1>3, <1>4, <1>5

\* The spectrum of the snapshot is of the snapshot's instant.
LEMMA SnapshotMcaOut ==
  ASSUME NEW b, UdxpType(b), NEW o \in UdxpGetSnapshotMca(b, 1)
  PROVE  Sends(b, o, McaItems(b, 1), "snap")
<1> DEFINE area == "snapshot"
<1>1. area \in {"spectrum", "snapshot"} /\ TimeOf(area) = "snap" BY TimesOf
<1>2. o \in Refused(b) \/ o \in McaLocated(b, area) \/ o \in UdxpGetMcaCmd(b, 1, area)
  BY DEF UdxpGetSnapshotMca, McaLocated
<1> HIDE DEF area
<1>3. CASE o \in Refused(b) BY <1>3, RefusedSends, UdxpIs
<1>4. CASE o \in McaLocated(b, area) BY <1>1, <1>4, McaLocatedOut
<1>5. CASE o \in UdxpGetMcaCmd(b, 1, area) BY <1>1, <1>5, McaCmdOut
<1>6. QED BY <1>2, <1>3, <1>4, <1>5

\* So are its SCAs.
LEMMA SnapshotScaOut ==
  ASSUME NEW b, UdxpType(b), NEW o \in UdxpGetSnapshotSca(b, 1)
  PROVE  Sends(b, o, ScaItems(b, 1), "snap")
<1> DEFINE area == "snapsca"
<1>1. area \in {"sca", "snapsca"} /\ TimeOf(area) = "snap" BY TimesOf
<1>2. o \in Refused(b) \/ o \in ScaLocated(b, area) \/ o \in UdxpGetSCADataCmd(b, 1, area)
  BY DEF UdxpGetSnapshotSca, ScaLocated
<1> HIDE DEF area
<1>3. CASE o \in Refused(b) BY <1>3, RefusedSends, UdxpIs
<1>4. CASE o \in ScaLocated(b, area) BY <1>1, <1>4, ScaLocatedOut
<1>5. CASE o \in UdxpGetSCADataCmd(b, 1, area) BY <1>1, <1>5, ScaCmdOut
<1>6. QED BY <1>2, <1>3, <1>4, <1>5

\* So is the gated spectrum.
LEMMA GatedMcaOut ==
  ASSUME NEW b, UdxpType(b), NEW o \in UdxpGetGatedMCAData(b, 1)
  PROVE  Sends(b, o, McaItems(b, 1), "snap")
<1>1. CASE b.vega BY <1>1, SnapshotMcaOut DEF UdxpGetGatedMCAData
<1>2. CASE ~b.vega BY <1>2, RefusedSends, UdxpIs DEF UdxpGetGatedMCAData
<1>3. QED BY <1>1, <1>2

\* The baseline is of one instant.
LEMMA UdxpBaselineOut ==
  ASSUME NEW b, UdxpType(b), NEW o \in UdxpGetBaseline(b, 1)
  PROVE  Sends(b, o, Histograms(b, 1), "once")
<1> DEFINE outs == BaselineRead(b, 1)
<1>1. o \in Delivered(outs) /\ Rec(b) /\ "baseline" \in Memories
  BY UdxpIs DEF UdxpGetBaseline, BaselineRead, Memories
<1>2. ASSUME NEW z \in outs PROVE AtOnce(b, 1, "baseline", 0, BaseLen, z)
  <2> DEFINE W(l) == [i \in 1..BaseLen |-> Cell(l, 1, "baseline", i - 1)]
  <2>1. PICK l \in Later(b) : z \in Access(l, [l EXCEPT !.words = W(l)])
    BY <1>2 DEF BaselineRead, Reading
  <2>2. W(l) = [i \in 1..BaseLen |-> WordAt(l, 1, "baseline", 0 + i - 1)] BY DEF WordAt, Histogram
  <2>a. Rec(b) BY <1>1
  <2> DEFINE w == W(l)
  <2>b. z \in Access(l, [l EXCEPT !.words = w]) BY <2>1
  <2> HIDE DEF w
  <2>c. Went(b, z) /\ Changed(b, l, Scratch) /\ (z.ok => z.m.words = w) BY <2>a, <2>b, ReadOut
  <2>3. Went(b, z) /\ Changed(b, l, Scratch) /\ (z.ok => z.m.words = W(l)) BY <2>c DEF w
  <2> HIDE DEF W
  <2>4. QED BY <2>2, <2>3 DEF AtOnce
<1> HIDE DEF outs
<1>3. Sends(b, o, Words(b, 1, "baseline", 0, BaseLen), "once") BY <1>1, <1>2, DeliveredOnce
<1>4. QED BY <1>3 DEF Histograms

-----------------------------------------------------------------------------
(* Its lengths: what it is asked for once, it is taken to know.              *)

\* A call that learns nothing forgets nothing.
LEMMA WentLearned ==
  ASSUME NEW b, UdxpType(b), NEW o, Went(b, o)
  PROVE  Learned(b, o)
<1> DEFINE y == o.m
<1>1. Changed(b, y, Scratch) /\ o.ok \in BOOLEAN BY DEF Went
<1>2. y.val = b.val /\ y.known = b.known BY <1>1 DEF Changed, Scratch, Fields
<1>3. UdxpType(y) BY <1>1, UdxpLater
<1>4. Changed(b, y, Scratch \cup {"par", "val", "known"}) BY <1>1, ChangedMore
<1>5. QED BY <1>1, <1>2, <1>3, <1>4 DEF Learned

\* A number that is read is a size.
LEMMA WentSized ==
  ASSUME NEW b, UdxpType(b), NEW o, Went(b, o), o.ok => o.m.value \in Nat
  PROVE  Sized(b, o)
<1> DEFINE y == o.m
<1>1. Changed(b, y, Scratch) /\ o.ok \in BOOLEAN BY DEF Went
<1>3. UdxpType(y) BY <1>1, UdxpLater
<1>4. Changed(b, y, Scratch \cup {"par"}) BY <1>1, ChangedMore
<1>5. QED BY <1>1, <1>3, <1>4 DEF Sized

\* A parameter that is looked up.
LEMMA GetParameterOut ==
  ASSUME NEW b, UdxpType(b), NEW p, NEW o \in UdxpGetParameter(b, 1, p)
  PROVE  Went(b, o) /\ (o.ok => o.m.value = b.par[1][p])
<1> DEFINE x == b.par[1][p]
<1>1. PICK z \in Parameter(b) : IF z.ok THEN o \in Done([z.m EXCEPT !.value = x]) ELSE o = z
  BY DEF UdxpGetParameter, Then
<1> HIDE DEF x
<1>2. Rec(b) /\ b.product = "udxp" BY UdxpIs
<1>3. Went(b, z) /\ Rec(z.m) BY <1>1, <1>2, ParameterOut
<1>4. z.ok \in BOOLEAN BY <1>3 DEF Went
<1>5. CASE z.ok = FALSE BY <1>1, <1>3, <1>5
<1>6. CASE z.ok = TRUE
  <2>1. o.ok = TRUE /\ o.m = [z.m EXCEPT !.value = x] BY <1>1, <1>6, DoneIs
  <2>2. Changed(z.m, o.m, Scratch) /\ o.m.value = x BY <1>3, <2>1, PutScratch
  <2>3. Went(z.m, o) BY <2>1, <2>2 DEF Went
  <2>4. Went(b, o) BY <1>2, <1>3, <1>6, <2>3, WentThen
  <2>5. QED BY <2>2, <2>4 DEF x
<1>7. QED BY <1>4, <1>5, <1>6

\* The number of MCA channels is read.
LEMMA NumMCAOut ==
  ASSUME NEW b, UdxpType(b), NEW o \in UdxpGetNumMCA(b, 1)
  PROVE  Sized(b, o)
<1> DEFINE x == b.par[1]["MCALEN"]
<1>1. x \in Nat BY UdxpIs
<1>2. Went(b, o) /\ (o.ok => o.m.value = x) BY GetParameterOut DEF UdxpGetNumMCA
<1> HIDE DEF x
<1>3. o.ok => o.m.value \in Nat BY <1>1, <1>2
<1>4. QED BY <1>2, <1>3, WentSized

\* The limit of SCAs is a number.
LEMMA MostScasIs ==
  ASSUME NEW b
  PROVE  MostScas(b) \in Nat
<1>1. MaxScas \in Nat BY SizesAssumption
<1>2. MaxScas \div 4 \in Nat BY <1>1
<1>3. QED BY <1>1, <1>2 DEF MostScas

\* The number of SCAs set back to the limit.
LEMMA SetBackOut ==
  ASSUME NEW b, UdxpType(b), NEW x \in Nat,
         NEW o \in SetParameter([b EXCEPT !.value = x], 1, "NUMSCA", x)
  PROVE  Sized(b, o)
<1> DEFINE y == [b EXCEPT !.value = x]
           q == [y.par EXCEPT ![1] = [y.par[1] EXCEPT !["NUMSCA"] = x]]
           w == [y EXCEPT !.par = q]
<1>1. Rec(b) /\ b.n = 1 BY UdxpIs
<1>2. Changed(b, y, Scratch) /\ Rec(y) /\ y.value = x /\ y.budget = b.budget BY <1>1, PutScratch
<1>3. UdxpType(y)
  <2> HIDE DEF y
  <2>1. QED BY <1>2, UdxpLater
<1>4. o \in Access(y, w) BY DEF SetParameter
<1>5. y.n = 1 /\ y.par \in [1..1 -> [MCALEN : Nat, NUMSCA : Nat]] /\ y.val \in [1..1 -> ValType]
      /\ y.product = "udxp" /\ y.error = FALSE
  <2> HIDE DEF y
  <2>1. y.n = 1 /\ y.product = "udxp" /\ y.error = FALSE BY <1>3, UdxpIs
  <2>2. QED BY <1>3, <2>1 DEF UdxpType, BoardType, ParType, Big
<1> HIDE DEF y
<1>6. q \in [1..1 -> [MCALEN : Nat, NUMSCA : Nat]] BY <1>5
<1> HIDE DEF q
<1>7. /\ Changed(y, w, {"par"}) /\ Rec(w) /\ w.budget = y.budget /\ w.par = q
      /\ \A g \in Fields \ {"par"} : w[g] = y[g]
  <2>1. "par" \in {"par"} /\ "par" \in Fields \ {"budget"} BY DEF Fields
  <2>2. Rec(y) BY <1>2
  <2> DEFINE f == "par"
             v == [y EXCEPT ![f] = q]
  <2>3. v = w OBVIOUS
  <2>4. f \in {"par"} /\ f \in Fields \ {"budget"} BY <2>1
  <2> HIDE DEF f, w
  <2>5. Changed(y, v, {"par"}) /\ Rec(v) /\ v.budget = y.budget /\ v[f] = q
        /\ \A g \in Fields \ {f} : v[g] = y[g] BY <2>2, <2>4, PutField
  <2> HIDE DEF v
  <2>6. QED BY <2>3, <2>5 DEF f
<1>8. w.n = 1 /\ w.val = y.val /\ w.product = "udxp" /\ w.error = FALSE /\ w.value = x
  BY <1>2, <1>5, <1>7 DEF Fields
<1>9. UdxpType(w) BY <1>5, <1>6, <1>7, <1>8 DEF UdxpType, BoardType, ParType, Big
<1> HIDE DEF w
<1>10. CASE o.ok = TRUE /\ o.m = w
  <2>1. Changed(b, y, Scratch \cup {"par"}) BY <1>2, ChangedMore
  <2>2. Changed(b, w, Scratch \cup {"par"}) BY <1>1, <1>7, <2>1, ChangedTwice
  <2>3. QED BY <1>8, <1>9, <1>10, <2>2 DEF Sized
<1>11. CASE o.ok = FALSE /\ Changed(y, o.m, {"budget"})
  <2>1. Changed(b, o.m, Scratch) BY <1>1, <1>2, <1>11, ChangedTwice DEF Scratch
  <2>2. Went(b, o) BY <1>11, <2>1 DEF Went
  <2>3. QED BY <1>11, <2>2, WentSized
<1>12. QED BY <1>2, <1>4, <1>10, <1>11, AccessOut

\* A number is read also after something else was.
LEMMA SizedThen ==
  ASSUME NEW b, UdxpType(b), NEW z, Went(b, z), NEW o, IF z.ok THEN Sized(z.m, o) ELSE o = z
  PROVE  Sized(b, o)
<1>1. Rec(b) BY UdxpIs
<1>2. CASE z.ok
  <2>1. Sized(z.m, o) /\ Changed(b, z.m, Scratch) BY <1>2 DEF Went
  <2>2. Changed(b, z.m, Scratch \cup {"par"}) BY <2>1, ChangedMore
  <2>3. Changed(b, o.m, Scratch \cup {"par"}) BY <1>1, <2>1, <2>2, ChangedTwice DEF Sized
  <2>4. QED BY <2>1, <2>3 DEF Sized
<1>3. CASE ~z.ok BY <1>3, WentSized
<1>4. QED BY <1>2, <1>3

\* The number of SCAs is read.
LEMMA NumScasOut ==
  ASSUME NEW b, UdxpType(b), NEW o \in UdxpGetNumScas(b, 1)
  PROVE  Sized(b, o)
<1> DEFINE x == b.par[1]["NUMSCA"]
<1>1. Rec(b) /\ x \in Nat BY UdxpIs
<1>2. CASE ~UdxpGetBoardFeatures(b, "sca")
  <2>1. o \in Refused(b) BY <1>2 DEF UdxpGetNumScas
  <2>2. Went(b, o) /\ o.ok = FALSE BY <1>1, <2>1, RefusedOut
  <2>3. QED BY <2>2, WentSized
<1>3. CASE UdxpGetBoardFeatures(b, "sca")
  <2>1. PICK z \in UdxpGetParameter(b, 1, "NUMSCA") :
          IF z.ok THEN \/ o \in Done(z.m)
                       \/ o \in SetParameter([z.m EXCEPT !.value = MostScas(z.m)], 1, "NUMSCA",
                                             MostScas(z.m))
          ELSE o = z BY <1>3 DEF UdxpGetNumScas, Then
  <2>2. Went(b, z) /\ (z.ok => z.m.value = x) BY GetParameterOut
  <2> HIDE DEF x
  <2>3. UdxpType(z.m) BY <2>2, UdxpLater DEF Went
  <2> DEFINE l == z.m
             v == MostScas(l)
  <2>4. v \in Nat BY MostScasIs
  <2>5. ASSUME z.ok PROVE Sized(l, o)
    <3>1. CASE o \in Done(l)
      <4>1. Rec(l) /\ UdxpType(l) BY <2>3, UdxpIs
      <4>2. l.value = x BY <2>2, <2>5
      <4> HIDE DEF l
      <4>3. Went(l, o) /\ o.ok = TRUE /\ o.m = l BY <3>1, <4>1, DoneOut
      <4>4. o.m.value \in Nat BY <1>1, <4>2, <4>3
      <4>5. QED BY <4>1, <4>3, <4>4, WentSized
    <3>2. CASE o \in SetParameter([l EXCEPT !.value = v], 1, "NUMSCA", v)
      <4>1. UdxpType(l) BY <2>3
      <4> HIDE DEF l, v
      <4>2. QED BY <2>4, <3>2, <4>1, SetBackOut
    <3>3. QED BY <2>1, <2>5, <3>1, <3>2
  <2>6. IF z.ok THEN Sized(z.m, o) ELSE o = z BY <2>1, <2>5
  <2>7. QED BY <2>2, <2>6, SizedThen
<1>4. QED BY <1>2, <1>3

\* Another board of the same kind.
LEMMA UdxpAlso ==
  ASSUME NEW l, UdxpType(l), NEW y, Rec(y), y.product = l.product, y.n = l.n, y.error = l.error,
         y.par = l.par, y.val \in [1..1 -> ValType]
  PROVE  UdxpType(y)
<1>1. l.n = 1 /\ l.product = "udxp" /\ l.error = FALSE BY UdxpIs
<1>2. l.par \in [1..l.n -> ParType(l.product)] /\ l.n = (IF l.product \in Big THEN ModuleChannels ELSE 1)
      /\ l.product \in Big \cup {"saturn", "udxp"} BY DEF UdxpType, BoardType
<1>3. QED BY <1>1, <1>2 DEF UdxpType, BoardType

\* What was read is learned.
LEMMA NowKnown ==
  ASSUME NEW b, UdxpType(b), NEW n \in KnownSizes, n \notin b.known, NEW z, Sized(b, z), z.ok = TRUE,
         NEW o \in Done(Knowing(z.m, n))
  PROVE  Knows(b, n, o)
<1> SUFFICES Learned(b, o) /\ n \in o.m.known /\ o.m.value = o.m.val[1][n] BY DEF Knows
<1> DEFINE l == z.m
           x == l.value
           q == [l.val EXCEPT ![1] = [l.val[1] EXCEPT ![n] = x]]
           K == l.known \cup {n}
           y == [l EXCEPT !.val = q]
           w == [y EXCEPT !.known = K]
<1>1. Rec(b) /\ UdxpType(l) /\ Changed(b, l, Scratch \cup {"par"}) /\ x \in Nat BY UdxpIs DEF Sized
<1>2. Rec(l) /\ l.n = 1 /\ l.product = "udxp" /\ l.error = FALSE
  <2> HIDE DEF l
  <2>1. QED BY <1>1, UdxpIs
<1>3. l.val \in [1..1 -> ValType] /\ l.val = b.val /\ l.known = b.known
  <2>1. l.val \in [1..1 -> ValType] BY <1>1, <1>2 DEF UdxpType, BoardType
  <2>2. l.val = b.val /\ l.known = b.known BY <1>1 DEF Changed, Scratch, Fields
  <2>3. QED BY <2>1, <2>2
<1>4. o.ok = TRUE /\ o.m = w
  <2>1. o.m = [l EXCEPT !.val[1][n] = x, !.known = K] /\ o.ok = TRUE BY DoneIs DEF Knowing
  <2>2. [l EXCEPT !.val[1][n] = x, !.known = K] = w BY <1>2 DEF Rec, Fields
  <2>3. QED BY <2>1, <2>2
<1>5. /\ q \in [1..1 -> ValType] /\ q[1][n] = x
      /\ \A m \in b.known : q[1][m] = b.val[1][m]
  <2> HIDE DEF l, x
  <2>1. l.val[1] \in ValType BY <1>3
  <2> DEFINE r == [l.val[1] EXCEPT ![n] = x]
  <2>2. r \in ValType /\ r[n] = x /\ \A m : m # n => r[m] = l.val[1][m]
    BY <1>1, <2>1 DEF ValType, KnownSizes
  <2>3. q = [l.val EXCEPT ![1] = r] OBVIOUS
  <2> HIDE DEF r, q
  <2>4. q \in [1..1 -> ValType] /\ q[1] = r BY <1>3, <2>2, <2>3
  <2>5. QED BY <1>3, <2>2, <2>4
<1> HIDE DEF q, x, K
<1>6. /\ Changed(l, y, {"val"}) /\ Rec(y) /\ y.val = q
      /\ \A g \in Fields \ {"val"} : y[g] = l[g]
  <2> DEFINE f == "val"
             v == [l EXCEPT ![f] = q]
  <2>1. f \in {"val"} /\ f \in Fields \ {"budget"} BY DEF Fields
  <2>2. v = y OBVIOUS
  <2>a. Rec(l) BY <1>2
  <2> HIDE DEF f, y, l
  <2>3. Changed(l, v, {"val"}) /\ Rec(v) /\ v[f] = q /\ \A g \in Fields \ {f} : v[g] = l[g]
    BY <2>a, <2>1, PutField
  <2> HIDE DEF v
  <2>4. QED BY <2>2, <2>3 DEF f
<1> HIDE DEF y
<1>7. /\ Changed(y, w, {"known"}) /\ Rec(w) /\ w.known = K
      /\ \A g \in Fields \ {"known"} : w[g] = y[g]
  <2> DEFINE f == "known"
             v == [y EXCEPT ![f] = K]
  <2>1. f \in {"known"} /\ f \in Fields \ {"budget"} BY DEF Fields
  <2>2. v = w OBVIOUS
  <2>a. Rec(y) BY <1>6
  <2> HIDE DEF f, w
  <2>3. Changed(y, v, {"known"}) /\ Rec(v) /\ v[f] = K /\ \A g \in Fields \ {f} : v[g] = y[g]
    BY <2>a, <2>1, PutField
  <2> HIDE DEF v
  <2>4. QED BY <2>2, <2>3 DEF f
<1> HIDE DEF w
<1>8. /\ w.n = l.n /\ w.product = l.product /\ w.error = l.error /\ w.par = l.par /\ w.val = q
      /\ w.value = x
  <2>1. {"n", "product", "error", "par", "value"} \subseteq (Fields \ {"known"}) \cap (Fields \ {"val"})
        /\ "val" \in Fields \ {"known"} BY DEF Fields
  <2> HIDE DEF l
  <2>2. w.n = l.n /\ w.product = l.product /\ w.error = l.error /\ w.par = l.par /\ w.value = l.value
    BY <1>6, <1>7, <2>1
  <2>3. w.val = q BY <1>6, <1>7, <2>1
  <2>4. QED BY <2>2, <2>3 DEF x, l
<1>9. UdxpType(w)
  <2> HIDE DEF l
  <2>1. QED BY <1>1, <1>5, <1>7, <1>8, UdxpAlso
<1>10. Changed(b, w, Scratch \cup {"par", "val", "known"})
  <2> DEFINE S == Scratch \cup {"par", "val", "known"}
  <2>1. Scratch \cup {"par"} \subseteq S /\ {"val"} \subseteq S /\ {"known"} \subseteq S OBVIOUS
  <2> HIDE DEF S, l
  <2>2. Changed(b, l, S) BY <1>1, <2>1, ChangedMore
  <2>3. Changed(b, y, S) BY <1>1, <1>6, <2>1, <2>2, ChangedTwice
  <2>4. Changed(b, w, S) BY <1>1, <1>7, <2>1, <2>3, ChangedTwice
  <2>5. QED BY <2>4 DEF S
<1>11. b.known \subseteq w.known /\ n \in w.known BY <1>3, <1>7 DEF K
<1>12. w.val[1][n] = w.value /\ \A m \in b.known : w.val[1][m] = b.val[1][m] BY <1>5, <1>8
<1>13. QED BY <1>4, <1>9, <1>10, <1>11, <1>12 DEF Learned

\* An entry that was read is read no more.
LEMMA KnownOut ==
  ASSUME NEW b, UdxpType(b), NEW n \in KnownSizes, NEW outs, \A z \in outs : Sized(b, z),
         NEW o \in UdxpGetAcquisitionValues(b, 1, n, outs)
  PROVE  Learned(b, o) /\ (o.ok => n \in o.m.known /\ o.m.value = o.m.val[1][n])
<1>1. CASE n \in b.known
  <2> DEFINE x == b.val[1][n]
             y == [b EXCEPT !.value = x]
  <2>1. o.ok = TRUE /\ o.m = y BY <1>1, DoneIs DEF UdxpGetAcquisitionValues
  <2>2. Rec(b) BY UdxpIs
  <2>3. Changed(b, y, Scratch) /\ y.value = x
    <3> HIDE DEF x
    <3>1. QED BY <2>2, PutScratch
  <2>4. Went(b, o)
    <3> HIDE DEF y
    <3>1. QED BY <2>1, <2>3 DEF Went
  <2>5. y.val = b.val /\ y.known = b.known
    <3> HIDE DEF y
    <3>1. QED BY <2>3 DEF Changed, Scratch, Fields
  <2>6. Learned(b, o) BY <2>4, WentLearned
  <2> HIDE DEF y
  <2>7. QED BY <1>1, <2>1, <2>3, <2>5, <2>6
<1>2. CASE n \notin b.known
  <2>1. PICK z \in outs :
          IF z.ok THEN o \in Done([z.m EXCEPT !.val[1][n] = z.m.value, !.known = @ \cup {n}])
          ELSE o = z BY <1>2 DEF UdxpGetAcquisitionValues, Then
  <2>2. Sized(b, z) /\ z.ok \in BOOLEAN BY <2>1 DEF Sized
  <2>3. CASE z.ok = TRUE
    <3>1. o \in Done(Knowing(z.m, n)) BY <2>1, <2>3 DEF Knowing
    <3>2. UdxpType(b) /\ n \in KnownSizes OBVIOUS
    <3>3. Knows(b, n, o) BY ONLY <1>2, <2>2, <2>3, <3>1, <3>2, NowKnown
    <3>4. QED BY <3>3 DEF Knows
  <2>4. CASE z.ok = FALSE
    <3>1. o = z BY <2>1, <2>4
    <3>2. Changed(b, z.m, Scratch \cup {"par"}) /\ UdxpType(z.m) BY <2>2 DEF Sized
    <3>3. Changed(b, z.m, Scratch \cup {"par", "val", "known"}) BY <3>2, ChangedMore
    <3>4. z.m.val = b.val /\ z.m.known = b.known BY <3>2 DEF Changed, Scratch, Fields
    <3>5. QED BY <2>4, <3>1, <3>2, <3>3, <3>4 DEF Learned
  <2>5. QED BY <2>2, <2>3, <2>4
<1>3. QED BY <1>1, <1>2

\* The number that became known, as an answer.
LEMMA LearnedNumber ==
  ASSUME NEW b, UdxpType(b), NEW n, NEW z, Learned(b, z),
         z.ok => n \in z.m.known /\ z.m.value = z.m.val[1][n],
         NEW o, IF z.ok THEN o \in Number(z.m, z.m.value) ELSE o = z
  PROVE  /\ Learned(b, o)
         /\ o.ok => /\ n \in o.m.known
                    /\ \E t : o.m.got = <<{Figure(o.m.val[1][n], t)}>>
<1>1. CASE ~z.ok BY <1>1
<1>2. CASE z.ok
  <2> DEFINE l == z.m
             x == l.value
  <2>1. Rec(b) /\ UdxpType(l) /\ Changed(b, l, Scratch \cup {"par", "val", "known"})
        /\ b.known \subseteq l.known /\ (\A m \in b.known : l.val[1][m] = b.val[1][m])
        /\ n \in l.known /\ x = l.val[1][n] BY <1>2, UdxpIs DEF Learned
  <2>2. Rec(l) /\ o \in Number(l, x)
    <3> HIDE DEF l
    <3>1. Rec(l) BY <2>1, UdxpIs
    <3>2. QED BY <1>2, <3>1 DEF l
  <2> HIDE DEF l, x
  <2>3. Numbered(l, o, x) BY <2>2, NumberOut
  <2>4. o.ok = TRUE BY <2>2, NumberSends
  <2>5. Changed(l, o.m, Scratch) /\ \E t : o.m.got = <<{Figure(x, t)}>>
    BY <2>3, <2>4 DEF Numbered, Went
  <2>6. UdxpType(o.m) BY <2>1, <2>5, UdxpLater
  <2>7. o.m.known = l.known /\ o.m.val = l.val BY <2>5 DEF Changed, Scratch, Fields
  <2>8. Changed(b, o.m, Scratch \cup {"par", "val", "known"})
    <3> DEFINE S == Scratch \cup {"par", "val", "known"}
    <3>1. Scratch \subseteq S OBVIOUS
    <3> HIDE DEF S
    <3>2. QED BY <2>1, <2>5, <3>1, ChangedTwice DEF S
  <2>9. Learned(b, o) BY <2>1, <2>4, <2>6, <2>7, <2>8 DEF Learned
  <2>10. QED BY <2>1, <2>5, <2>7, <2>9
<1>3. QED BY <1>1, <1>2

\* The length of the spectrum that is told is the one that is known.
LEMMA UdxpMcaLengthOut ==
  ASSUME NEW b, UdxpType(b), NEW o \in UdxpGetMCALength(b, 1)
  PROVE  /\ Learned(b, o)
         /\ o.ok => /\ "number_mca_channels" \in o.m.known
                    /\ \E t : o.m.got = <<{Figure(o.m.val[1]["number_mca_channels"], t)}>>
<1> DEFINE n == "number_mca_channels"
           outs == UdxpGetNumMCA(b, 1)
<1>1. n \in KnownSizes /\ \A z \in outs : Sized(b, z) BY NumMCAOut DEF KnownSizes
<1>2. PICK z \in UdxpGetAcquisitionValues(b, 1, n, outs) :
        IF z.ok THEN o \in Number(z.m, z.m.value) ELSE o = z BY DEF UdxpGetMCALength, Then
<1> HIDE DEF n, outs
<1>3. Learned(b, z) /\ (z.ok => n \in z.m.known /\ z.m.value = z.m.val[1][n])
  BY <1>1, <1>2, KnownOut
<1>4. Learned(b, o) /\ (o.ok => n \in o.m.known /\ \E t : o.m.got = <<{Figure(o.m.val[1][n], t)}>>)
  BY <1>2, <1>3, LearnedNumber
<1>5. QED BY <1>4 DEF n

\* The number of SCAs is told.
LEMMA UdxpScaLengthOut ==
  ASSUME NEW b, UdxpType(b), NEW o \in UdxpGetSCALength(b, 1)
  PROVE  Learned(b, o) /\ (o.ok => \E x, t : o.m.got = <<{Figure(x, t)}>>)
<1> DEFINE n == "number_of_scas"
           outs == UdxpGetNumScas(b, 1)
<1>1. n \in KnownSizes /\ \A z \in outs : Sized(b, z) BY NumScasOut DEF KnownSizes
<1>2. PICK z \in UdxpGetAcquisitionValues(b, 1, n, outs) :
        IF z.ok THEN o \in Number(z.m, z.m.value) ELSE o = z BY DEF UdxpGetSCALength, Then
<1> HIDE DEF n, outs
<1>3. Learned(b, z) /\ (z.ok => n \in z.m.known /\ z.m.value = z.m.val[1][n])
  BY <1>1, <1>2, KnownOut
<1>4. Learned(b, o) /\ (o.ok => n \in o.m.known /\ \E t : o.m.got = <<{Figure(o.m.val[1][n], t)}>>)
  BY <1>2, <1>3, LearnedNumber
<1>5. QED BY <1>4

\* The number of SCAs of the snapshot is told.
LEMMA SnapshotScaLenOut ==
  ASSUME NEW b, UdxpType(b), NEW o \in UdxpGetSnapshotScaLen(b, 1)
  PROVE  Learned(b, o) /\ (o.ok => \E x, t : o.m.got = <<{Figure(x, t)}>>)
<1>1. o \in UdxpGetSCALength(b, 1) BY DEF UdxpGetSnapshotScaLen, UdxpGetSCALength
<1>2. QED BY <1>1, UdxpScaLengthOut

\* The length of the snapshot's spectrum is told.
LEMMA SnapshotMcaLenOut ==
  ASSUME NEW b, UdxpType(b), NEW o \in UdxpGetSnapshotMcaLen(b, 1)
  PROVE  \E x : Numbered(b, o, x)
<1> DEFINE x == b.par[1]["MCALEN"]
<1>1. PICK z \in UdxpGetParameter(b, 1, "MCALEN") :
        IF z.ok THEN o \in Number(z.m, z.m.value) ELSE o = z BY DEF UdxpGetSnapshotMcaLen, Then
<1>2. Went(b, z) /\ (z.ok => z.m.value = x) BY GetParameterOut
<1> HIDE DEF x
<1>3. Rec(b) /\ Rec(z.m) BY <1>2, UdxpIs, WentRec
<1>4. IF z.ok THEN Numbered(z.m, o, x) ELSE o = z BY <1>1, <1>2, <1>3, NumberOut
<1>5. QED BY <1>2, <1>3, <1>4, NumberedThen

\* Whether a run is active is told.
LEMMA UdxpRunActiveOut ==
  ASSUME NEW b, UdxpType(b), NEW o \in UdxpGetRunActive(b)
  PROVE  \E x : Numbered(b, o, x)
<1>1. PICK z \in Looking(b) :
        IF z.ok THEN o \in Number(z.m, IF z.m.running THEN 1 ELSE 0) ELSE o = z
  BY DEF UdxpGetRunActive, Then
<1>2. Rec(b) BY UdxpIs
<1>3. Looked(b, z) BY <1>1, <1>2, LookingOut
<1> DEFINE x == IF z.m.running THEN 1 ELSE 0
<1>4. IF z.ok THEN o \in Number(z.m, x) ELSE o = z BY <1>1
<1> HIDE DEF x
<1>5. Numbered(b, o, x) BY <1>2, <1>3, <1>4, LookedNumber
<1>6. QED BY <1>5

-----------------------------------------------------------------------------
(* Whatever is asked of a microDXP. *)

\* Data that are sent are what a microDXP teaches.
LEMMA SendsTeaches ==
  ASSUME NEW b, UdxpType(b), NEW n, n # "mca_length", NEW o, NEW P, NEW when, Sends(b, o, P, when),
         when \in {"once", "snap"} \/ n \in ByWords(b), n \in SnapshotNames => when = "snap",
         n \in Promising => P = UdxpWanted(b, n)
  PROVE  Teaches(b, n, o)
<1>1. Went(b, o) BY DEF Sends
<1>2. Learned(b, o) BY <1>1, WentLearned
<1>3. QED BY <1>1, <1>2 DEF Teaches, Sends, Timed

\* A number is.
LEMMA NumberTeaches ==
  ASSUME NEW b, UdxpType(b), NEW n, n \notin Promising, n # "mca_length", NEW o, NEW x,
         Numbered(b, o, x)
  PROVE  Teaches(b, n, o)
<1>1. Went(b, o) BY DEF Numbered
<1>2. Learned(b, o) BY <1>1, WentLearned
<1>3. o.ok => \E t : Since(o.m.got, t) BY NumberedOnce
<1>4. n \notin SnapshotNames BY DEF Promising
<1>5. QED BY <1>2, <1>3, <1>4 DEF Teaches

\* A refusal is.
LEMMA FailedTeaches ==
  ASSUME NEW b, UdxpType(b), NEW n, NEW o \in Refused(b)
  PROVE  Teaches(b, n, o)
<1>1. Went(b, o) /\ o.ok = FALSE BY UdxpIs, RefusedOut
<1>2. Learned(b, o) BY <1>1, WentLearned
<1>3. QED BY <1>1, <1>2 DEF Teaches

\* A number is of one instant.
LEMMA FigureOnce ==
  ASSUME NEW x, NEW t, NEW got, got = <<{Figure(x, t)}>>
  PROVE  Since(got, t)
<1>1. DOMAIN got = 1..1 /\ got[1] = {Figure(x, t)} OBVIOUS
<1>2. QED BY <1>1 DEF Since, Figure

\* A number that is learned is.
LEMMA LearnedTeaches ==
  ASSUME NEW b, UdxpType(b), NEW n, n \notin Promising, NEW o, Learned(b, o),
         o.ok => \E x, t : o.m.got = <<{Figure(x, t)}>>,
         n = "mca_length" /\ o.ok =>
              /\ "number_mca_channels" \in o.m.known
              /\ \E t : o.m.got = <<{Figure(o.m.val[1]["number_mca_channels"], t)}>>
  PROVE  Teaches(b, n, o)
<1>1. o.ok => \E t : Since(o.m.got, t) BY FigureOnce
<1>2. n \notin SnapshotNames BY DEF Promising
<1>3. QED BY <1>1, <1>2 DEF Teaches

\* One of the nine numbers, of the run.
LEMMA RunPickTeaches ==
  ASSUME NEW b, UdxpType(b), NEW n \in Counters, NEW i \in 1..9,
         NEW o \in Picked(UdxpGetModuleStatistics(b, 1), i),
         Sources(b, n) = Sources(b, NineNames[i])
  PROVE  Teaches(b, n, o)
<1> DEFINE S == Sources(b, NineNames[i])
           area == "stat"
           outs == UdxpGetModuleStatistics(b, 1)
<1>1. Rec(b) /\ BoardType(b) /\ b.product = "udxp" BY UdxpIs DEF UdxpType
<1>2. \A z \in outs : Converted(b, z, area) BY <1>1, UdxpStatisticsOut
<1>3. TimeOf(area) = "once" BY TimesOf
<1>4. o \in Picked(outs, i) OBVIOUS
<1>5. Sources(b, n) = S OBVIOUS
<1> HIDE DEF S, area, outs
<1>6. Sends(b, o, Of(1, S), TimeOf(area)) BY <1>1, <1>2, <1>4, PickedOut DEF S
<1>7. n # "mca_length" /\ n \notin SnapshotNames /\ n \in Picks
  BY DEF Counters, SnapshotNames, Picks
<1>8. UdxpWanted(b, n) = Of(1, S) BY <1>5, <1>7 DEF UdxpWanted, Picks, Counters, GatedNames
<1>9. QED BY <1>3, <1>6, <1>7, <1>8, SendsTeaches

\* One of those of the gate.
LEMMA GatePickTeaches ==
  ASSUME NEW b, UdxpType(b), NEW n \in GatedNames, n \in Picks, NEW i \in 1..9,
         NEW o \in Picked(UdxpGetGatedStatistics(b, 1), i),
         Sources(b, n) = Sources(b, NineNames[i])
  PROVE  Teaches(b, n, o)
<1> DEFINE S == Sources(b, NineNames[i])
           area == "snapstat"
           outs == UdxpGetGatedStatistics(b, 1)
<1>1. Rec(b) /\ BoardType(b) /\ b.product = "udxp" BY UdxpIs DEF UdxpType
<1>2. \A z \in outs : Converted(b, z, area) BY <1>1, GatedStatsOut
<1>3. TimeOf(area) = "snap" BY TimesOf
<1>4. o \in Picked(outs, i) OBVIOUS
<1>5. Sources(b, n) = S OBVIOUS
<1> HIDE DEF S, area, outs
<1>6. Sends(b, o, Of(1, S), TimeOf(area)) BY <1>1, <1>2, <1>4, PickedOut DEF S
<1>7. n # "mca_length" /\ n \notin SnapshotNames BY DEF GatedNames, SnapshotNames
<1>8. UdxpWanted(b, n) = Of(1, S) BY <1>5, <1>7 DEF UdxpWanted, Picks, Counters, GatedNames
<1>9. QED BY <1>3, <1>6, <1>7, <1>8, SendsTeaches

\* The order of the numbers of a run.
LEMMA NineAt ==
  /\ NineNames[1] = "realtime" /\ NineNames[2] = "trigger_livetime"
  /\ NineNames[3] = "energy_livetime" /\ NineNames[4] = "triggers" /\ NineNames[5] = "mca_events"
  /\ NineNames[6] = "input_count_rate" /\ NineNames[7] = "output_count_rate" BY DEF NineNames

\* Numbers of different names that are made of the same counters.
LEMMA SourcesAgree ==
  ASSUME NEW b, b.product = "udxp"
  PROVE  /\ Sources(b, "total_output_events") = Sources(b, "mca_events")
         /\ Sources(b, "realtime_gated") = Sources(b, "realtime")
         /\ Sources(b, "livetime_gated") = Sources(b, "trigger_livetime")
         /\ Sources(b, "triggers_gated") = Sources(b, "triggers")
         /\ Sources(b, "events_in_run_gated") = Sources(b, "mca_events")
         /\ Sources(b, "input_count_rate_gated") = Sources(b, "input_count_rate")
         /\ Sources(b, "output_count_rate_gated") = Sources(b, "output_count_rate")
<1>1. Sources(b, "total_output_events") = {"events"} /\ Sources(b, "mca_events") = {"events"}
      /\ Sources(b, "events_in_run_gated") = {"events"} BY DEF Sources
<1>2. Sources(b, "realtime_gated") = {"realtime"} /\ Sources(b, "realtime") = {"realtime"}
  BY DEF Sources
<1>3. Sources(b, "livetime_gated") = {"trigger_livetime"}
      /\ Sources(b, "trigger_livetime") = {"trigger_livetime"} BY DEF Sources
<1>4. Sources(b, "triggers_gated") = {"triggers"} /\ Sources(b, "triggers") = {"triggers"}
  BY DEF Sources
<1>5. Sources(b, "input_count_rate_gated") = {"triggers", "trigger_livetime"}
      /\ Sources(b, "input_count_rate") = {"triggers", "trigger_livetime"} BY DEF Sources
<1>6. Sources(b, "output_count_rate_gated") = Sources(b, "output_count_rate") BY DEF Sources
<1>7. QED BY <1>1, <1>2, <1>3, <1>4, <1>5, <1>6

\* Each number of a run is computed from its own counters.
LEMMA UdxpCountersTeach ==
  ASSUME NEW b, UdxpType(b), NEW n \in Counters, NEW o \in UdxpGetRunData(b, 1, n)
  PROVE  Teaches(b, n, o)

<1>a. b.product = "udxp" BY UdxpIs
<1>1. CASE n = "realtime"
  <2>1. o \in UdxpGetRuntime(b, 1) BY <1>1, SMTT(30) DEF UdxpGetRunData
  <2>2. o \in Picked(UdxpGetModuleStatistics(b, 1), 1) BY <2>1 DEF UdxpGetRuntime
  <2>3. Sources(b, n) = Sources(b, NineNames[1]) BY <1>1, <1>a, NineAt, SourcesAgree
  <2>4. 1 \in 1..9 OBVIOUS
  <2>5. QED BY <1>a, <1>1, <2>2, <2>3, <2>4, RunPickTeaches
<1>2. CASE n = "trigger_livetime"
  <2>1. o \in UdxpGetLivetime(b, 1) BY <1>2, SMTT(30) DEF UdxpGetRunData
  <2>2. o \in Picked(UdxpGetModuleStatistics(b, 1), 2) BY <2>1 DEF UdxpGetLivetime
  <2>3. Sources(b, n) = Sources(b, NineNames[2]) BY <1>2, <1>a, NineAt, SourcesAgree
  <2>4. 2 \in 1..9 OBVIOUS
  <2>5. QED BY <1>a, <1>2, <2>2, <2>3, <2>4, RunPickTeaches
<1>3. CASE n = "energy_livetime"
  <2>1. o \in UdxpGetELivetime(b, 1) BY <1>3, SMTT(30) DEF UdxpGetRunData
  <2>2. o \in Picked(UdxpGetModuleStatistics(b, 1), 3) BY <2>1 DEF UdxpGetELivetime
  <2>3. Sources(b, n) = Sources(b, NineNames[3]) BY <1>3, <1>a, NineAt, SourcesAgree
  <2>4. 3 \in 1..9 OBVIOUS
  <2>5. QED BY <1>a, <1>3, <2>2, <2>3, <2>4, RunPickTeaches
<1>4. CASE n = "triggers"
  <2>1. o \in UdxpGetTriggers(b, 1) BY <1>4, SMTT(30) DEF UdxpGetRunData
  <2>2. o \in Picked(UdxpGetModuleStatistics(b, 1), 4) BY <2>1 DEF UdxpGetTriggers
  <2>3. Sources(b, n) = Sources(b, NineNames[4]) BY <1>4, <1>a, NineAt, SourcesAgree
  <2>4. 4 \in 1..9 OBVIOUS
  <2>5. QED BY <1>a, <1>4, <2>2, <2>3, <2>4, RunPickTeaches
<1>5. CASE n = "mca_events"
  <2>1. o \in UdxpGetEvents(b, 1) BY <1>5, SMTT(30) DEF UdxpGetRunData
  <2>2. o \in Picked(UdxpGetModuleStatistics(b, 1), 5) BY <2>1 DEF UdxpGetEvents
  <2>3. Sources(b, n) = Sources(b, NineNames[5]) BY <1>5, <1>a, NineAt, SourcesAgree
  <2>4. 5 \in 1..9 OBVIOUS
  <2>5. QED BY <1>a, <1>5, <2>2, <2>3, <2>4, RunPickTeaches
<1>6. CASE n = "total_output_events"
  <2>1. o \in UdxpGetEvents(b, 1) BY <1>6, SMTT(30) DEF UdxpGetRunData
  <2>2. o \in Picked(UdxpGetModuleStatistics(b, 1), 5) BY <2>1 DEF UdxpGetEvents
  <2>3. Sources(b, n) = Sources(b, NineNames[5]) BY <1>6, <1>a, NineAt, SourcesAgree
  <2>4. 5 \in 1..9 OBVIOUS
  <2>5. QED BY <1>a, <1>6, <2>2, <2>3, <2>4, RunPickTeaches
<1>7. CASE n = "input_count_rate"
  <2>1. o \in UdxpGetICR(b, 1) BY <1>7, SMTT(30) DEF UdxpGetRunData
  <2>2. o \in Picked(UdxpGetModuleStatistics(b, 1), 6) BY <2>1 DEF UdxpGetICR
  <2>3. Sources(b, n) = Sources(b, NineNames[6]) BY <1>7, <1>a, NineAt, SourcesAgree
  <2>4. 6 \in 1..9 OBVIOUS
  <2>5. QED BY <1>a, <1>7, <2>2, <2>3, <2>4, RunPickTeaches
<1>8. CASE n = "output_count_rate"
  <2>1. o \in UdxpGetOCR(b, 1) BY <1>8, SMTT(30) DEF UdxpGetRunData
  <2>2. o \in Picked(UdxpGetModuleStatistics(b, 1), 7) BY <2>1 DEF UdxpGetOCR
  <2>3. Sources(b, n) = Sources(b, NineNames[7]) BY <1>8, <1>a, NineAt, SourcesAgree
  <2>4. 7 \in 1..9 OBVIOUS
  <2>5. QED BY <1>a, <1>8, <2>2, <2>3, <2>4, RunPickTeaches
<1>q. QED BY <1>1, <1>2, <1>3, <1>4, <1>5, <1>6, <1>7, <1>8 DEF Counters

\* So is each gated number.
LEMMA UdxpGatedTeach ==
  ASSUME NEW b, UdxpType(b), NEW n \in GatedNames, n \in Picks, NEW o \in UdxpGetRunData(b, 1, n)
  PROVE  Teaches(b, n, o)
<1>a. b.product = "udxp" BY UdxpIs
<1>1. CASE n = "realtime_gated"
  <2>1. o \in UdxpGetGatedRuntime(b, 1) BY <1>1, SMTT(30) DEF UdxpGetRunData
  <2>2. o \in Picked(UdxpGetGatedStatistics(b, 1), 1) BY <2>1 DEF UdxpGetGatedRuntime
  <2>3. Sources(b, n) = Sources(b, NineNames[1]) BY <1>1, <1>a, NineAt, SourcesAgree
  <2>4. 1 \in 1..9 OBVIOUS
  <2>5. QED BY <1>a, <1>1, <2>2, <2>3, <2>4, GatePickTeaches
<1>2. CASE n = "livetime_gated"
  <2>1. o \in UdxpGetGatedLivetime(b, 1) BY <1>2, SMTT(30) DEF UdxpGetRunData
  <2>2. o \in Picked(UdxpGetGatedStatistics(b, 1), 2) BY <2>1 DEF UdxpGetGatedLivetime
  <2>3. Sources(b, n) = Sources(b, NineNames[2]) BY <1>2, <1>a, NineAt, SourcesAgree
  <2>4. 2 \in 1..9 OBVIOUS
  <2>5. QED BY <1>a, <1>2, <2>2, <2>3, <2>4, GatePickTeaches
<1>3. CASE n = "triggers_gated"
  <2>1. o \in UdxpGetGatedTriggers(b, 1) BY <1>3, SMTT(30) DEF UdxpGetRunData
  <2>2. o \in Picked(UdxpGetGatedStatistics(b, 1), 4) BY <2>1 DEF UdxpGetGatedTriggers
  <2>3. Sources(b, n) = Sources(b, NineNames[4]) BY <1>3, <1>a, NineAt, SourcesAgree
  <2>4. 4 \in 1..9 OBVIOUS
  <2>5. QED BY <1>a, <1>3, <2>2, <2>3, <2>4, GatePickTeaches
<1>4. CASE n = "events_in_run_gated"
  <2>1. o \in UdxpGetGatedEvents(b, 1) BY <1>4, SMTT(30) DEF UdxpGetRunData
  <2>2. o \in Picked(UdxpGetGatedStatistics(b, 1), 5) BY <2>1 DEF UdxpGetGatedEvents
  <2>3. Sources(b, n) = Sources(b, NineNames[5]) BY <1>4, <1>a, NineAt, SourcesAgree
  <2>4. 5 \in 1..9 OBVIOUS
  <2>5. QED BY <1>a, <1>4, <2>2, <2>3, <2>4, GatePickTeaches
<1>5. CASE n = "input_count_rate_gated"
  <2>1. o \in UdxpGetGatedICR(b, 1) BY <1>5, SMTT(30) DEF UdxpGetRunData
  <2>2. o \in Picked(UdxpGetGatedStatistics(b, 1), 6) BY <2>1 DEF UdxpGetGatedICR
  <2>3. Sources(b, n) = Sources(b, NineNames[6]) BY <1>5, <1>a, NineAt, SourcesAgree
  <2>4. 6 \in 1..9 OBVIOUS
  <2>5. QED BY <1>a, <1>5, <2>2, <2>3, <2>4, GatePickTeaches
<1>6. CASE n = "output_count_rate_gated"
  <2>1. o \in UdxpGetGatedOCR(b, 1) BY <1>6, SMTT(30) DEF UdxpGetRunData
  <2>2. o \in Picked(UdxpGetGatedStatistics(b, 1), 7) BY <2>1 DEF UdxpGetGatedOCR
  <2>3. Sources(b, n) = Sources(b, NineNames[7]) BY <1>6, <1>a, NineAt, SourcesAgree
  <2>4. 7 \in 1..9 OBVIOUS
  <2>5. QED BY <1>a, <1>6, <2>2, <2>3, <2>4, GatePickTeaches
<1>q. QED BY <1>1, <1>2, <1>3, <1>4, <1>5, <1>6 DEF GatedNames, Picks

\* What is asked for by each name.
LEMMA BlocksWanted ==
  ASSUME NEW b
  PROVE  /\ \A n \in {"module_statistics_2", "module_statistics_gated", "snapshot_statistics"} :
               UdxpWanted(b, n) = NineOf(b)
         /\ \A n \in {"mca", "mca_gated", "snapshot_mca"} : UdxpWanted(b, n) = McaItems(b, 1)
         /\ \A n \in {"sca", "snapshot_sca"} : UdxpWanted(b, n) = ScaItems(b, 1)
         /\ UdxpWanted(b, "baseline") = Histograms(b, 1)
         /\ UdxpWanted(b, "values") = Params(b, 1)
<1>1. Picks \cap {"module_statistics_2", "module_statistics_gated", "snapshot_statistics", "mca",
                  "mca_gated", "snapshot_mca", "sca", "snapshot_sca", "baseline", "values"} = {}
  BY DEF Picks, Counters, GatedNames
<1>2. QED BY <1>1 DEF UdxpWanted

\* A block of data, or a length, or nothing.
LEMMA UdxpOthersTeach ==
  ASSUME NEW b, UdxpType(b),
         NEW n \in {"all_statistics", "module_statistics_2", "module_statistics_gated", "mca",
                    "mca_gated", "sca", "baseline", "mca_length", "baseline_length", "run_active",
                    "max_sca_length", "sca_length", "unknown"},
         NEW o \in UdxpGetRunData(b, 1, n)
  PROVE  Teaches(b, n, o)
<1>a. Rec(b) /\ b.product = "udxp" /\ b.n = 1 /\ BoardType(b) BY UdxpIs DEF UdxpType
<1>b. n \notin SnapshotNames BY DEF SnapshotNames
<1>1. CASE n = "all_statistics"
  <2>1. o \in UdxpGetAllStatistics(b, 1) BY <1>1, SMTT(30) DEF UdxpGetRunData
  <2>2. Went(b, o) /\ (o.ok => \E t : Since(o.m.got, t)) BY <1>a, <2>1, AllStatisticsOut
  <2>3. Learned(b, o) BY <2>2, WentLearned
  <2>4. n \notin Promising /\ n # "mca_length"
    BY <1>1 DEF Promising, Counters, GatedNames, SnapshotNames
  <2>5. QED BY <1>b, <2>2, <2>3, <2>4 DEF Teaches
<1>2. CASE n = "module_statistics_2"
  <2>1. o \in UdxpGetModuleStatistics(b, 1) BY <1>2, SMTT(30) DEF UdxpGetRunData
  <2>2. Converted(b, o, "stat") BY <1>a, <2>1, UdxpStatisticsOut
  <2>3. Sends(b, o, NineOf(b), "once") BY <1>a, <2>2, NinedSends, TimesOf
  <2>4. UdxpWanted(b, n) = NineOf(b) BY <1>2, BlocksWanted
  <2>5. QED BY <1>b, <1>2, <2>3, <2>4, SendsTeaches
<1>3. CASE n = "module_statistics_gated"
  <2>1. o \in UdxpGetGatedStatistics(b, 1) BY <1>3, SMTT(30) DEF UdxpGetRunData
  <2>2. Converted(b, o, "snapstat") BY <1>a, <2>1, GatedStatsOut
  <2>3. Sends(b, o, NineOf(b), "snap") BY <1>a, <2>2, NinedSends, TimesOf
  <2>4. UdxpWanted(b, n) = NineOf(b) BY <1>3, BlocksWanted
  <2>5. QED BY <1>b, <1>3, <2>3, <2>4, SendsTeaches
<1>4. CASE n = "mca"
  <2>1. o \in UdxpGetMCAData(b, 1) BY <1>4, SMTT(30) DEF UdxpGetRunData
  <2>2. Sends(b, o, McaItems(b, 1), "once") /\ UdxpWanted(b, n) = McaItems(b, 1)
    BY <1>4, <2>1, UdxpMcaOut, BlocksWanted
  <2>3. QED BY <1>b, <1>4, <2>2, SendsTeaches
<1>5. CASE n = "mca_gated"
  <2>1. o \in UdxpGetGatedMCAData(b, 1) BY <1>5, SMTT(30) DEF UdxpGetRunData
  <2>2. Sends(b, o, McaItems(b, 1), "snap") /\ UdxpWanted(b, n) = McaItems(b, 1)
    BY <1>5, <2>1, GatedMcaOut, BlocksWanted
  <2>3. QED BY <1>b, <1>5, <2>2, SendsTeaches
<1>6. CASE n = "sca"
  <2>1. o \in UdxpGetSCAData(b, 1) BY <1>6, SMTT(30) DEF UdxpGetRunData
  <2>2. Sends(b, o, ScaItems(b, 1), "once") /\ UdxpWanted(b, n) = ScaItems(b, 1)
    BY <1>6, <2>1, UdxpScaOut, BlocksWanted
  <2>3. QED BY <1>b, <1>6, <2>2, SendsTeaches
<1>7. CASE n = "baseline"
  <2>1. o \in UdxpGetBaseline(b, 1) BY <1>7, SMTT(30) DEF UdxpGetRunData
  <2>2. Sends(b, o, Histograms(b, 1), "once") /\ UdxpWanted(b, n) = Histograms(b, 1)
    BY <1>7, <2>1, UdxpBaselineOut, BlocksWanted
  <2>3. QED BY <1>b, <1>7, <2>2, SendsTeaches
<1>c. CASE n \in {"mca_length", "baseline_length", "run_active", "max_sca_length", "sca_length",
                  "unknown"}
  <2>a. n \notin Promising BY <1>c, NoPromise
  <2>1. CASE n = "mca_length"
    <3>1. o \in UdxpGetMCALength(b, 1) BY <2>1, SMTT(30) DEF UdxpGetRunData
    <3>2. /\ Learned(b, o)
          /\ o.ok => /\ "number_mca_channels" \in o.m.known
                     /\ \E t : o.m.got = <<{Figure(o.m.val[1]["number_mca_channels"], t)}>>
      BY <3>1, UdxpMcaLengthOut
    <3>3. QED BY <2>a, <3>2, LearnedTeaches
  <2>2. CASE n = "sca_length"
    <3>1. o \in UdxpGetSCALength(b, 1) BY <2>2, SMTT(30) DEF UdxpGetRunData
    <3>2. Learned(b, o) /\ (o.ok => \E x, t : o.m.got = <<{Figure(x, t)}>>)
      BY <3>1, UdxpScaLengthOut
    <3>3. QED BY <2>a, <2>2, <3>2, LearnedTeaches
  <2>3. CASE n = "baseline_length"
    <3>1. o \in UdxpGetBaseHistogramLen(b) BY <2>3, SMTT(30) DEF UdxpGetRunData
    <3>2. Numbered(b, o, BaseLen) BY <1>a, <3>1, NumberOut DEF UdxpGetBaseHistogramLen
    <3>3. QED BY <2>a, <2>3, <3>2, NumberTeaches
  <2>4. CASE n = "max_sca_length"
    <3>1. o \in UdxpGetMaxSCALength(b) BY <2>4, SMTT(30) DEF UdxpGetRunData
    <3>2. Numbered(b, o, MostScas(b)) BY <1>a, <3>1, NumberOut DEF UdxpGetMaxSCALength
    <3>3. QED BY <2>a, <2>4, <3>2, NumberTeaches
  <2>5. CASE n = "run_active"
    <3>1. o \in UdxpGetRunActive(b) BY <2>5, SMTT(30) DEF UdxpGetRunData
    <3>2. \E x : Numbered(b, o, x) BY <3>1, UdxpRunActiveOut
    <3>3. QED BY <2>a, <2>5, <3>2, NumberTeaches
  <2>6. CASE n = "unknown"
    <3>1. o \in Refused(b) BY <2>6, SMTT(30) DEF UdxpGetRunData
    <3>2. QED BY <3>1, FailedTeaches
  <2>7. QED BY <1>c, <2>1, <2>2, <2>3, <2>4, <2>5, <2>6
<1>8. QED BY <1>1, <1>2, <1>3, <1>4, <1>5, <1>6, <1>7, <1>c

\* What a microDXP teaches by any name.
LEMMA UdxpTeaches ==
  ASSUME NEW b, UdxpType(b), NEW n \in Names(b), NEW o \in UdxpGetRunData(b, 1, n)
  PROVE  Teaches(b, n, o)
<1> DEFINE Rest == {"all_statistics", "module_statistics_2", "module_statistics_gated", "mca",
                    "mca_gated", "sca", "baseline", "mca_length", "baseline_length", "run_active",
                    "max_sca_length", "sca_length", "unknown"}
<1>1. b.product = "udxp" /\ b.product # "stj" /\ b.product \notin Big BY UdxpIs DEF Big
<1>2. n \in Counters \/ n \in GatedNames \/ n \in Rest BY <1>1 DEF Names, ScaNames, BaselineNames
<1>3. n \in Counters \/ (n \in GatedNames /\ n \in Picks) \/ n \in Rest BY <1>2 DEF Picks
<1>4. CASE n \in Counters BY <1>4, UdxpCountersTeach
<1>5. CASE n \in GatedNames /\ n \in Picks BY <1>5, UdxpGatedTeach
<1>6. CASE n \in Rest BY <1>6, UdxpOthersTeach
<1>7. QED BY <1>3, <1>4, <1>5, <1>6

\* Those of a snapshot.
LEMMA SpecialTeaches ==
  ASSUME NEW b, UdxpType(b), NEW n \in SpecialNames, NEW o \in UdxpGetSpecialRunData(b, 1, n)
  PROVE  Teaches(b, n, o)
<1>a. Rec(b) /\ b.product = "udxp" /\ b.n = 1 /\ BoardType(b) BY UdxpIs DEF UdxpType
<1>1. CASE n = "snapshot_mca"
  <2>1. o \in UdxpGetSnapshotMca(b, 1) BY <1>1, SMTT(30) DEF UdxpGetSpecialRunData
  <2>2. Sends(b, o, McaItems(b, 1), "snap") /\ UdxpWanted(b, n) = McaItems(b, 1)
    BY <1>1, <2>1, SnapshotMcaOut, BlocksWanted
  <2>3. QED BY <1>1, <2>2, SendsTeaches
<1>2. CASE n = "snapshot_sca"
  <2>1. o \in UdxpGetSnapshotSca(b, 1) BY <1>2, SMTT(30) DEF UdxpGetSpecialRunData
  <2>2. Sends(b, o, ScaItems(b, 1), "snap") /\ UdxpWanted(b, n) = ScaItems(b, 1)
    BY <1>2, <2>1, SnapshotScaOut, BlocksWanted
  <2>3. QED BY <1>2, <2>2, SendsTeaches
<1>3. CASE n = "snapshot_statistics"
  <2>1. o \in UdxpGetSnapshotStats(b, 1) BY <1>3, SMTT(30) DEF UdxpGetSpecialRunData
  <2>2. Converted(b, o, "snapstat") BY <1>a, <2>1, SnapshotStatsOut
  <2>3. Sends(b, o, NineOf(b), "snap") BY <1>a, <2>2, NinedSends, TimesOf
  <2>4. UdxpWanted(b, n) = NineOf(b) BY <1>3, BlocksWanted
  <2>5. QED BY <1>3, <2>3, <2>4, SendsTeaches
<1>4. CASE n = "snapshot_mca_length"
  <2>1. o \in UdxpGetSnapshotMcaLen(b, 1) BY <1>4, SMTT(30) DEF UdxpGetSpecialRunData
  <2>2. n \notin Promising BY <1>4 DEF Promising, Counters, GatedNames, SnapshotNames
  <2>3. QED BY <1>4, <2>1, <2>2, SnapshotMcaLenOut, NumberTeaches
<1>5. CASE n = "snapshot_statistics_length"
  <2>1. o \in UdxpGetSnapshotStatsLen(b) BY <1>5, SMTT(30) DEF UdxpGetSpecialRunData
  <2>2. n \notin Promising BY <1>5 DEF Promising, Counters, GatedNames, SnapshotNames
  <2>3. Numbered(b, o, 9) BY <1>a, <2>1, NumberOut DEF UdxpGetSnapshotStatsLen
  <2>4. QED BY <1>5, <2>2, <2>3, NumberTeaches
<1>6. CASE n = "snapshot_sca_length"
  <2>1. o \in UdxpGetSnapshotScaLen(b, 1) BY <1>6, SMTT(30) DEF UdxpGetSpecialRunData
  <2>2. n \notin Promising BY <1>6 DEF Promising, Counters, GatedNames, SnapshotNames
  <2>3. Learned(b, o) /\ (o.ok => \E x, t : o.m.got = <<{Figure(x, t)}>>) BY <2>1, SnapshotScaLenOut
  <2>4. QED BY <1>6, <2>2, <2>3, LearnedTeaches
<1>7. CASE n = "unknown"
  <2>1. o \in Refused(b) BY <1>7, SMTT(30) DEF UdxpGetSpecialRunData
  <2>2. QED BY <2>1, FailedTeaches
<1>8. QED BY <1>1, <1>2, <1>3, <1>4, <1>5, <1>6, <1>7 DEF SpecialNames, SnapshotNames

\* What it teaches by its parameters.
LEMMA ValuesTeach ==
  ASSUME NEW b, UdxpType(b), NEW o \in UdxpGetParamValues(b, 1)
  PROVE  Teaches(b, "values", o)
<1>1. Rec(b) /\ b.product = "udxp" /\ b.error = FALSE BY UdxpIs
<1>2. Sends(b, o, Params(b, 1), "any") BY <1>1, ParamsSend DEF UdxpGetParamValues
<1>3. "values" \in ByWords(b) /\ "values" \notin SnapshotNames BY <1>1 DEF ByWords, SnapshotNames
<1>4. UdxpWanted(b, "values") = Params(b, 1) BY BlocksWanted
<1>5. QED BY <1>2, <1>3, <1>4, SendsTeaches

-----------------------------------------------------------------------------
(* Where the words of a module are: each spectrum behind those of the        *)
(* channels below, all of them below the SCAs.                               *)

\* What the memory of a module has room for.
LEMMA LaidIs ==
  ASSUME NEW b, Laid(b)
  PROVE  /\ b.n = ModuleChannels /\ b.n \in Nat \ {0} /\ MaxBins \in Nat /\ Header(b) \in Nat
         /\ b.n <= Header(b) /\ Header(b) + (b.n * MaxBins) <= ScaMemBase /\ ScaMemBase \in Nat
         /\ b.n <= ScaMemBase
         /\ \A j \in 1..b.n : b.laid[j] \in 0..MaxBins
<1>1. BoardType(b) /\ b.product \in Big /\ b.laid \in [1..b.n -> 0..MaxBins] BY DEF Laid
<1>2. b.n = ModuleChannels /\ b.n \in Nat \ {0} BY <1>1, BigType
<1>3. MaxBins \in Nat /\ Block \in Nat /\ StjStats \in Nat /\ ScaMemBase \in Nat
      /\ ModuleChannels \in Nat BY SizesAssumption
<1>4. /\ ModuleChannels <= Block /\ ModuleChannels <= StjStats
      /\ Block + (ModuleChannels * MaxBins) <= ScaMemBase
      /\ StjStats + (ModuleChannels * MaxBins) <= ScaMemBase BY LayoutAssumption
<1>5. Header(b) = Block \/ Header(b) = StjStats BY DEF Header
<1>6. ModuleChannels * MaxBins \in Nat BY <1>3
<1>7. b.n <= Header(b) /\ Header(b) + (b.n * MaxBins) <= ScaMemBase /\ Header(b) \in Nat
  BY <1>2, <1>3, <1>4, <1>5
<1>8. b.n <= ScaMemBase BY <1>2, <1>3, <1>6, <1>7
<1>9. \A j \in 1..b.n : b.laid[j] \in 0..MaxBins BY <1>1
<1>10. QED BY <1>2, <1>3, <1>7, <1>8, <1>9

\* The spectra are one above the other, below the SCAs.
LEMMA Placed ==
  ASSUME NEW b, Laid(b), NEW c \in 1..b.n
  PROVE  /\ Start(b, c) \in Nat /\ Header(b) <= Start(b, c)
         /\ Start(b, c) + b.laid[c] <= ScaMemBase
         /\ \A d \in (c + 1)..b.n : Start(b, c) + b.laid[c] <= Start(b, d)
<1> DEFINE L == b.laid
           n == b.n
           w == MaxBins
           h == Header(b)
<1>1. /\ n \in Nat \ {0} /\ w \in Nat /\ h \in Nat /\ h + (n * w) <= ScaMemBase /\ ScaMemBase \in Nat
      /\ \A j \in 1..n : L[j] \in 0..w BY LaidIs
<1>2. c \in 1..n OBVIOUS
<1> HIDE DEF L, n, w, h
<1>3. \A d \in 1..(n + 1) : Ahead(L, d) \in Nat /\ Ahead(L, d) <= (d - 1) * w BY <1>1, AheadBounds
<1>4. \A d \in (c + 1)..(n + 1) : Ahead(L, c) + L[c] <= Ahead(L, d) BY <1>1, <1>2, AheadGrows
<1>5. n + 1 \in 1..(n + 1) /\ n + 1 \in (c + 1)..(n + 1) /\ c \in 1..(n + 1) /\ (n + 1) - 1 = n
  BY <1>1, <1>2
<1>6. Ahead(L, n + 1) \in Nat /\ Ahead(L, n + 1) <= n * w /\ Ahead(L, c) + L[c] <= Ahead(L, n + 1)
      /\ Ahead(L, c) \in Nat /\ L[c] \in Nat /\ n * w \in Nat BY <1>1, <1>2, <1>3, <1>4, <1>5
<1>7. \A d \in (c + 1)..n : Ahead(L, c) + L[c] <= Ahead(L, d) /\ Ahead(L, d) \in Nat
  BY <1>1, <1>2, <1>3, <1>4
<1>8. \A d : Start(b, d) = h + Ahead(L, d) BY DEF Start, h, L
<1>9. Start(b, c) \in Nat /\ h <= Start(b, c) /\ Start(b, c) + L[c] <= ScaMemBase
  BY <1>1, <1>6, <1>8
<1>10. \A d \in (c + 1)..n : Start(b, c) + L[c] <= Start(b, d) BY <1>1, <1>6, <1>7, <1>8
<1>11. QED BY <1>9, <1>10 DEF L, n, h

\* A word of a spectrum is its channel's, and no other's.
LEMMA BinAt ==
  ASSUME NEW b, Laid(b), NEW c \in 1..b.n, NEW i \in 1..b.laid[c], NEW e
  PROVE  Item(b, e, "burst", Start(b, c) + i - 1) = <<"bin", c, i - 1>>
<1> DEFINE a == Start(b, c) + i - 1
           owner == {x \in Chans(b) : a - Start(b, x) \in 0..(b.laid[x] - 1)}
<1>1. /\ b.n \in Nat /\ b.n <= Header(b) /\ Header(b) \in Nat /\ ScaMemBase \in Nat
      /\ \A j \in 1..b.n : b.laid[j] \in Nat BY LaidIs
<1>2. \A x \in 1..b.n : Start(b, x) \in Nat BY Placed
<1>3. Header(b) <= Start(b, c) /\ Start(b, c) + b.laid[c] <= ScaMemBase
      /\ \A d \in (c + 1)..b.n : Start(b, c) + b.laid[c] <= Start(b, d) BY Placed
<1>4. i \in Nat /\ i >= 1 /\ i <= b.laid[c] /\ c \in Nat BY <1>1
<1>5. a \in Nat /\ a >= b.n /\ a < ScaMemBase /\ a - Start(b, c) = i - 1 BY <1>1, <1>2, <1>3, <1>4
<1>6. c \in owner BY <1>1, <1>4, <1>5 DEF Chans
<1>7. ASSUME NEW x \in owner PROVE x = c
  <2>1. x \in 1..b.n /\ a - Start(b, x) \in 0..(b.laid[x] - 1) BY <1>7 DEF Chans
  <2> HIDE DEF a, owner
  <2>2. Start(b, x) <= a /\ a < Start(b, x) + b.laid[x] BY <1>1, <1>2, <1>5, <2>1
  <2>3. Start(b, c) <= a /\ a < Start(b, c) + b.laid[c] BY <1>1, <1>2, <1>4, <1>5
  <2>4. CASE x < c
    <3>1. c \in (x + 1)..b.n BY <1>1, <2>1, <2>4
    <3>2. Start(b, x) + b.laid[x] <= Start(b, c) BY <2>1, <3>1, Placed
    <3>3. QED BY <1>1, <1>2, <1>5, <2>1, <2>2, <2>3, <3>2
  <2>5. CASE c < x
    <3>1. x \in (c + 1)..b.n BY <1>1, <2>1, <2>5
    <3>2. Start(b, c) + b.laid[c] <= Start(b, x) BY <1>3, <3>1
    <3>3. QED BY <1>1, <1>2, <1>5, <2>1, <2>2, <2>3, <3>2
  <2>6. QED BY <1>1, <2>1, <2>4, <2>5
<1>8. owner = {c} BY <1>6, <1>7
<1>9. (CHOOSE x \in owner : TRUE) = c /\ owner # {} BY <1>8
<1>10. MemoryWord(b, a) = Cell(b, c, "bin", a - Start(b, c))
  <2> HIDE DEF a
  <2>1. ~(a < b.n) /\ ~(a >= ScaMemBase) BY <1>1, <1>5
  <2>2. QED BY <1>9, <2>1 DEF MemoryWord
<1>11. WordAt(b, e, "burst", a) = Cell(b, c, "bin", i - 1) BY <1>5, <1>10 DEF WordAt
<1>12. QED BY <1>11 DEF Item, Triple, Cell

\* A word of the SCAs.
LEMMA ScaWordAt ==
  ASSUME NEW b, Laid(b), NEW c \in 1..b.n, NEW j \in 0..(ScaOffset - 1), NEW e
  PROVE  Item(b, e, "burst", ScaAt(c) + j) = <<"sca", c, j>>
<1> DEFINE a == ScaAt(c) + j
<1>1. b.n \in Nat /\ ScaMemBase \in Nat /\ b.n <= ScaMemBase BY LaidIs
<1>2. ScaOffset \in Nat /\ ScaOffset > 0 BY SizesAssumption
<1>3. (c - 1) * ScaOffset \in Nat /\ c \in Nat BY <1>1, <1>2
<1>4. a \in Nat /\ a - ScaMemBase = ((c - 1) * ScaOffset) + j /\ a >= ScaMemBase /\ ~(a < b.n)
  BY <1>1, <1>2, <1>3 DEF ScaAt
<1>5. (((c - 1) * ScaOffset) + j) \div ScaOffset = c - 1 /\ (((c - 1) * ScaOffset) + j) % ScaOffset = j
  BY <1>2, <1>3
<1> HIDE DEF a
<1>6. MemoryWord(b, a) = Cell(b, 1 + (c - 1), "sca", j) BY <1>4, <1>5 DEF MemoryWord
<1>7. 1 + (c - 1) = c BY <1>3
<1>8. WordAt(b, e, "burst", a) = Cell(b, c, "sca", j) BY <1>6, <1>7 DEF WordAt
<1>9. QED BY <1>8 DEF Item, Triple, Cell, a

-----------------------------------------------------------------------------
(* Each number is of its name and its channel. *)

\* An answer has the length of what it is made of.
LEMMA LenIs ==
  ASSUME NEW got, NEW Q, Is(got, Q), NEW m \in Nat, DOMAIN Q = 1..m
  PROVE  DOMAIN got = 1..m /\ Len(got) = m
<1>1. DOMAIN got = 1..m BY DEF Is
<1>2. QED BY <1>1

\* What is promised of a number of a run.
LEMMA PromiseOne ==
  ASSUME NEW b, NEW c, NEW n \in ModuleCounters \cup Picks, NEW len
  PROVE  Promise(b, c, n, len) = OneOf(b, c, n)
<1>1. n \notin {"mca", "mca_gated", "snapshot_mca", "baseline", "values", "module_mca", "sca",
                "snapshot_sca", "module_statistics", "module_statistics_2",
                "module_statistics_gated", "snapshot_statistics"}
  BY DEF ModuleCounters, Picks, Counters, GatedNames
<1>2. QED BY <1>1 DEF Promise, OneOf

\* What is promised of a spectrum, a baseline, the parameters and the SCAs.
LEMMA PromiseItems ==
  ASSUME NEW b, NEW c, NEW len
  PROVE  /\ \A n \in {"mca", "mca_gated", "snapshot_mca"} :
               Promise(b, c, n, len) = Items("bin", c, len)
         /\ Promise(b, c, "baseline", len) = Items("baseline", c, len)
         /\ Promise(b, c, "values", len) = Items("parameter", c, len)
         /\ \A n \in {"sca", "snapshot_sca"} : Promise(b, c, n, len) = ScaPairs(c, len)
  BY DEF Promise

\* What is promised of the statistics, seven numbers a channel.
LEMMA PromiseSeven ==
  ASSUME NEW b, NEW c, NEW len, b.n \in Nat
  PROVE  Promise(b, c, "module_statistics", len) = SevenOf(b)
<1> DEFINE F(j) == [i \in 1..7 |-> From(b, j, SevenNames[i])]
<1>1. Promise(b, c, "module_statistics", len)
        = [i \in 1..(b.n * 7) |-> F(1 + ((i - 1) \div 7))[1 + ((i - 1) % 7)]]
  BY DEF Promise, OfChannels
<1>2. ASSUME NEW i \in 1..(b.n * 7)
      PROVE  F(1 + ((i - 1) \div 7))[1 + ((i - 1) % 7)]
               = From(b, 1 + ((i - 1) \div 7), NineNames[1 + ((i - 1) % 7)])
  <2>1. i - 1 \in Nat OBVIOUS
  <2>2. 1 + ((i - 1) % 7) \in 1..7 BY <2>1
  <2>3. \A m \in 1..7 : SevenNames[m] = NineNames[m] BY DEF SevenNames, NineNames
  <2>4. QED BY <2>2, <2>3
<1>3. QED BY <1>1, <1>2 DEF SevenOf, RowsOf

\* Nine numbers a channel.
LEMMA PromiseNine ==
  ASSUME NEW b, NEW c, NEW len, b.n \in Nat,
         NEW n \in {"module_statistics_2", "module_statistics_gated", "snapshot_statistics"}
  PROVE  Promise(b, c, n, len) = NineOf(b)
<1> DEFINE F(j) == [i \in 1..9 |-> From(b, j, NineNames[i])]
<1>1. Promise(b, c, n, len)
        = [i \in 1..(b.n * 9) |-> F(1 + ((i - 1) \div 9))[1 + ((i - 1) % 9)]]
  BY DEF Promise, OfChannels
<1>2. ASSUME NEW i \in 1..(b.n * 9)
      PROVE  F(1 + ((i - 1) \div 9))[1 + ((i - 1) % 9)]
               = From(b, 1 + ((i - 1) \div 9), NineNames[1 + ((i - 1) % 9)])
  <2>1. i - 1 \in Nat OBVIOUS
  <2>2. 1 + ((i - 1) % 9) \in 1..9 BY <2>1
  <2>3. QED BY <2>2
<1>3. QED BY <1>1, <1>2 DEF NineOf, RowsOf

\* Of row i - 1 of a table whose rows are w wide.
LEMMA RowOf ==
  ASSUME NEW n \in Nat, NEW w \in Nat, NEW i \in 1..(n * w)
  PROVE  /\ w > 0 /\ 1 + ((i - 1) \div w) \in 1..n /\ 1 + ((i - 1) % w) \in 1..w
         /\ i - 1 = (((i - 1) \div w) * w) + ((i - 1) % w)
<1>1. n * w \in Nat /\ i \in Nat /\ i >= 1 /\ i <= n * w OBVIOUS
<1>2. w > 0
  <2>1. SUFFICES ASSUME w = 0 PROVE FALSE OBVIOUS
  <2>2. n * w = 0 BY <2>1
  <2>3. QED BY <1>1, <2>2
<1> DEFINE x == i - 1
           q == x \div w
           r == x % w
<1>3. x \in Nat /\ x < n * w BY <1>1
<1> HIDE DEF x
<1>4. q \in Nat /\ r \in 0..(w - 1) /\ x = (q * w) + r BY <1>2, <1>3
<1> HIDE DEF q, r
<1>5. q < n
  <2>1. SUFFICES ASSUME q >= n PROVE FALSE BY <1>4
  <2>2. q * w >= n * w BY <1>2, <1>4, <2>1
  <2>3. QED BY <1>1, <1>3, <1>4, <2>2
<1>6. QED BY <1>2, <1>4, <1>5 DEF x, q, r

\* What is promised of the spectra of a module whose channels are of one length.
LEMMA PromiseSpectra ==
  ASSUME NEW b, Laid(b), NEW c \in 1..b.n, NEW w \in Nat, \A j \in 1..b.n : b.laid[j] = w, NEW len
  PROVE  Promise(b, c, "module_mca", len) = AllItems(b, w)
<1> DEFINE F(j) == Items("bin", j, b.laid[j])
<1>1. b.laid[c] = w /\ b.n \in Nat BY LaidIs
<1>2. Promise(b, c, "module_mca", len)
        = [i \in 1..(b.n * w) |-> F(1 + ((i - 1) \div w))[1 + ((i - 1) % w)]]
  BY <1>1 DEF Promise, OfChannels
<1>3. ASSUME NEW i \in 1..(b.n * w)
      PROVE  F(1 + ((i - 1) \div w))[1 + ((i - 1) % w)]
               = {<<"bin", 1 + ((i - 1) \div w), (i - 1) % w>>}
  <2> DEFINE j == 1 + ((i - 1) \div w)
             r == 1 + ((i - 1) % w)
  <2>1. j \in 1..b.n /\ r \in 1..w BY <1>1, RowOf
  <2>2. b.laid[j] = w BY <2>1
  <2>3. r - 1 = (i - 1) % w BY <2>1
  <2>4. F(j)[r] = {<<"bin", j, r - 1>>}
    <3> HIDE DEF j, r
    <3>1. QED BY <2>1, <2>2 DEF Items
  <2>5. QED BY <2>3, <2>4
<1>4. QED BY <1>2, <1>3 DEF AllItems

-----------------------------------------------------------------------------
(* What a module's board holds is what its names promise. *)

\* The words where a spectrum is read are the spectrum of the channel.
LEMMA OwnBins ==
  ASSUME NEW b, Laid(b), SettledOn(b), NEW c \in 1..b.n, NEW got, Is(got, Bins(b, c))
  PROVE  Is(got, Items("bin", c, Len(got)))
<1> DEFINE m == Length(b, c)
<1>1. m = b.laid[c] /\ m \in Nat BY LaidIs DEF SettledOn
<1>2. Ahead(b.laid, c) = Below(b, c)
  <2>1. b.laid = [j \in 1..b.n |-> b.laid[j]] BY DEF Laid
  <2>2. [j \in Chans(b) |-> Length(b, j)] = b.laid BY <2>1 DEF SettledOn, Chans
  <2>3. QED BY <2>2 DEF Below
<1>3. Below(b, c) + Header(b) = Start(b, c) /\ Start(b, c) \in Nat
  <2>1. Start(b, c) = Header(b) + Ahead(b.laid, c) /\ Start(b, c) \in Nat /\ Header(b) \in Nat
    BY Placed, LaidIs DEF Start
  <2>2. Ahead(b.laid, c) \in Nat
    <3>1. \A d \in 1..(b.n + 1) : Ahead(b.laid, d) \in Nat BY LaidIs, AheadBounds
    <3>2. b.n \in Nat BY LaidIs
    <3>3. QED BY <3>1, <3>2
  <2>3. QED BY <1>2, <2>1, <2>2
<1> HIDE DEF m
<1>4. Bins(b, c) = Items("bin", c, m)
  <2>1. \A i \in 1..m : Item(b, c, "burst", Start(b, c) + i - 1) = <<"bin", c, i - 1>>
    BY <1>1, BinAt
  <2>2. Bins(b, c) = [i \in 1..m |-> {Item(b, c, "burst", Start(b, c) + i - 1)}]
    BY <1>3 DEF Bins, Words, m
  <2>3. QED BY <2>1, <2>2 DEF Items
<1>5. DOMAIN Items("bin", c, m) = 1..m BY DEF Items
<1>6. Len(got) = m BY <1>1, <1>4, <1>5, LenIs
<1>7. QED BY <1>4, <1>6

\* The block of a module's spectra is the spectra of its channels.
LEMMA OwnSpectra ==
  ASSUME NEW b, Laid(b), NEW c \in 1..b.n, NEW w, w = b.val[c]["number_mca_channels"],
         \A j \in 1..b.n : b.laid[j] = w, NEW got, Is(got, AllBins(b, c))
  PROVE  Is(got, AllItems(b, w)) /\ w \in Nat
<1>1. /\ b.n \in Nat \ {0} /\ MaxBins \in Nat /\ Header(b) \in Nat
      /\ \A j \in 1..b.n : b.laid[j] \in 0..MaxBins BY LaidIs
<1>2. w \in Nat /\ w * b.n = b.n * w BY <1>1
<1>3. ASSUME NEW j \in 1..b.n PROVE Ahead(b.laid, j) = (j - 1) * w
  <2> DEFINE L == b.laid
             n == b.n
  <2>n. n \in Nat BY <1>1
  <2>w. w \in Nat BY <1>2
  <2>a. \A x \in 1..n : L[x] = w BY <1>1
  <2> HIDE DEF L, n
  <2>b. \A d \in 1..(n + 1) : Ahead(L, d) = (d - 1) * w BY ONLY <2>n, <2>w, <2>a, AheadEven
  <2>1. \A d \in 1..(b.n + 1) : Ahead(b.laid, d) = (d - 1) * w BY <2>b DEF L, n
  <2>2. j \in 1..(b.n + 1) BY <1>1
  <2>3. QED BY <2>1, <2>2
<1>4. ASSUME NEW i \in 1..(b.n * w)
      PROVE  Item(b, c, "burst", Header(b) + i - 1) = <<"bin", 1 + ((i - 1) \div w), (i - 1) % w>>
  <2> DEFINE q == (i - 1) \div w
             r == (i - 1) % w
             j == 1 + q
             s == 1 + r
  <2>1. /\ j \in 1..b.n /\ s \in 1..w /\ i - 1 = (q * w) + r /\ q \in Nat /\ r \in Nat /\ i \in Nat
    <3>1. j \in 1..b.n /\ s \in 1..w /\ i - 1 = (q * w) + r BY <1>1, <1>2, RowOf
    <3>2. w > 0 BY <1>1, <1>2, RowOf
    <3>3. i - 1 \in Nat /\ i \in Nat BY <1>1, <1>2
    <3>4. QED BY <1>2, <3>1, <3>2, <3>3
  <2> HIDE DEF q, r
  <2>2. s \in 1..b.laid[j] BY <2>1
  <2>3. Start(b, j) = Header(b) + (q * w) /\ s - 1 = r BY <1>3, <2>1 DEF Start
  <2>4. Start(b, j) + s - 1 = Header(b) + i - 1 BY <1>1, <1>2, <2>1, <2>3
  <2>5. Item(b, c, "burst", Start(b, j) + s - 1) = <<"bin", j, s - 1>> BY <2>1, <2>2, BinAt
  <2>6. QED BY <2>3, <2>4, <2>5 DEF q, r
<1>5. AllBins(b, c) = AllItems(b, w) BY <1>2, <1>4 DEF AllBins, AllItems, Words
<1>6. QED BY <1>2, <1>5

\* The words where SCAs are read are the SCAs of the channel.
LEMMA OwnScas ==
  ASSUME NEW b, Laid(b), NEW c \in 1..b.n, b.val[c]["number_of_scas"] = c - 1, NEW got,
         Is(got, Scas(b, c))
  PROVE  Is(got, ScaPairs(c, Len(got)))
<1> DEFINE m == c - 1
<1>1. /\ b.n = ModuleChannels /\ b.n \in Nat \ {0} /\ ScaOffset \in Nat /\ ScaMemBase \in Nat
      /\ 2 * (ModuleChannels - 1) <= ScaOffset BY LaidIs, SizesAssumption, LayoutAssumption
<1>2. m \in Nat /\ c \in Nat /\ 2 * m <= ScaOffset BY <1>1
<1>3. ScaAt(c) \in Nat BY <1>1, <1>2 DEF ScaAt
<1> HIDE DEF m
<1>4. ASSUME NEW i \in 1..m
      PROVE  {Item(b, c, "burst", ScaAt(c) + ((2 * i) - 1) - 1), Item(b, c, "burst", ScaAt(c) + (2 * i) - 1)}
               = {<<"sca", c, (2 * i) - 2>>, <<"sca", c, (2 * i) - 1>>}
  <2> DEFINE x == (2 * i) - 2
             y == (2 * i) - 1
  <2>1. x \in 0..(ScaOffset - 1) /\ y \in 0..(ScaOffset - 1) BY <1>1, <1>2
  <2>2. ScaAt(c) + ((2 * i) - 1) - 1 = ScaAt(c) + x /\ ScaAt(c) + (2 * i) - 1 = ScaAt(c) + y
    BY <1>2, <1>3
  <2> HIDE DEF x, y
  <2>3. Item(b, c, "burst", ScaAt(c) + x) = <<"sca", c, x>>
        /\ Item(b, c, "burst", ScaAt(c) + y) = <<"sca", c, y>> BY <2>1, ScaWordAt
  <2>4. QED BY <2>2, <2>3 DEF x, y
<1>5. Scas(b, c) = ScaPairs(c, m) BY <1>4 DEF Scas, PairsOf, ScaPairs, m
<1>6. DOMAIN ScaPairs(c, m) = 1..m BY DEF ScaPairs
<1>7. Len(got) = m BY <1>2, <1>5, <1>6, LenIs
<1>8. QED BY <1>5, <1>7

\* Baselines and parameters, whatever the product.
LEMMA OwnHistogram ==
  ASSUME NEW b, NEW c, NEW got, Is(got, Histograms(b, c))
  PROVE  Is(got, Items("baseline", c, Len(got)))
<1>1. BaseLen \in Nat BY SizesAssumption
<1>2. ASSUME NEW i \in 1..BaseLen
      PROVE  {Item(b, c, "baseline", 0 + i - 1)} = {<<"baseline", c, i - 1>>}
  <2>1. WordAt(b, c, "baseline", 0 + i - 1) = Cell(b, c, "baseline", i - 1)
    BY <1>1 DEF WordAt, Histogram
  <2>2. QED BY <2>1 DEF Item, Triple, Cell
<1>3. Histograms(b, c) = Items("baseline", c, BaseLen) BY <1>2 DEF Histograms, Words, Items
<1>4. DOMAIN Items("baseline", c, BaseLen) = 1..BaseLen BY DEF Items
<1>5. Len(got) = BaseLen BY <1>1, <1>3, <1>4, LenIs
<1>6. QED BY <1>3, <1>5

\* The words where parameters are read are the parameters of the channel.
LEMMA OwnParams ==
  ASSUME NEW b, NEW c, NEW got, Is(got, Params(b, c))
  PROVE  Is(got, Items("parameter", c, Len(got)))
<1>2. ASSUME NEW i \in 1..2
      PROVE  {Item(b, c, "parameters", 0 + i - 1)} = {<<"parameter", c, i - 1>>}
  <2>1. WordAt(b, c, "parameters", 0 + i - 1) = Cell(b, c, "parameter", i - 1) BY DEF WordAt
  <2>2. QED BY <2>1 DEF Item, Triple, Cell
<1>3. Params(b, c) = Items("parameter", c, 2) BY <1>2 DEF Params, Words, Items
<1>4. DOMAIN Items("parameter", c, 2) = 1..2 /\ 2 \in Nat BY DEF Items
<1>5. Len(got) = 2 BY <1>3, <1>4, LenIs
<1>6. QED BY <1>3, <1>5

\* The names that promise something.
LEMMA ModuleNames ==
  ASSUME NEW b, b.product # "udxp", NEW n \in Names(b) \cup {"values"}, n \in Promising
  PROVE  n \in ModuleData /\ (b.product = "saturn" => n # "module_mca")
<1>1. Names(b) \subseteq ModuleData \cup {"mca_length", "run_active", "unknown", "max_sca_length",
                                    "sca_length", "baseline_length", "buffer_len",
                                    "list_buffer_len_a", "list_buffer_len_b"}
  BY DEF Names, ModuleData, ModuleCounters, ScaNames, BaselineNames
<1>2. n \in ModuleData BY <1>1, NoPromise DEF ModuleData
<1>3. ASSUME b.product = "saturn" PROVE n # "module_mca"
  <2>1. b.product \notin Big BY <1>3 DEF Big
  <2>2. "module_mca" \notin Names(b) BY <1>3, <2>1 DEF Names, Counters, ScaNames, BaselineNames
  <2>3. QED BY <2>2
<1>4. QED BY <1>2, <1>3

\* Whatever is read of a module is what is promised.
LEMMA ModuleOwn ==
  ASSUME NEW b, Laid(b), SettledOn(b), NEW c \in 1..b.n, b.val[c]["number_of_scas"] = c - 1,
         NEW n \in Names(b) \cup {"values"}, n \in Promising,
         n = "module_mca" => \A j \in 1..b.n : b.laid[j] = b.val[c]["number_mca_channels"],
         NEW got, Is(got, Wanted(b, c, n))
  PROVE  Is(got, Promise(b, c, n, Len(got)))
<1> DEFINE len == Len(got)
<1>a. b.product # "udxp" /\ b.n \in Nat BY LaidIs, BigType DEF Laid
<1> HIDE DEF len
<1>1. CASE n \in ModuleCounters
  <2>1. Wanted(b, c, n) = OneOf(b, c, n) BY <1>1, WantedIs
  <2>2. Promise(b, c, n, len) = OneOf(b, c, n) BY <1>1, PromiseOne
  <2>3. QED BY <2>1, <2>2 DEF len
<1>2. CASE n = "module_statistics"
  <2>1. Wanted(b, c, n) = SevenOf(b) /\ Promise(b, c, n, len) = SevenOf(b)
    BY <1>a, <1>2, WantedIs, PromiseSeven
  <2>2. QED BY <2>1 DEF len
<1>3. CASE n = "module_statistics_2"
  <2>1. Wanted(b, c, n) = NineOf(b) /\ Promise(b, c, n, len) = NineOf(b)
    BY <1>a, <1>3, WantedIs, PromiseNine
  <2>2. QED BY <2>1 DEF len
<1>4. CASE n = "mca"
  <2>1. Is(got, Bins(b, c)) /\ Promise(b, c, n, len) = Items("bin", c, len)
    BY <1>4, WantedIs, PromiseItems
  <2>2. QED BY <2>1, OwnBins DEF len
<1>5. CASE n = "module_mca"
  <2> DEFINE w == b.val[c]["number_mca_channels"]
  <2>1. Is(got, AllBins(b, c)) /\ \A j \in 1..b.n : b.laid[j] = w BY <1>5, WantedIs
  <2> HIDE DEF w
  <2>2. Is(got, AllItems(b, w)) /\ w \in Nat BY <2>1, OwnSpectra DEF w
  <2>3. Promise(b, c, "module_mca", len) = AllItems(b, w) BY <2>1, <2>2, PromiseSpectra
  <2>4. QED BY <1>5, <2>2, <2>3 DEF len
<1>6. CASE n = "sca"
  <2>1. Is(got, Scas(b, c)) /\ Promise(b, c, n, len) = ScaPairs(c, len)
    BY <1>6, WantedIs, PromiseItems
  <2>2. QED BY <2>1, OwnScas DEF len
<1>7. CASE n = "baseline"
  <2>1. Is(got, Histograms(b, c)) /\ Promise(b, c, n, len) = Items("baseline", c, len)
    BY <1>7, WantedIs, PromiseItems
  <2>2. QED BY <2>1, OwnHistogram DEF len
<1>8. CASE n = "values"
  <2>1. Is(got, Params(b, c)) /\ Promise(b, c, n, len) = Items("parameter", c, len)
    BY <1>8, WantedIs, PromiseItems
  <2>2. QED BY <2>1, OwnParams DEF len
<1>9. n \in ModuleData BY <1>a, ModuleNames
<1>10. QED BY <1>1, <1>2, <1>3, <1>4, <1>5, <1>6, <1>7, <1>8, <1>9 DEF ModuleData

-----------------------------------------------------------------------------
(* A Saturn whose defaults are those of its parameters. *)

\* What the type of a Saturn says.
LEMMA SaturnIs ==
  ASSUME NEW b, BoardType(b), b.product = "saturn"
  PROVE  /\ Rec(b) /\ b.n = 1 /\ b.val[1] \in ValType
         /\ b.par[1] \in [MCALIMLO : Nat, MCALIMHI : Nat, SPECTSTART : Nat]
<1>1. b.product \notin Big /\ b.product # "udxp" BY DEF Big
<1>2. b.n = 1 BY <1>1 DEF BoardType
<1>3. QED BY <1>1, <1>2 DEF BoardType, ParType

\* The words where a Saturn's spectrum is read are its spectrum.
LEMMA OwnSaturnBins ==
  ASSUME NEW b, BoardType(b), b.product = "saturn",
         b.val[1]["mca_start_address"] = b.par[1]["SPECTSTART"], NEW got, Is(got, SaturnBins(b, 1))
  PROVE  Is(got, Items("bin", 1, Len(got)))
<1> DEFINE m == b.val[1]["number_mca_channels"]
           a == b.val[1]["mca_start_address"]
<1>1. m \in Nat /\ a \in Nat /\ a = b.par[1]["SPECTSTART"] BY SaturnIs DEF ValType
<1>2. SaturnBins(b, 1) = Words(b, 1, "spectrum", a, m) BY DEF SaturnBins
<1> HIDE DEF m, a
<1>3. ASSUME NEW i \in 1..m PROVE {Item(b, 1, "spectrum", a + i - 1)} = {<<"bin", 1, i - 1>>}
  <2> DEFINE x == a + i - 1
  <2>1. x - b.par[1]["SPECTSTART"] = i - 1 /\ ~(i - 1 < 0) BY <1>1
  <2> HIDE DEF x
  <2>2. SpectrumWord(b, 1, x) = Cell(b, 1, "bin", i - 1) BY <2>1 DEF SpectrumWord
  <2>3. WordAt(b, 1, "spectrum", x) = Cell(b, 1, "bin", i - 1) BY <2>2 DEF WordAt
  <2>4. QED BY <2>3 DEF Item, Triple, Cell, x
<1>4. SaturnBins(b, 1) = Items("bin", 1, m) BY <1>2, <1>3 DEF Words, Items
<1>5. DOMAIN Items("bin", 1, m) = 1..m BY DEF Items
<1>6. Len(got) = m BY <1>1, <1>4, <1>5, LenIs
<1>7. QED BY <1>4, <1>6

\* The words where its SCAs are read are its SCAs.
LEMMA OwnSaturnScas ==
  ASSUME NEW b, BoardType(b), b.product = "saturn", NEW got, Is(got, SaturnScas(b, 1))
  PROVE  Is(got, ScaPairs(1, Len(got)))
<1> DEFINE m == b.val[1]["number_of_scas"]
<1>1. m \in Nat BY SaturnIs DEF ValType
<1>2. Block \in Nat /\ ScaMemBase \in Nat /\ Block <= ScaMemBase
  <2>1. Block \in Nat /\ ScaMemBase \in Nat /\ ModuleChannels * MaxBins \in Nat BY SizesAssumption
  <2>2. Block + (ModuleChannels * MaxBins) <= ScaMemBase BY LayoutAssumption
  <2>3. QED BY <2>1, <2>2
<1>3. ASSUME NEW j \in Nat PROVE Item(b, 1, "data", ScaMemBase + j) = <<"sca", 1, j>>
  <2> DEFINE x == ScaMemBase + j
  <2>1. ~(x < Block) /\ x >= ScaMemBase /\ x - ScaMemBase = j BY <1>2
  <2> HIDE DEF x
  <2>2. DataWord(b, 1, x) = Cell(b, 1, "sca", j) BY <2>1 DEF DataWord
  <2>3. WordAt(b, 1, "data", x) = Cell(b, 1, "sca", j) BY <2>2 DEF WordAt
  <2>4. QED BY <2>3 DEF Item, Triple, Cell, x
<1>4. SaturnScas(b, 1) = PairsOf(b, 1, "data", ScaMemBase, m) BY DEF SaturnScas
<1> HIDE DEF m
<1>5. ASSUME NEW i \in 1..m
      PROVE  {Item(b, 1, "data", ScaMemBase + ((2 * i) - 1) - 1), Item(b, 1, "data", ScaMemBase + (2 * i) - 1)}
               = {<<"sca", 1, (2 * i) - 2>>, <<"sca", 1, (2 * i) - 1>>}
  <2> DEFINE x == (2 * i) - 2
             y == (2 * i) - 1
  <2>1. x \in Nat /\ y \in Nat /\ ScaMemBase + ((2 * i) - 1) - 1 = ScaMemBase + x
        /\ ScaMemBase + (2 * i) - 1 = ScaMemBase + y BY <1>1, <1>2
  <2> HIDE DEF x, y
  <2>2. Item(b, 1, "data", ScaMemBase + x) = <<"sca", 1, x>>
        /\ Item(b, 1, "data", ScaMemBase + y) = <<"sca", 1, y>> BY <1>3, <2>1
  <2>3. QED BY <2>1, <2>2 DEF x, y
<1>6. SaturnScas(b, 1) = ScaPairs(1, m) BY <1>4, <1>5 DEF PairsOf, ScaPairs
<1>7. DOMAIN ScaPairs(1, m) = 1..m BY DEF ScaPairs
<1>8. Len(got) = m BY <1>1, <1>6, <1>7, LenIs
<1>9. QED BY <1>6, <1>8

\* Whatever is read of a Saturn is what is promised.
LEMMA SaturnOwn ==
  ASSUME NEW b, BoardType(b), b.product = "saturn",
         b.val[1]["mca_start_address"] = b.par[1]["SPECTSTART"],
         NEW n \in Names(b) \cup {"values"}, n \in Promising, NEW got, Is(got, SaturnWanted(b, 1, n))
  PROVE  Is(got, Promise(b, 1, n, Len(got)))
<1> DEFINE len == Len(got)
<1>a. b.product # "udxp" /\ b.n \in Nat BY SaturnIs
<1> HIDE DEF len
<1>1. CASE n \in ModuleCounters
  <2>1. SaturnWanted(b, 1, n) = OneOf(b, 1, n) BY <1>1, SaturnWantedIs
  <2>2. Promise(b, 1, n, len) = OneOf(b, 1, n) BY <1>1, PromiseOne
  <2>3. QED BY <2>1, <2>2 DEF len
<1>2. CASE n = "module_statistics"
  <2>1. SaturnWanted(b, 1, n) = SevenOf(b) /\ Promise(b, 1, n, len) = SevenOf(b)
    BY <1>a, <1>2, SaturnWantedIs, PromiseSeven
  <2>2. QED BY <2>1 DEF len
<1>3. CASE n = "module_statistics_2"
  <2>1. SaturnWanted(b, 1, n) = NineOf(b) /\ Promise(b, 1, n, len) = NineOf(b)
    BY <1>a, <1>3, SaturnWantedIs, PromiseNine
  <2>2. QED BY <2>1 DEF len
<1>4. CASE n = "mca"
  <2>1. Is(got, SaturnBins(b, 1)) /\ Promise(b, 1, n, len) = Items("bin", 1, len)
    BY <1>4, SaturnWantedIs, PromiseItems
  <2>2. QED BY <2>1, OwnSaturnBins DEF len
<1>6. CASE n = "sca"
  <2>1. Is(got, SaturnScas(b, 1)) /\ Promise(b, 1, n, len) = ScaPairs(1, len)
    BY <1>6, SaturnWantedIs, PromiseItems
  <2>2. QED BY <2>1, OwnSaturnScas DEF len
<1>7. CASE n = "baseline"
  <2>1. Is(got, Histograms(b, 1)) /\ Promise(b, 1, n, len) = Items("baseline", 1, len)
    BY <1>7, SaturnWantedIs, PromiseItems
  <2>2. QED BY <2>1, OwnHistogram DEF len
<1>8. CASE n = "values"
  <2>1. Is(got, Params(b, 1)) /\ Promise(b, 1, n, len) = Items("parameter", 1, len)
    BY <1>8, SaturnWantedIs, PromiseItems
  <2>2. QED BY <2>1, OwnParams DEF len
<1>9. n \in ModuleData /\ n # "module_mca" BY <1>a, ModuleNames
<1>10. QED BY <1>1, <1>2, <1>3, <1>4, <1>6, <1>7, <1>8, <1>9 DEF ModuleData

-----------------------------------------------------------------------------
(* A microDXP. *)

\* The names by which a microDXP promises something.
LEMMA UdxpNames ==
  ASSUME NEW b, UdxpType(b), NEW n \in Names(b) \cup SpecialNames \cup {"values"}, n \in Promising
  PROVE  n \in Picks \cup UdxpBlocks
<1>1. b.product = "udxp" /\ b.product # "stj" /\ b.product \notin Big BY UdxpIs DEF Big
<1>2. Names(b) \subseteq Picks \cup UdxpBlocks \cup {"mca_length", "run_active", "unknown",
                          "max_sca_length", "sca_length", "baseline_length", "all_statistics"}
  BY <1>1 DEF Names, Picks, UdxpBlocks, ScaNames, BaselineNames
<1>3. SpecialNames \subseteq UdxpBlocks \cup {"snapshot_mca_length", "snapshot_statistics_length",
                       "snapshot_sca_length", "unknown"}
  BY DEF SpecialNames, SnapshotNames, UdxpBlocks
<1>4. Promising \cap {"all_statistics", "snapshot_mca_length", "snapshot_statistics_length",
                       "snapshot_sca_length"} = {}
  BY DEF Promising, Counters, GatedNames, SnapshotNames
<1>5. QED BY <1>2, <1>3, <1>4, NoPromise DEF UdxpBlocks

\* The spectrum of a microDXP is its own.
LEMMA OwnUdxpBins ==
  ASSUME NEW b, UdxpType(b), NEW got, Is(got, McaItems(b, 1))
  PROVE  Is(got, Items("bin", 1, Len(got)))
<1> DEFINE m == b.val[1]["number_mca_channels"]
<1>1. m \in Nat /\ DOMAIN Items("bin", 1, m) = 1..m BY UdxpIs DEF Items
<1>2. McaItems(b, 1) = Items("bin", 1, m) BY DEF McaItems
<1> HIDE DEF m
<1>3. Len(got) = m BY <1>1, <1>2, LenIs
<1>4. QED BY <1>2, <1>3

\* So are its SCAs.
LEMMA OwnUdxpScas ==
  ASSUME NEW b, UdxpType(b), NEW got, Is(got, ScaItems(b, 1))
  PROVE  Is(got, ScaPairs(1, Len(got)))
<1> DEFINE m == b.val[1]["number_of_scas"]
<1>1. m \in Nat /\ DOMAIN ScaPairs(1, m) = 1..m BY UdxpIs DEF ScaPairs
<1>2. ScaItems(b, 1) = ScaPairs(1, m) BY DEF ScaItems
<1> HIDE DEF m
<1>3. Len(got) = m BY <1>1, <1>2, LenIs
<1>4. QED BY <1>2, <1>3

\* Whatever is read of a microDXP is what is promised.
LEMMA UdxpOwn ==
  ASSUME NEW b, UdxpType(b), NEW n \in Names(b) \cup SpecialNames \cup {"values"}, n \in Promising,
         NEW got, Is(got, UdxpWanted(b, n))
  PROVE  Is(got, Promise(b, 1, n, Len(got)))
<1> DEFINE len == Len(got)
<1>a. b.n \in Nat
  <2>1. b.n = 1 BY UdxpIs
  <2>2. QED BY <2>1
<1> HIDE DEF len
<1>1. CASE n \in Picks
  <2>a. \A m \in Blocks : m # n BY <1>1, BlocksApart
  <2>1. UdxpWanted(b, n) = Of(1, Sources(b, n)) BY <1>1, <2>a DEF UdxpWanted, Blocks
  <2>2. Promise(b, 1, n, len) = <<From(b, 1, n)>> BY <1>1, PromiseOne DEF OneOf
  <2>3. QED BY <2>1, <2>2, FromIs DEF len
<1>2. CASE n \in {"module_statistics_2", "module_statistics_gated", "snapshot_statistics"}
  <2>1. UdxpWanted(b, n) = NineOf(b) /\ Promise(b, 1, n, len) = NineOf(b)
    BY <1>a, <1>2, BlocksWanted, PromiseNine
  <2>2. QED BY <2>1 DEF len
<1>3. CASE n \in {"mca", "mca_gated", "snapshot_mca"}
  <2>1. Is(got, McaItems(b, 1)) /\ Promise(b, 1, n, len) = Items("bin", 1, len)
    BY <1>3, BlocksWanted, PromiseItems
  <2>2. QED BY <2>1, OwnUdxpBins DEF len
<1>4. CASE n \in {"sca", "snapshot_sca"}
  <2>1. Is(got, ScaItems(b, 1)) /\ Promise(b, 1, n, len) = ScaPairs(1, len)
    BY <1>4, BlocksWanted, PromiseItems
  <2>2. QED BY <2>1, OwnUdxpScas DEF len
<1>5. CASE n = "baseline"
  <2>1. Is(got, Histograms(b, 1)) /\ Promise(b, 1, n, len) = Items("baseline", 1, len)
    BY <1>5, BlocksWanted, PromiseItems
  <2>2. QED BY <2>1, OwnHistogram DEF len
<1>6. CASE n = "values"
  <2>1. Is(got, Params(b, 1)) /\ Promise(b, 1, n, len) = Items("parameter", 1, len)
    BY <1>6, BlocksWanted, PromiseItems
  <2>2. QED BY <2>1, OwnParams DEF len
<1>7. n \in Picks \cup UdxpBlocks BY UdxpNames
<1>8. QED BY <1>1, <1>2, <1>3, <1>4, <1>5, <1>6, <1>7 DEF UdxpBlocks

\* A promise is that of the board, however late.
LEMMA PromiseLater ==
  ASSUME NEW b, NEW l, Changed(b, l, Scratch), NEW c, NEW n, NEW len
  PROVE  Promise(l, c, n, len) = Promise(b, c, n, len)
<1>1. l.n = b.n /\ l.laid = b.laid /\ l.product = b.product /\ l.super = b.super
  BY DEF Changed, Scratch, Fields
<1>2. \A j, s : Sources(l, s) = Sources(b, s) BY <1>1 DEF Sources
<1>3. \A j, s : From(l, j, s) = From(b, j, s) BY <1>2 DEF From
<1>4. CASE n = "module_statistics" BY <1>1, <1>3, <1>4 DEF Promise, OfChannels
<1>5. CASE n \in {"module_statistics_2", "module_statistics_gated", "snapshot_statistics"}
  BY <1>1, <1>3, <1>5 DEF Promise, OfChannels
<1>6. CASE n = "module_mca" BY <1>1, <1>6 DEF Promise, OfChannels
<1>7. CASE n \notin {"module_statistics", "module_statistics_2", "module_statistics_gated",
                    "snapshot_statistics", "module_mca"} BY <1>3, <1>7 DEF Promise
<1>8. QED BY <1>4, <1>5, <1>6, <1>7

-----------------------------------------------------------------------------
(* What a board is between the calls. *)

\* What is known of a board only depends on these.
LEMMA AlsoStanding ==
  ASSUME NEW b, Standing(b), NEW l, Rec(l), l.product = b.product, l.n = b.n, l.par = b.par,
         l.val = b.val, l.error = b.error, l.mode = b.mode, l.laid = b.laid, l.scas = b.scas
  PROVE  Standing(l)
<1>1. BoardType(l) BY DEF Standing, BoardType
<1>2. Fits(l) BY DEF Standing, Fits
<1>3. QED BY <1>1, <1>2 DEF Standing

\* A call for data leaves a board that stands.
LEMMA StandingLater ==
  ASSUME NEW b, Standing(b), NEW l, Changed(b, l, Scratch)
  PROVE  /\ Standing(l) /\ l.par = b.par /\ l.val = b.val /\ l.known = b.known /\ l.snap = b.snap
         /\ l.n = b.n /\ l.product = b.product /\ l.error = b.error /\ l.laid = b.laid
         /\ l.mode = b.mode /\ l.pixels = b.pixels
<1>1. /\ l.product = b.product /\ l.n = b.n /\ l.par = b.par /\ l.val = b.val /\ l.error = b.error
      /\ l.mode = b.mode /\ l.laid = b.laid /\ l.scas = b.scas /\ l.known = b.known
      /\ l.snap = b.snap /\ l.pixels = b.pixels BY DEF Changed, Scratch, Fields
<1>2. Rec(l) BY DEF Changed
<1>3. QED BY <1>1, <1>2, AlsoStanding

\* What a board that stands is.
LEMMA StandingIs ==
  ASSUME NEW b, Standing(b)
  PROVE  /\ Rec(b) /\ BoardType(b) /\ b.n \in Nat \ {0}
         /\ b.product \in Big \cup {"saturn", "udxp"}
         /\ b.product \notin Big => b.n = 1
         /\ b.par \in [1..b.n -> ParType(b.product)] /\ b.val \in [1..b.n -> ValType]
<1>1. BoardType(b) BY DEF Standing
<1>2. ModuleChannels \in Nat \ {0} BY SizesAssumption
<1>3. QED BY <1>1, <1>2 DEF BoardType

\* A module that stands has the memory laid out.
LEMMA StandingLaid ==
  ASSUME NEW b, Standing(b), b.product \in Big
  PROVE  Laid(b)
BY DEF Standing, Fits, Laid

\* The scratch is emptied between calls.
LEMMA EmptyingOut ==
  ASSUME NEW m, Rec(m)
  PROVE  /\ Changed(m, Emptying(m), Scratch) /\ Rec(Emptying(m)) /\ Emptying(m).got = <<>>
         /\ Emptying(m).now = m.now /\ Emptying(m).budget = m.budget
<1> DEFINE e == Emptying(m)
<1>1. /\ e = [f \in Fields |-> e[f]]
      /\ \A f \in Fields \ {"words", "got", "value", "speed"} : e[f] = m[f]
      /\ e.got = <<>> BY DEF Rec, Emptying, Fields
<1>2. "budget" \in Fields \ {"words", "got", "value", "speed"}
      /\ "now" \in Fields \ {"words", "got", "value", "speed"} BY DEF Fields
<1> HIDE DEF e
<1>3. e.budget = m.budget /\ e.now = m.now BY <1>1, <1>2
<1>4. m.budget \in Nat BY DEF Rec
<1>5. \A f \in Fields \ Scratch : e[f] = m[f] BY <1>1 DEF Scratch
<1>6. Rec(e) BY <1>1, <1>3, <1>4 DEF Rec
<1>7. QED BY <1>1, <1>3, <1>4, <1>5, <1>6 DEF Changed, e

-----------------------------------------------------------------------------
(* The length of a spectrum is set. *)

\* A parameter is written, or nothing is.
LEMMA SetParameterOut ==
  ASSUME NEW l, Rec(l), NEW c, NEW p, NEW x, NEW o \in SetParameter(l, c, p, x)
  PROVE  /\ o.ok \in BOOLEAN /\ Changed(l, o.m, {"budget", "par"})
         /\ IF o.ok THEN o.m.par = Put(l.par, c, p, x) ELSE o.m.par = l.par
<1> DEFINE q == Put(l.par, c, p, x)
           w == [l EXCEPT !.par = q]
<1>1. o \in Access(l, w) BY DEF SetParameter, Put
<1> HIDE DEF q
<1>2. Changed(l, w, {"budget", "par"}) /\ w.par = q
  <2> DEFINE f == "par"
             v == [l EXCEPT ![f] = q]
             S == {"budget", "par"}
  <2>1. f \in S /\ f \in Fields \ {"budget"} BY DEF Fields
  <2>2. v = w OBVIOUS
  <2> HIDE DEF f, w, S
  <2>3. Changed(l, v, S) /\ v[f] = q BY <2>1, PutField
  <2> HIDE DEF v
  <2>4. QED BY <2>2, <2>3 DEF f, S
<1> HIDE DEF w
<1>3. CASE o.ok = TRUE /\ o.m = w BY <1>2, <1>3 DEF q
<1>4. CASE o.ok = FALSE /\ Changed(l, o.m, {"budget"})
  <2>1. Changed(l, o.m, {"budget", "par"}) BY <1>4, ChangedMore
  <2>2. o.m.par = l.par BY <1>4 DEF Changed, Fields
  <2>3. QED BY <1>4, <2>1, <2>2
<1>5. QED BY <1>1, <1>3, <1>4, AccessOut

\* The length that is set is one of a spectrum.
LEMMA WholeBlocks ==
  ASSUME NEW v \in Nat
  PROVE  v - (v % Block) \in Nat
<1>1. Block \in Nat /\ Block > 0 BY SizesAssumption
<1>2. v % Block \in 0..(Block - 1) /\ v = (Block * (v \div Block)) + (v % Block) /\ v \div Block \in Nat
  BY <1>1
<1>3. Block * (v \div Block) \in Nat BY <1>1, <1>2
<1>4. QED BY <1>2, <1>3

\* The blocks of a spectrum are set, or nothing is.
LEMMA BlocksSet ==
  ASSUME NEW b, Standing(b), b.product \in Big, NEW c \in 1..b.n, NEW u \in Nat,
         NEW z \in XmapSetNumMCAChans([b EXCEPT !.value = u], c)
  PROVE  HasSet(b, c, z)
<1> DEFINE bins == u - (u % Block)
           y == [b EXCEPT !.value = u]
           e == [b EXCEPT !.value = bins]
           S == {"now", "budget", "value", "par"}
<1>1. Rec(b) /\ b.product \in Big BY StandingIs
<1>2. y.value = u /\ [y EXCEPT !.value = bins] = e BY <1>1 DEF Rec, Fields
<1>3. /\ Changed(b, y, S) /\ Rec(y) /\ y.par = b.par
      /\ Changed(b, e, S) /\ Rec(e) /\ e.par = b.par /\ e.value = bins /\ e.product = b.product
  <2> DEFINE f == "value"
             y1 == [b EXCEPT ![f] = u]
             e1 == [b EXCEPT ![f] = bins]
  <2>1. f \in S /\ f \in Fields \ {"budget"} /\ "par" \in Fields \ {f} /\ "product" \in Fields \ {f}
    BY DEF Fields
  <2>2. y = y1 /\ e = e1 OBVIOUS
  <2> HIDE DEF f, S, y, e, bins
  <2>3. /\ Changed(b, y1, S) /\ Rec(y1) /\ y1[f] = u /\ \A g \in Fields \ {f} : y1[g] = b[g]
    BY <1>1, <2>1, PutField
  <2>4. /\ Changed(b, e1, S) /\ Rec(e1) /\ e1[f] = bins /\ \A g \in Fields \ {f} : e1[g] = b[g]
    BY <1>1, <2>1, PutField
  <2> HIDE DEF y1, e1
  <2>5. e1.value = bins BY <2>4 DEF f
  <2>6. QED BY <2>1, <2>2, <2>3, <2>4, <2>5
<1>4. bins \in Nat BY WholeBlocks
<1>5. z \in IF bins > MaxBins \/ bins = 0 THEN Refused(y)
            ELSE Then(Parameter(e), LAMBDA l :
                      SetParameter(l, c, "MCALIMHI", l.par[c]["MCALIMLO"] + bins))
  BY <1>2 DEF XmapSetNumMCAChans
<1> HIDE DEF bins, y, e
<1>6. CASE bins > MaxBins \/ bins = 0
  <2>1. z.ok = FALSE /\ z.m = y BY <1>5, <1>6, RefusedIs
  <2>2. QED BY <1>3, <2>1 DEF HasSet
<1>7. CASE ~(bins > MaxBins \/ bins = 0)
  <2>1. PICK t \in Parameter(e) :
          IF t.ok THEN z \in SetParameter(t.m, c, "MCALIMHI", t.m.par[c]["MCALIMLO"] + bins) ELSE z = t
    BY <1>5, <1>7 DEF Then
  <2>2. e.product \in Big \cup {"saturn", "udxp"} BY <1>1, <1>3
  <2>3. Looked(e, t) /\ Rec(t.m) BY <1>3, <2>1, <2>2, ParameterOut
  <2> DEFINE l == t.m
  <2>4. Changed(e, l, {"now", "budget"}) /\ t.ok \in BOOLEAN BY <2>3 DEF Looked
  <2>5. l.par = b.par /\ l.value = bins BY <1>3, <2>4 DEF Changed, Fields
  <2>6. Changed(b, l, S)
    <3>1. {"now", "budget"} \subseteq S OBVIOUS
    <3> HIDE DEF S, l
    <3>2. QED BY <1>1, <1>3, <2>4, <3>1, ChangedTwice
  <2>7. CASE t.ok = FALSE
    <3>1. z = t BY <2>1, <2>7
    <3>2. QED BY <2>5, <2>6, <2>7, <3>1 DEF HasSet
  <2>8. CASE t.ok = TRUE
    <3>1. b.par[c]["MCALIMLO"] = 0 BY DEF Standing, Fits
    <3>2. l.par[c]["MCALIMLO"] + bins = bins BY <1>4, <2>5, <3>1
    <3>3. z \in SetParameter(l, c, "MCALIMHI", bins) BY <2>1, <2>8, <3>2
    <3>a. Rec(l) BY <2>3
    <3> HIDE DEF l
    <3>4. /\ z.ok \in BOOLEAN /\ Changed(l, z.m, {"budget", "par"})
          /\ IF z.ok THEN z.m.par = Lengthened(l.par, c, bins) ELSE z.m.par = l.par
      BY <3>a, <3>3, SetParameterOut DEF Lengthened
    <3>5. z.m.value = bins BY <2>5, <3>4 DEF Changed, Fields
    <3>6. {"budget", "par"} \subseteq S OBVIOUS
    <3>7. Changed(b, z.m, S)
      <4> HIDE DEF S
      <4>1. QED BY <1>1, <2>6, <3>4, <3>6, ChangedTwice
    <3>8. bins \in 0..MaxBins BY <1>4, <1>7, SizesAssumption
    <3>9. QED BY <2>5, <3>4, <3>5, <3>7, <3>8 DEF HasSet
  <2>9. QED BY <2>4, <2>7, <2>8
<1>8. QED BY <1>6, <1>7

\* What an access answers.
LEMMA AccessShape ==
  ASSUME NEW l, NEW n, NEW o \in Access(l, n)
  PROVE  Shape(o)
BY DEF Access, Done, Faulty, Refused, Shape

\* What is answered without one.
LEMMA DoneShape ==
  ASSUME NEW l, NEW o \in Done(l) \cup Refused(l)
  PROVE  Shape(o)
BY DEF Done, Refused, Shape

\* What looking up a parameter answers, for every product.
LEMMA ParameterHasShape ==
  ASSUME NEW b, b.product \in Big \cup {"saturn", "udxp"}, NEW o \in Parameter(b)
  PROVE  Shape(o)
<1>1. o \in Looking(b)
  BY DEF Parameter, ReadDspsymbol, XmapReadDspsymbol, MercuryReadDspsymbol, StjReadDspsymbol,
         SaturnReadDspsymbol, UdxpReadDspsymbol, Big
<1>2. PICK l \in Later(b) : o \in Access(l, l) BY <1>1 DEF Looking
<1>3. QED BY <1>2, AccessShape

\* What setting the length answers.
LEMMA SetShape ==
  ASSUME NEW b, Rec(b), b.product \in Big, NEW c, NEW z \in XmapSetNumMCAChans(b, c)
  PROVE  Shape(z)
<1> DEFINE bins == b.value - (b.value % Block)
           e == [b EXCEPT !.value = bins]
<1>1. e.product = b.product BY DEF Rec, Fields
<1>2. z \in IF bins > MaxBins \/ bins = 0 THEN Refused(b)
            ELSE Then(Parameter(e), LAMBDA l :
                      SetParameter(l, c, "MCALIMHI", l.par[c]["MCALIMLO"] + bins))
  BY DEF XmapSetNumMCAChans
<1> HIDE DEF bins, e
<1>3. CASE bins > MaxBins \/ bins = 0 BY <1>2, <1>3, DoneShape
<1>4. CASE ~(bins > MaxBins \/ bins = 0)
  <2>1. PICK t \in Parameter(e) :
          IF t.ok THEN z \in SetParameter(t.m, c, "MCALIMHI", t.m.par[c]["MCALIMLO"] + bins) ELSE z = t
    BY <1>2, <1>4 DEF Then
  <2>2. Shape(t) BY <1>1, <2>1, ParameterHasShape
  <2> DEFINE x == t.m.par[c]["MCALIMLO"] + bins
  <2>3. t.ok => z \in Access(t.m, [t.m EXCEPT !.par[c]["MCALIMHI"] = x]) BY <2>1 DEF SetParameter
  <2> HIDE DEF x
  <2>4. t.ok => Shape(z) BY <2>3, AccessShape
  <2>5. QED BY <2>1, <2>2, <2>4
<1>5. QED BY <1>3, <1>4

\* The defaults of a channel are written.
LEMMA DefaultSet ==
  ASSUME NEW y, Rec(y), NEW c, NEW v, y.val[c]["number_mca_channels"] # NoEntry, NEW u
  PROVE  LET w == [PslSetDefault(y, c, "number_mca_channels", v) EXCEPT !.value = u] IN
         Changed(y, w, {"val", "value"}) /\ Rec(w) /\ w.val = Remembered(y.val, c, v)
<1> DEFINE q == Remembered(y.val, c, v)
           d == PslSetDefault(y, c, "number_mca_channels", v)
           d1 == [y EXCEPT !["val"] = q]
           w == [d EXCEPT !.value = u]
           S == {"val", "value"}
<1>1. d = d1 BY DEF PslSetDefault, Remembered
<1>2. w = [d1 EXCEPT !["value"] = u] BY <1>1
<1>3. "val" \in S /\ "val" \in Fields \ {"budget"} /\ "value" \in S /\ "value" \in Fields \ {"budget"}
      /\ "val" \in Fields \ {"value"} /\ S \subseteq S BY DEF Fields
<1> HIDE DEF q, d, S
<1>4. Changed(y, d1, S) /\ Rec(d1) /\ d1["val"] = q BY <1>3, PutField
<1> HIDE DEF d1, w
<1>5. /\ Changed(d1, w, S) /\ Rec(w) /\ \A g \in Fields \ {"value"} : w[g] = d1[g]
  <2> DEFINE f == "value"
             w1 == [d1 EXCEPT ![f] = u]
  <2>1. w = w1 BY <1>2
  <2>a. f \in S /\ f \in Fields \ {"budget"} /\ Rec(d1) BY <1>3, <1>4
  <2> HIDE DEF f
  <2>2. Changed(d1, w1, S) /\ Rec(w1) /\ \A g \in Fields \ {f} : w1[g] = d1[g] BY <2>a, PutField
  <2> HIDE DEF w1
  <2>3. QED BY <2>1, <2>2 DEF f
<1>6. w.val = q BY <1>3, <1>4, <1>5
<1>7. Changed(y, w, S) BY <1>3, <1>4, <1>5, ChangedTwice
<1>8. QED BY <1>5, <1>6, <1>7 DEF w, d, q, S

\* A module whose lengths are the parameters and the defaults, again.
LEMMA LengthenedStands ==
  ASSUME NEW b, Standing(b), b.product \in Big, NEW c \in 1..b.n, NEW x \in 0..MaxBins, NEW l,
         Changed(b, l, Setting), l.par = Lengthened(b.par, c, x), l.val = Remembered(b.val, c, x)
  PROVE  Standing(l) /\ \A d \in 1..b.n : d # c => Length(l, d) = Length(b, d)
<1>1. /\ l.product = b.product /\ l.n = b.n /\ l.error = b.error /\ l.mode = b.mode
      /\ l.laid = b.laid /\ l.scas = b.scas /\ Rec(l) BY DEF Changed, Setting, Fields
<1>2. MaxBins \in Nat /\ x \in Nat /\ x <= MaxBins BY SizesAssumption
<1>3. b.par \in [1..b.n -> [MCALIMLO : Nat, MCALIMHI : Nat, SPECTSTART : Nat]]
      /\ b.val \in [1..b.n -> ValType] BY DEF Standing, BoardType, ParType, Big
<1> DEFINE p == [b.par[c] EXCEPT !["MCALIMHI"] = x]
           v == [b.val[c] EXCEPT !["number_mca_channels"] = x]
<1>4. p \in [MCALIMLO : Nat, MCALIMHI : Nat, SPECTSTART : Nat] /\ p["MCALIMHI"] = x
      /\ p["MCALIMLO"] = b.par[c]["MCALIMLO"] BY <1>2, <1>3
<1>5. v \in ValType /\ v["number_mca_channels"] = x
      /\ v["number_of_scas"] = b.val[c]["number_of_scas"] BY <1>2, <1>3 DEF ValType
<1>6. l.par = [b.par EXCEPT ![c] = p] /\ l.val = [b.val EXCEPT ![c] = v]
  BY DEF Lengthened, Put, Remembered
<1> HIDE DEF p, v
<1>7. l.par \in [1..l.n -> ParType(l.product)] /\ l.val \in [1..l.n -> ValType]
  <2>1. ParType(l.product) = [MCALIMLO : Nat, MCALIMHI : Nat, SPECTSTART : Nat]
    BY <1>1 DEF ParType, Big
  <2>2. l.par \in [1..b.n -> [MCALIMLO : Nat, MCALIMHI : Nat, SPECTSTART : Nat]] BY <1>3, <1>4, <1>6
  <2>3. l.val \in [1..b.n -> ValType] BY <1>3, <1>5, <1>6
  <2>4. QED BY <1>1, <2>1, <2>2, <2>3
<1>8. l.par[c] = p /\ l.val[c] = v
      /\ \A d \in 1..b.n : d # c => l.par[d] = b.par[d] /\ l.val[d] = b.val[d] BY <1>3, <1>6
<1>9. BoardType(l) BY <1>1, <1>7 DEF Standing, BoardType
<1>10. Fits(l)
  <2>1. l.mode \in Modes[l.product] /\ l.laid \in [1..l.n -> 0..MaxBins] BY <1>1 DEF Standing, Fits
  <2>2. ASSUME NEW d \in 1..l.n
        PROVE  /\ l.par[d]["MCALIMLO"] = 0
               /\ l.par[d]["MCALIMHI"] = l.val[d]["number_mca_channels"]
               /\ l.par[d]["MCALIMHI"] <= MaxBins
               /\ l.val[d]["number_of_scas"] = d - 1
               /\ l.product # "stj" => l.scas[d] = d - 1
    <3>1. /\ b.par[d]["MCALIMLO"] = 0
          /\ b.par[d]["MCALIMHI"] = b.val[d]["number_mca_channels"]
          /\ b.par[d]["MCALIMHI"] <= MaxBins
          /\ b.val[d]["number_of_scas"] = d - 1
          /\ b.product # "stj" => b.scas[d] = d - 1 BY <1>1 DEF Standing, Fits
    <3>2. CASE d = c BY <1>1, <1>2, <1>4, <1>5, <1>8, <3>1, <3>2
    <3>3. CASE d # c BY <1>1, <1>8, <3>1, <3>3
    <3>4. QED BY <3>2, <3>3
  <2>3. QED BY <2>1, <2>2 DEF Fits
<1>11. \A d \in 1..b.n : d # c => Length(l, d) = Length(b, d) BY <1>8 DEF Length
<1>12. QED BY <1>9, <1>10, <1>11 DEF Standing

\* A board of which no length changed stands.
LEMMA UnsetStands ==
  ASSUME NEW b, Standing(b), NEW l, Changed(b, l, Setting), l.par = b.par, l.val = b.val, NEW c
  PROVE  Standing(l) /\ \A d \in 1..b.n : d # c => Length(l, d) = Length(b, d)
<1>1. /\ l.product = b.product /\ l.n = b.n /\ l.error = b.error /\ l.mode = b.mode
      /\ l.laid = b.laid /\ l.scas = b.scas /\ Rec(l) BY DEF Changed, Setting, Fields
<1>2. QED BY <1>1, AlsoStanding DEF Length

\* The length of a module's channel is set with its default, or neither is.
LEMMA BigSetOut ==
  ASSUME NEW b, Standing(b), b.product \in Big, NEW c \in 1..b.n, NEW u \in Nat, NEW o,
         o \in XmapSetAcquisitionValues(b, c, "number_mca_channels",
                                        XmapSetNumMCAChans([b EXCEPT !.value = u], c))
  PROVE  SetsLength(b, c, o)
<1> DEFINE e == [b EXCEPT !.value = u]
           S == Setting
<1>1. Rec(b) /\ b.val \in [1..b.n -> ValType] BY StandingIs
<1>2. Rec(e) /\ e.product \in Big
  <2>1. "value" \in {"value"} /\ "value" \in Fields \ {"budget"} /\ "product" \in Fields \ {"value"}
    BY DEF Fields
  <2> DEFINE f == "value"
             e1 == [b EXCEPT ![f] = u]
             T == {"value"}
  <2>2. f \in T /\ f \in Fields \ {"budget"} /\ "product" \in Fields \ {f} BY <2>1
  <2>a. e = e1 OBVIOUS
  <2> HIDE DEF f, e, T
  <2>3. Rec(e1) /\ \A g \in Fields \ {f} : e1[g] = b[g] BY <1>1, <2>2, PutField
  <2> HIDE DEF e1
  <2>4. QED BY <2>2, <2>3, <2>a
<1>3. PICK z \in XmapSetNumMCAChans(e, c) :
        o = [z EXCEPT !.m = [PslSetDefault(z.m, c, "number_mca_channels",
                                 IF z.ok THEN z.m.value ELSE b.val[c]["number_mca_channels"])
                              EXCEPT !.value = b.value]]
  <2>1. ~IsRaw("number_mca_channels") BY DEF IsRaw
  <2>2. QED BY <2>1 DEF XmapSetAcquisitionValues
<1>4. HasSet(b, c, z) /\ Shape(z)
  <2>1. HasSet(b, c, z) BY <1>3, BlocksSet
  <2> HIDE DEF e
  <2>2. Shape(z) BY <1>2, <1>3, SetShape
  <2>3. QED BY <2>1, <2>2
<1> DEFINE y == z.m
           v == IF z.ok THEN z.m.value ELSE b.val[c]["number_mca_channels"]
           w == [PslSetDefault(y, c, "number_mca_channels", v) EXCEPT !.value = b.value]
<1>5. o.ok = z.ok /\ o.m = w
  <2>1. o = [z EXCEPT !.m = w] BY <1>3
  <2>2. z = [ok |-> z.ok, m |-> z.m] BY <1>4 DEF Shape
  <2> HIDE DEF w
  <2>3. QED BY <2>1, <2>2
<1>6. Changed(b, y, {"now", "budget", "value", "par"}) /\ z.ok \in BOOLEAN BY <1>4 DEF HasSet
<1>7. Rec(y) /\ y.val = b.val BY <1>6 DEF Changed, Fields
<1>8. y.val[c]["number_mca_channels"] # NoEntry
  <2>1. b.val[c] \in ValType BY <1>1
  <2>2. b.val[c]["number_mca_channels"] \in Nat BY <2>1 DEF ValType
  <2> HIDE DEF y
  <2>3. QED BY <1>7, <2>2 DEF NoEntry
<1> HIDE DEF v
<1>9. Changed(y, w, {"val", "value"}) /\ w.val = Remembered(y.val, c, v)
  <2> HIDE DEF y
  <2>1. QED BY <1>7, <1>8, DefaultSet
<1> HIDE DEF w
<1>10. w.par = y.par BY <1>9 DEF Changed, Fields
<1>11. Changed(b, w, S)
  <2>1. {"now", "budget", "value", "par"} \subseteq S /\ {"val", "value"} \subseteq S BY DEF Setting
  <2> HIDE DEF S, y
  <2>2. Changed(b, y, S) BY <1>6, <2>1, ChangedMore
  <2>3. QED BY <1>1, <1>9, <2>1, <2>2, ChangedTwice
<1>12. CASE z.ok = TRUE
  <2>1. PICK x \in 0..MaxBins : y.value = x /\ y.par = Lengthened(b.par, c, x)
    BY <1>4, <1>12 DEF HasSet
  <2>2. v = x BY <1>12, <2>1 DEF v
  <2>3. w.par = Lengthened(b.par, c, x) /\ w.val = Remembered(b.val, c, x)
    BY <1>7, <1>9, <1>10, <2>1, <2>2
  <2>4. Standing(w) /\ \A d \in 1..b.n : d # c => Length(w, d) = Length(b, d)
    BY <1>11, <2>3, LengthenedStands
  <2>5. QED BY <1>5, <1>11, <1>12, <2>4 DEF SetsLength
<1>13. CASE z.ok = FALSE
  <2>1. y.par = b.par BY <1>4, <1>13 DEF HasSet
  <2>2. w.val = b.val
    <3>1. w.val = Remembered(b.val, c, b.val[c]["number_mca_channels"]) BY <1>7, <1>9, <1>13 DEF v
    <3>2. QED BY <1>1, <3>1 DEF Remembered, ValType
  <2>3. w.par = b.par BY <1>10, <2>1
  <2>4. Standing(w) /\ \A d \in 1..b.n : d # c => Length(w, d) = Length(b, d)
    BY <1>11, <2>2, <2>3, UnsetStands
  <2>5. QED BY <1>5, <1>11, <1>13, <2>4 DEF SetsLength
<1>14. QED BY <1>6, <1>12, <1>13

\* Of any module: the STJ first brings the number into range.
LEMMA ModuleSetOut ==
  ASSUME NEW b, Standing(b), b.product \in Big, NEW c \in 1..b.n, NEW u \in Nat, NEW o,
         o \in PslSetAcquisitionValues(b, c, "number_mca_channels",
                                       SetNumMCAChans([b EXCEPT !.value = u], c))
  PROVE  SetsLength(b, c, o)
<1> DEFINE e == [b EXCEPT !.value = u]
           x == IF u > MaxBins THEN MaxBins ELSE IF u < Block THEN Block ELSE u
           y == [b EXCEPT !.value = x]
<1>1. Rec(b) BY StandingIs
<1>2. /\ e.product = b.product /\ e.value = u /\ [e EXCEPT !.value = x] = y BY <1>1 DEF Rec, Fields
<1>3. x \in Nat BY SizesAssumption
<1>4. SetNumMCAChans(e, c) = XmapSetNumMCAChans(IF b.product = "stj" THEN y ELSE e, c)
  <2>1. [e EXCEPT !.value = IF @ > MaxBins THEN MaxBins ELSE IF @ < Block THEN Block ELSE @] = y
    BY <1>2
  <2>2. /\ b.product = "stj" => SetNumMCAChans(e, c) = StjSetNumMCAChans(e, c)
        /\ b.product = "xmap" => SetNumMCAChans(e, c) = XmapSetNumMCAChans(e, c)
        /\ b.product = "mercury" => SetNumMCAChans(e, c) = MercurySetNumMCAChans(e, c)
    BY <1>2 DEF SetNumMCAChans
  <2>3. StjSetNumMCAChans(e, c) = XmapSetNumMCAChans(y, c) BY <2>1 DEF StjSetNumMCAChans
  <2> HIDE DEF e, y
  <2>4. QED BY <2>2, <2>3 DEF Big, MercurySetNumMCAChans
<1> DEFINE v == IF b.product = "stj" THEN x ELSE u
<1>5. XmapSetNumMCAChans(IF b.product = "stj" THEN y ELSE e, c)
        = XmapSetNumMCAChans([b EXCEPT !.value = v], c) OBVIOUS
<1> DEFINE outs == SetNumMCAChans(e, c)
<1>6. o \in XmapSetAcquisitionValues(b, c, "number_mca_channels", outs)
  <2>1. o \in PslSetAcquisitionValues(b, c, "number_mca_channels", outs) OBVIOUS
  <2> HIDE DEF outs
  <2>2. QED BY <2>1 DEF PslSetAcquisitionValues, MercurySetAcquisitionValues,
                        StjSetAcquisitionValues, Big
<1>7. o \in XmapSetAcquisitionValues(b, c, "number_mca_channels",
                                     XmapSetNumMCAChans([b EXCEPT !.value = v], c))
  BY <1>4, <1>5, <1>6
<1>8. v \in Nat BY <1>3
<1> HIDE DEF v, e, x, y, outs
<1>9. QED BY <1>7, <1>8, BigSetOut

-----------------------------------------------------------------------------
(* The spectrum of a Saturn: its limits, and its place. *)

\* A board whose parameters and defaults are written, and that is a Saturn.
LEMMA SaturnStands ==
  ASSUME NEW b, Standing(b), b.product = "saturn", NEW l, Rec(l), l.product = b.product, l.n = b.n,
         Flag(l.error),
         NEW p \in SpectrumType, NEW v \in ValType,
         l.par = AtFirst(b.par, p), l.val = AtFirst(b.val, v)
  PROVE  Standing(l) /\ l.par[1] = p /\ l.val[1] = v
<1>1. b.n = 1 /\ b.par \in [1..1 -> ParType(b.product)] /\ b.val \in [1..1 -> ValType]
  BY StandingIs DEF Big
<1>2. ParType(l.product) = [MCALIMLO : Nat, MCALIMHI : Nat, SPECTSTART : Nat] BY DEF ParType
<1> DEFINE T == [MCALIMLO : Nat, MCALIMHI : Nat, SPECTSTART : Nat]
<1>3. l.par \in [1..1 -> ParType(l.product)] /\ l.val \in [1..1 -> ValType]
      /\ l.par[1] = p /\ l.val[1] = v
  <2>1. p \in T /\ b.par \in [1..1 -> T] BY <1>1, <1>2 DEF SpectrumType
  <2> HIDE DEF T
  <2>2. l.par \in [1..1 -> T] /\ l.par[1] = p BY <2>1 DEF AtFirst
  <2>3. l.val \in [1..1 -> ValType] /\ l.val[1] = v BY <1>1 DEF AtFirst
  <2>4. ParType(l.product) = T BY <1>2 DEF T
  <2>5. QED BY <2>2, <2>3, <2>4
<1>4. BoardType(l) BY <1>1, <1>3 DEF BoardType, Big, Flag
<1>5. Fits(l) BY DEF Fits, Big
<1>6. QED BY <1>3, <1>4, <1>5 DEF Standing

\* Both limits of a Saturn's spectrum are set, or none is.
LEMMA SaturnLengthOut ==
  ASSUME NEW b, Standing(b), b.product = "saturn", NEW u \in Nat,
         NEW z \in SaturnDoNumMCAChannels([b EXCEPT !.value = u], 1)
  PROVE  /\ z.ok \in BOOLEAN /\ Changed(b, z.m, Setting) /\ Shape(z)
         /\ IF z.ok THEN BothSet(b, z.m, u) ELSE NoneSet(b, z.m)
<1> DEFINE e == [b EXCEPT !.value = u]
           hi == u + b.par[1]["MCALIMLO"]
           S == Setting
<1>1. Rec(b) /\ b.val \in [1..1 -> ValType] BY StandingIs DEF Big
<1>2. /\ Changed(b, e, S) /\ Rec(e) /\ e.par = b.par /\ e.val = b.val /\ e.value = u
      /\ e.product = b.product
  <2> DEFINE f == "value"
             e1 == [b EXCEPT ![f] = u]
  <2>1. /\ f \in S /\ f \in Fields \ {"budget"} /\ "par" \in Fields \ {f} /\ "val" \in Fields \ {f}
        /\ "product" \in Fields \ {f} BY DEF Fields, Setting
  <2>2. e = e1 OBVIOUS
  <2> HIDE DEF f, S, e
  <2>3. /\ Changed(b, e1, S) /\ Rec(e1) /\ e1[f] = u /\ \A g \in Fields \ {f} : e1[g] = b[g]
    BY <1>1, <2>1, PutField
  <2> HIDE DEF e1
  <2>4. e1.value = u BY <2>3 DEF f
  <2>5. QED BY <2>1, <2>2, <2>3, <2>4
<1>a. z \in SaturnDoNumMCAChannels(e, 1) OBVIOUS
<1> HIDE DEF e
<1>3. PICK t \in Parameter(e) :
        IF t.ok THEN z \in IF u = 0 \/ hi > MaxBins THEN Refused(t.m)
                           ELSE BothWritten(t.m, hi, u)
        ELSE z = t
  <2>1. z \in Then(Parameter(e), LAMBDA l :
                   IF e.value = 0 \/ e.value + e.par[1]["MCALIMLO"] > MaxBins THEN Refused(l)
                   ELSE BothWritten(l, e.value + e.par[1]["MCALIMLO"], e.value))
    BY <1>a DEF SaturnDoNumMCAChannels, BothWritten
  <2>2. PICK t \in Parameter(e) :
          IF t.ok
          THEN z \in IF e.value = 0 \/ e.value + e.par[1]["MCALIMLO"] > MaxBins THEN Refused(t.m)
                     ELSE BothWritten(t.m, e.value + e.par[1]["MCALIMLO"], e.value)
          ELSE z = t BY <2>1 DEF Then
  <2>3. e.value = u /\ e.value + e.par[1]["MCALIMLO"] = hi BY <1>2
  <2> HIDE DEF hi
  <2>4. QED BY <2>2, <2>3
<1> DEFINE l == t.m
<1>4. Looked(e, t) /\ Rec(l) BY <1>2, <1>3, ParameterOut
<1>5. Shape(t) BY <1>2, <1>3, ParameterHasShape
<1>6. t.ok \in BOOLEAN /\ Changed(e, l, {"now", "budget"}) BY <1>4 DEF Looked
<1>7. l.par = b.par /\ l.val = b.val BY <1>2, <1>6 DEF Changed, Fields
<1>8. {"now", "budget"} \subseteq S /\ {"budget", "par"} \subseteq S /\ {"val"} \subseteq S
  BY DEF Setting
<1> HIDE DEF S
<1>9. Changed(b, l, S) BY <1>1, <1>2, <1>6, <1>8, ChangedTwice
<1>10. CASE t.ok = FALSE
  <2>1. z = t BY <1>3, <1>10
  <2>2. QED BY <1>5, <1>7, <1>9, <1>10, <2>1 DEF NoneSet, S
<1>11. CASE t.ok = TRUE /\ (u = 0 \/ hi > MaxBins)
  <2>1. z \in Refused(l) BY <1>3, <1>11
  <2> HIDE DEF l
  <2>2. z.ok = FALSE /\ z.m = l /\ Shape(z) BY <2>1, RefusedIs, DoneShape
  <2>3. QED BY <1>7, <1>9, <2>2 DEF NoneSet, S
<1>12. CASE t.ok = TRUE /\ ~(u = 0 \/ hi > MaxBins)
  <2>1. z \in Then(SetParameter(l, 1, "MCALIMHI", hi), LAMBDA a :
                   Done(PslSetDefault(a, 1, "number_mca_channels", u)))
    BY <1>3, <1>12 DEF BothWritten
  <2> HIDE DEF l, hi
  <2>2. PICK y \in SetParameter(l, 1, "MCALIMHI", hi) :
          IF y.ok THEN z \in Done(PslSetDefault(y.m, 1, "number_mca_channels", u)) ELSE z = y
    BY <2>1 DEF Then
  <2>a. Rec(l) BY <1>9 DEF Changed
  <2>3. /\ y.ok \in BOOLEAN /\ Changed(l, y.m, {"budget", "par"})
        /\ IF y.ok THEN y.m.par = Put(l.par, 1, "MCALIMHI", hi) ELSE y.m.par = l.par
    BY <2>a, <2>2, SetParameterOut
  <2>4. Shape(y)
    <3> DEFINE q == [l EXCEPT !.par[1]["MCALIMHI"] = hi]
    <3>1. y \in Access(l, q) BY <2>2 DEF SetParameter
    <3> HIDE DEF q
    <3>2. QED BY <3>1, AccessShape
  <2>5. y.m.val = b.val /\ Rec(y.m) BY <1>7, <2>3 DEF Changed, Fields
  <2>6. Changed(b, y.m, S) BY <1>1, <1>8, <1>9, <2>3, ChangedTwice
  <2>7. CASE y.ok = FALSE
    <3>1. z = y BY <2>2, <2>7
    <3>2. QED BY <1>7, <2>3, <2>4, <2>5, <2>6, <2>7, <3>1 DEF NoneSet, S
  <2>8. CASE y.ok = TRUE
    <3> DEFINE k1 == y.m
               d == PslSetDefault(k1, 1, "number_mca_channels", u)
               q == Remembered(k1.val, 1, u)
               d1 == [k1 EXCEPT !["val"] = q]
    <3>1. z.ok = TRUE /\ z.m = d /\ Shape(z) BY <2>2, <2>8, DoneIs, DoneShape
    <3>2. b.val[1]["number_mca_channels"] # NoEntry BY <1>1 DEF ValType, NoEntry
    <3>3. d = d1 BY <2>5, <3>2 DEF PslSetDefault, Remembered
    <3>4. "val" \in {"val"} /\ "val" \in Fields \ {"budget"} /\ "par" \in Fields \ {"val"}
      BY DEF Fields
    <3> HIDE DEF q, k1, d
    <3>5. Rec(k1) BY <2>5 DEF k1
    <3>6. Changed(k1, d1, {"val"}) /\ d1["val"] = q /\ \A g \in Fields \ {"val"} : d1[g] = k1[g]
      <4> DEFINE f == "val"
                 T == {"val"}
                 d2 == [k1 EXCEPT ![f] = q]
      <4>1. f \in T /\ f \in Fields \ {"budget"} BY <3>4
      <4>2. d2 = d1 OBVIOUS
      <4> HIDE DEF f, T, d1
      <4>3. Changed(k1, d2, T) /\ d2[f] = q /\ \A g \in Fields \ {f} : d2[g] = k1[g]
        BY <3>5, <4>1, PutField
      <4> HIDE DEF d2
      <4>4. QED BY <4>2, <4>3 DEF f, T
    <3> HIDE DEF d1
    <3>7. Changed(b, d1, S) BY <1>1, <1>8, <2>6, <3>6, ChangedTwice DEF k1
    <3>8. d1.par = k1.par /\ d1.val = q BY <3>4, <3>6
    <3>9. BothSet(b, d1, u) BY <1>7, <2>3, <2>5, <2>8, <3>8 DEF BothSet, Lengthened, q, k1, hi
    <3>10. QED BY <3>1, <3>3, <3>7, <3>9 DEF S
  <2>9. QED BY <2>3, <2>7, <2>8
<1>13. QED BY <1>6, <1>10, <1>11, <1>12

\* A Saturn stands either way.
LEMMA BothSetStands ==
  ASSUME NEW b, Standing(b), b.product = "saturn", NEW u \in Nat, NEW l, Changed(b, l, Setting),
         BothSet(b, l, u) \/ NoneSet(b, l)
  PROVE  /\ Standing(l) /\ l.par[1]["SPECTSTART"] = b.par[1]["SPECTSTART"]
         /\ l.val[1]["mca_start_address"] = b.val[1]["mca_start_address"]
         /\ BothSet(b, l, u) => l.val[1]["number_mca_channels"] = Length(l, 1)
<1>1. /\ l.product = b.product /\ l.n = b.n /\ l.error = b.error /\ l.mode = b.mode
      /\ l.laid = b.laid /\ l.scas = b.scas /\ Rec(l) BY DEF Changed, Setting, Fields
<1>2. b.par[1] \in [MCALIMLO : Nat, MCALIMHI : Nat, SPECTSTART : Nat] /\ b.val[1] \in ValType
      /\ Flag(b.error)
  <2>1. BoardType(b) BY DEF Standing
  <2>2. Flag(b.error) BY <2>1 DEF BoardType, Flag
  <2>3. QED BY <2>1, <2>2, SaturnIs
<1>3. CASE BothSet(b, l, u)
  <2> DEFINE x == u + b.par[1]["MCALIMLO"]
             p == [b.par[1] EXCEPT !["MCALIMHI"] = x]
             v == [b.val[1] EXCEPT !["number_mca_channels"] = u]
  <2>1. x \in Nat BY <1>2
  <2>2. /\ p \in [MCALIMLO : Nat, MCALIMHI : Nat, SPECTSTART : Nat] /\ p["MCALIMHI"] = x
        /\ p["MCALIMLO"] = b.par[1]["MCALIMLO"] /\ p["SPECTSTART"] = b.par[1]["SPECTSTART"]
    <3> HIDE DEF x
    <3>1. QED BY <1>2, <2>1
  <2>3. /\ v \in ValType /\ v["number_mca_channels"] = u
        /\ v["mca_start_address"] = b.val[1]["mca_start_address"] BY <1>2 DEF ValType
  <2>4. l.par = AtFirst(b.par, p) /\ l.val = AtFirst(b.val, v)
    BY <1>3 DEF BothSet, Lengthened, Put, Remembered, AtFirst
  <2>a. p \in SpectrumType BY <2>2 DEF SpectrumType
  <2>b. Flag(l.error) BY <1>1, <1>2
  <2>5. x - b.par[1]["MCALIMLO"] = u BY <1>2
  <2> HIDE DEF x, p, v
  <2>6. Standing(l) /\ l.par[1] = p /\ l.val[1] = v BY <1>1, <2>a, <2>b, <2>3, <2>4, SaturnStands
  <2>7. QED BY <2>2, <2>3, <2>5, <2>6 DEF Length
<1>4. CASE NoneSet(b, l) /\ ~BothSet(b, l, u)
  <2>1. l.par = b.par /\ l.val = b.val BY <1>4 DEF NoneSet
  <2>2. Standing(l) BY <1>1, <2>1, AlsoStanding
  <2>3. QED BY <1>4, <2>1, <2>2
<1>5. QED BY <1>3, <1>4

\* The parameters are read back at the end.
LEMMA SaturnSetOut ==
  ASSUME NEW b, Standing(b), b.product = "saturn", NEW u \in Nat, NEW o,
         o \in PslSetAcquisitionValues(b, 1, "number_mca_channels",
                                       SetNumMCAChans([b EXCEPT !.value = u], 1))
  PROVE  /\ SetsLimit(b, o)
         /\ (~o.ok /\ NoneSet(b, o.m)) \/ o.m.val[1]["number_mca_channels"] = Length(o.m, 1)
<1> DEFINE e == [b EXCEPT !.value = u]
           outs == SaturnDoNumMCAChannels(e, 1)
           S == Setting
<1>1. Rec(b) BY StandingIs
<1>2. e.product = b.product BY <1>1 DEF Rec, Fields
<1>3. SetNumMCAChans(e, 1) = outs BY <1>2 DEF SetNumMCAChans
<1>4. PICK y \in Then(outs, LAMBDA l : Access(l, l)) : o = [y EXCEPT !.m.value = b.value]
  <2>1. o \in PslSetAcquisitionValues(b, 1, "number_mca_channels", outs) BY <1>3
  <2> HIDE DEF outs
  <2>2. QED BY <2>1 DEF PslSetAcquisitionValues, SaturnSetAcquisitionValues
<1>5. PICK z \in outs : IF z.ok THEN y \in Access(z.m, z.m) ELSE y = z
  <2> HIDE DEF outs
  <2>1. QED BY <1>4 DEF Then
<1>6. /\ z.ok \in BOOLEAN /\ Changed(b, z.m, S) /\ Shape(z)
      /\ IF z.ok THEN BothSet(b, z.m, u) ELSE NoneSet(b, z.m) BY <1>5, SaturnLengthOut
<1>7. Rec(z.m) BY <1>6 DEF Changed
<1> HIDE DEF outs, e
<1>8. {"budget"} \subseteq S /\ {"value"} \subseteq S BY DEF Setting
<1>9. /\ y.ok \in BOOLEAN /\ Changed(b, y.m, S) /\ Shape(y) /\ (y.ok => z.ok)
      /\ IF z.ok THEN BothSet(b, y.m, u) ELSE NoneSet(b, y.m)
  <2> HIDE DEF S
  <2>1. CASE z.ok = FALSE
    <3>1. y = z BY <1>5, <2>1
    <3>2. QED BY <1>6, <2>1, <3>1
  <2>2. CASE z.ok = TRUE
    <3>1. y \in Access(z.m, z.m) BY <1>5, <2>2
    <3>2. Shape(y) BY <3>1, AccessShape
    <3>3. \/ y.ok = TRUE /\ y.m = z.m
          \/ y.ok = FALSE /\ Changed(z.m, y.m, {"budget"}) BY <1>7, <3>1, AccessOut
    <3>4. CASE y.ok = TRUE /\ y.m = z.m BY <1>6, <2>2, <3>2, <3>4
    <3>5. CASE y.ok = FALSE /\ Changed(z.m, y.m, {"budget"})
      <4>1. y.m.par = z.m.par /\ y.m.val = z.m.val BY <3>5 DEF Changed, Fields
      <4>2. Changed(b, y.m, S) BY <1>1, <1>6, <1>8, <3>5, ChangedTwice
      <4>3. BothSet(b, y.m, u) BY <1>6, <2>2, <4>1 DEF BothSet
      <4>4. QED BY <2>2, <3>2, <3>5, <4>2, <4>3
    <3>6. QED BY <3>3, <3>4, <3>5
  <2>3. QED BY <1>6, <2>1, <2>2
<1> DEFINE w == [y.m EXCEPT !.value = b.value]
<1>10. o.ok = y.ok /\ o.m = w
  <2>1. o = [y EXCEPT !.m = w] BY <1>4
  <2>2. y = [ok |-> y.ok, m |-> y.m] BY <1>9 DEF Shape
  <2> HIDE DEF w
  <2>3. QED BY <2>1, <2>2
<1>11. Changed(y.m, w, {"value"}) /\ w.par = y.m.par /\ w.val = y.m.val
  <2> DEFINE f == "value"
             T == {"value"}
             m == y.m
             q == b.value
             w1 == [m EXCEPT ![f] = q]
  <2>1. f \in T /\ f \in Fields \ {"budget"} /\ "par" \in Fields \ {f} /\ "val" \in Fields \ {f}
    BY DEF Fields
  <2>2. w1 = w OBVIOUS
  <2>3. Rec(m) BY <1>9 DEF Changed
  <2> HIDE DEF f, T, w, m, q
  <2>4. Changed(m, w1, T) /\ \A g \in Fields \ {f} : w1[g] = m[g] BY <2>1, <2>3, PutField
  <2> HIDE DEF w1
  <2>5. w1.par = m.par /\ w1.val = m.val BY <2>1, <2>4
  <2>6. QED BY <2>2, <2>4, <2>5 DEF T, m
<1> HIDE DEF w
<1>12. Changed(b, w, S)
  <2> HIDE DEF S
  <2>1. QED BY <1>1, <1>8, <1>9, <1>11, ChangedTwice
<1>13. IF z.ok THEN BothSet(b, w, u) ELSE NoneSet(b, w) BY <1>9, <1>11 DEF BothSet, NoneSet
<1>14. /\ Standing(w) /\ w.par[1]["SPECTSTART"] = b.par[1]["SPECTSTART"]
       /\ w.val[1]["mca_start_address"] = b.val[1]["mca_start_address"]
       /\ BothSet(b, w, u) => w.val[1]["number_mca_channels"] = Length(w, 1)
  <2>1. BothSet(b, w, u) \/ NoneSet(b, w) BY <1>13
  <2>2. QED BY <1>12, <2>1, BothSetStands
<1>15. QED BY <1>6, <1>9, <1>10, <1>12, <1>13, <1>14 DEF SetsLimit

\* The low limit is written.
LEMMA LowSetStands ==
  ASSUME NEW b, Standing(b), b.product = "saturn", NEW u \in Nat, NEW l, Changed(b, l, Setting),
         l.par = Put(b.par, 1, "MCALIMLO", u), l.val = b.val
  PROVE  Standing(l) /\ l.par[1]["SPECTSTART"] = b.par[1]["SPECTSTART"]
<1>1. l.product = b.product /\ l.n = b.n /\ l.error = b.error /\ Rec(l)
  BY DEF Changed, Setting, Fields
<1>2. b.par[1] \in [MCALIMLO : Nat, MCALIMHI : Nat, SPECTSTART : Nat] /\ b.val[1] \in ValType
      /\ Flag(b.error) /\ b.val \in [1..1 -> ValType]
  <2>1. BoardType(b) BY DEF Standing
  <2>2. Flag(b.error) BY <2>1 DEF BoardType, Flag
  <2>3. b.val \in [1..1 -> ValType] BY StandingIs DEF Big
  <2>4. QED BY <2>1, <2>2, <2>3, SaturnIs
<1> DEFINE p == [b.par[1] EXCEPT !["MCALIMLO"] = u]
           v == b.val[1]
<1>3. /\ p \in [MCALIMLO : Nat, MCALIMHI : Nat, SPECTSTART : Nat]
      /\ p["SPECTSTART"] = b.par[1]["SPECTSTART"] BY <1>2
<1>a. p \in SpectrumType /\ Flag(l.error) BY <1>1, <1>2, <1>3 DEF SpectrumType
<1>4. v \in ValType /\ l.val = AtFirst(b.val, v) BY <1>2 DEF AtFirst
<1>5. l.par = AtFirst(b.par, p) BY DEF Put, AtFirst
<1> HIDE DEF p, v
<1>6. Standing(l) /\ l.par[1] = p BY <1>1, <1>a, <1>4, <1>5, SaturnStands
<1>7. QED BY <1>3, <1>6

\* The low limit: the host's length is left behind.
LEMMA SaturnLowOut ==
  ASSUME NEW b, Standing(b), b.product = "saturn", NEW u \in Nat,
         NEW o \in SaturnDoMCALowLimit([b EXCEPT !.value = u], 1)
  PROVE  SetsLimit(b, o) /\ (~o.ok => NoneSet(b, o.m)) /\ o.m.val = b.val
<1> DEFINE e == [b EXCEPT !.value = u]
           S == Setting
<1>1. /\ Rec(b) /\ b.par[1] \in [MCALIMLO : Nat, MCALIMHI : Nat, SPECTSTART : Nat]
      /\ b.val \in [1..1 -> ValType] /\ Flag(b.error)
  <2>1. BoardType(b) BY DEF Standing
  <2>2. Flag(b.error) BY <2>1 DEF BoardType, Flag
  <2>3. b.val \in [1..1 -> ValType] BY StandingIs DEF Big
  <2>4. QED BY <2>1, <2>2, <2>3, SaturnIs
<1>2. /\ Changed(b, e, S) /\ Rec(e) /\ e.par = b.par /\ e.val = b.val /\ e.value = u
      /\ e.product = b.product
  <2> DEFINE f == "value"
             e1 == [b EXCEPT ![f] = u]
  <2>1. /\ f \in S /\ f \in Fields \ {"budget"} /\ "par" \in Fields \ {f} /\ "val" \in Fields \ {f}
        /\ "product" \in Fields \ {f} BY DEF Fields, Setting
  <2>2. e = e1 OBVIOUS
  <2> HIDE DEF f, S, e
  <2>3. /\ Changed(b, e1, S) /\ Rec(e1) /\ e1[f] = u /\ \A g \in Fields \ {f} : e1[g] = b[g]
    BY <1>1, <2>1, PutField
  <2> HIDE DEF e1
  <2>4. e1.value = u BY <2>3 DEF f
  <2>5. QED BY <2>1, <2>2, <2>3, <2>4
<1>3. PICK t \in Parameter(e) :
        IF t.ok THEN o \in IF u > t.m.par[1]["MCALIMHI"] - 1 THEN Refused(t.m)
                           ELSE SetParameter(t.m, 1, "MCALIMLO", u)
        ELSE o = t
  <2>1. o \in SaturnDoMCALowLimit(e, 1) OBVIOUS
  <2> HIDE DEF e
  <2>2. PICK t \in Parameter(e) :
        IF t.ok THEN o \in IF e.value > t.m.par[1]["MCALIMHI"] - 1 THEN Refused(t.m)
                           ELSE SetParameter(t.m, 1, "MCALIMLO", e.value)
        ELSE o = t BY <2>1 DEF SaturnDoMCALowLimit, Then
  <2>3. QED BY <1>2, <2>2
<1> HIDE DEF e
<1> DEFINE l == t.m
<1>4. Looked(e, t) /\ Rec(l) BY <1>2, <1>3, ParameterOut
<1>5. t.ok \in BOOLEAN /\ Changed(e, l, {"now", "budget"}) BY <1>4 DEF Looked
<1>6. l.par = b.par /\ l.val = b.val BY <1>2, <1>5 DEF Changed, Fields
<1>7. {"now", "budget"} \subseteq S /\ {"budget", "par"} \subseteq S BY DEF Setting
<1>8. Changed(b, l, S)
  <2> HIDE DEF S, l
  <2>1. QED BY <1>1, <1>2, <1>5, <1>7, ChangedTwice
<1>9. SetsLimit(b, [ok |-> FALSE, m |-> l]) /\ NoneSet(b, l)
  <2> HIDE DEF l
  <2>1. NoneSet(b, l) BY <1>6 DEF NoneSet
  <2>2. /\ Standing(l) /\ l.par[1]["SPECTSTART"] = b.par[1]["SPECTSTART"]
        /\ l.val[1]["mca_start_address"] = b.val[1]["mca_start_address"]
    BY <1>8, <2>1, BothSetStands
  <2>3. QED BY <1>8, <2>1, <2>2 DEF SetsLimit
<1> HIDE DEF l
<1>10. CASE o.ok = FALSE /\ o.m = l BY <1>6, <1>9, <1>10 DEF SetsLimit
<1>11. CASE t.ok = TRUE /\ o \in SetParameter(l, 1, "MCALIMLO", u)
  <2>1. /\ o.ok \in BOOLEAN /\ Changed(l, o.m, {"budget", "par"})
        /\ IF o.ok THEN o.m.par = Put(l.par, 1, "MCALIMLO", u) ELSE o.m.par = l.par
    BY <1>4, <1>11, SetParameterOut
  <2>2. Changed(b, o.m, S)
    <3> HIDE DEF S
    <3>1. QED BY <1>1, <1>7, <1>8, <2>1, ChangedTwice
  <2>3. o.m.val = b.val BY <1>6, <2>1 DEF Changed, Fields
  <2>4. CASE o.ok = FALSE
    <3>1. NoneSet(b, o.m) BY <1>6, <2>1, <2>3, <2>4 DEF NoneSet
    <3> DEFINE m == o.m
    <3>a. NoneSet(b, m) /\ Changed(b, m, Setting) BY <2>2, <3>1
    <3> HIDE DEF m
    <3>2. /\ Standing(m) /\ m.par[1]["SPECTSTART"] = b.par[1]["SPECTSTART"]
          /\ m.val[1]["mca_start_address"] = b.val[1]["mca_start_address"] BY <3>a, BothSetStands
    <3>3. QED BY <2>1, <2>2, <2>3, <3>1, <3>2 DEF SetsLimit, m
  <2>5. CASE o.ok = TRUE
    <3> DEFINE m == o.m
    <3>1. m.par = Put(b.par, 1, "MCALIMLO", u) BY <1>6, <2>1, <2>5
    <3> HIDE DEF m
    <3>2. Standing(m) /\ m.par[1]["SPECTSTART"] = b.par[1]["SPECTSTART"]
      BY <2>2, <2>3, <3>1, LowSetStands DEF m
    <3>3. QED BY <2>2, <2>3, <2>5, <3>2 DEF SetsLimit, m
  <2>6. QED BY <2>1, <2>4, <2>5
<1>12. QED
  <2>1. (o.ok = FALSE /\ o.m = l) \/ (t.ok = TRUE /\ o \in SetParameter(l, 1, "MCALIMLO", u))
    <3>1. t.ok = FALSE => o = t BY <1>3
    <3>2. t.ok = TRUE => o \in Refused(l) \/ o \in SetParameter(l, 1, "MCALIMLO", u) BY <1>3 DEF l
    <3>3. QED BY <1>5, <3>1, <3>2, RefusedIs DEF l
  <2>2. QED BY <2>1, <1>10, <1>11

-----------------------------------------------------------------------------
(* Another firmware, and a snapshot. *)

\* A Saturn that was loaded anew stands.
LEMMA FreshStands ==
  ASSUME NEW b, Standing(b), b.product = "saturn", NEW f \in Nat, NEW l, Rec(l),
         l.product = b.product, l.n = b.n, Flag(l.error), l.val = b.val,
         l.par = Freshened(b.par, f)
  PROVE  Standing(l) /\ l.par[1] = FreshParams(f)
<1> DEFINE p == FreshParams(f)
           v == b.val[1]
<1>1. b.val \in [1..1 -> ValType] BY StandingIs DEF Big
<1>2. p \in SpectrumType BY SizesAssumption DEF FreshParams, SpectrumType
<1>3. v \in ValType /\ l.val = AtFirst(b.val, v) BY <1>1 DEF AtFirst
<1>5. l.par = AtFirst(b.par, p) BY DEF Freshened
<1> HIDE DEF p, v
<1>6. Standing(l) /\ l.par[1] = p BY <1>2, <1>3, <1>5, SaturnStands
<1>7. QED BY <1>6 DEF p

\* Loading resets a Saturn.
LEMMA ResetOut ==
  ASSUME NEW b, Standing(b), b.product = "saturn", NEW f \in Nat
  PROVE  LET l == Reset(b, f) IN
         /\ Changed(b, l, Loading) /\ Standing(l) /\ l.val = b.val /\ l.par[1] = FreshParams(f)
         /\ Rec(l) /\ l.product = b.product
<1> DEFINE l == Reset(b, f)
           S == {"par", "error", "running"}
           p == FreshParams(f)
<1>1. /\ Rec(b) /\ b.val \in [1..1 -> ValType] /\ b.par \in [1..1 -> ParType("saturn")]
  BY StandingIs DEF Big
<1>2. /\ l = [g \in Fields |-> l[g]] /\ \A g \in Fields \ S : l[g] = b[g]
      /\ l.error = FALSE /\ l.par = [b.par EXCEPT ![1] = p] BY <1>1 DEF Rec, Fields, Reset
<1>3. /\ "budget" \in Fields \ S /\ "val" \in Fields \ S /\ "product" \in Fields \ S
      /\ "n" \in Fields \ S /\ Fields \ Loading \subseteq Fields \ S BY DEF Fields, Loading
<1> HIDE DEF l, S, p
<1>4. l.budget = b.budget /\ l.val = b.val /\ l.product = b.product /\ l.n = b.n BY <1>2, <1>3
<1>5. b.budget \in Nat BY <1>1 DEF Rec
<1>6. Rec(l) BY <1>2, <1>4, <1>5 DEF Rec
<1>7. Changed(b, l, Loading) BY <1>2, <1>3, <1>4, <1>5, <1>6 DEF Changed
<1>8. l.product = b.product /\ l.n = b.n /\ l.val = b.val BY <1>4
<1>9. Flag(l.error) /\ l.par = Freshened(b.par, f) BY <1>2 DEF p, Freshened, AtFirst, Flag
<1>10. Standing(l) /\ l.par[1] = p BY <1>6, <1>8, <1>9, FreshStands DEF p
<1>11. QED BY <1>4, <1>6, <1>7, <1>10 DEF l, p

\* The address of the spectrum is looked up, unless that fails.
LEMMA CacheUpdated ==
  ASSUME NEW l, Standing(l), l.product = "saturn", NEW o \in SaturnUpdateMCAAddressCache(l, 1)
  PROVE  /\ o.ok \in BOOLEAN /\ Changed(l, o.m, {"now", "budget", "val"}) /\ Standing(o.m)
         /\ o.m.par = l.par
         /\ o.m.val[1]["number_mca_channels"] = l.val[1]["number_mca_channels"]
         /\ IF o.ok THEN o.m.val[1]["mca_start_address"] = o.m.par[1]["SPECTSTART"]
            ELSE o.m.val = l.val
<1> DEFINE S == {"now", "budget", "val"}
<1>1. /\ Rec(l) /\ l.val \in [1..1 -> ValType]
      /\ l.par[1] \in [MCALIMLO : Nat, MCALIMHI : Nat, SPECTSTART : Nat] /\ Flag(l.error)
  <2>1. BoardType(l) BY DEF Standing
  <2>2. Flag(l.error) BY <2>1 DEF BoardType, Flag
  <2>3. l.val \in [1..1 -> ValType] BY StandingIs DEF Big
  <2>4. QED BY <2>1, <2>2, <2>3, SaturnIs
<1>2. PICK t \in Parameter(l) :
        IF t.ok THEN o \in Done(PslSetDefault(t.m, 1, "mca_start_address", t.m.par[1]["SPECTSTART"]))
        ELSE o = t BY DEF SaturnUpdateMCAAddressCache, Then
<1> DEFINE m == t.m
<1>3. Looked(l, t) /\ Rec(m) BY <1>1, <1>2, ParameterOut
<1>4. t.ok \in BOOLEAN /\ Changed(l, m, {"now", "budget"}) BY <1>3 DEF Looked
<1>5. /\ m.par = l.par /\ m.val = l.val /\ m.product = l.product /\ m.n = l.n
      /\ m.error = l.error /\ m.mode = l.mode /\ m.laid = l.laid /\ m.scas = l.scas
  BY <1>4 DEF Changed, Fields
<1> HIDE DEF m
<1>6. Changed(l, m, S)
  <2>1. {"now", "budget"} \subseteq S OBVIOUS
  <2> HIDE DEF S
  <2>2. QED BY <1>4, <2>1, ChangedMore
<1>7. Standing(m) BY <1>3, <1>5, AlsoStanding DEF m
<1>8. CASE t.ok = FALSE
  <2>1. o = t BY <1>2, <1>8
  <2>2. QED BY <1>5, <1>6, <1>7, <1>8, <2>1 DEF m
<1>9. CASE t.ok = TRUE
  <2> DEFINE u == l.par[1]["SPECTSTART"]
             v == [l.val[1] EXCEPT !["mca_start_address"] = u]
             q == [l.val EXCEPT ![1] = v]
             d == [m EXCEPT !["val"] = q]
             p == l.par[1]
  <2>1. l.val[1]["mca_start_address"] # NoEntry BY <1>1 DEF ValType, NoEntry
  <2>2. o.ok = TRUE /\ o.m = d
    <3>1. o \in Done(PslSetDefault(m, 1, "mca_start_address", u)) BY <1>2, <1>5, <1>9 DEF m
    <3>2. PslSetDefault(m, 1, "mca_start_address", u) = d BY <1>5, <2>1 DEF PslSetDefault
    <3> HIDE DEF d
    <3>3. QED BY <3>1, <3>2, DoneIs
  <2>3. /\ u \in Nat /\ v \in ValType /\ v["mca_start_address"] = u
        /\ v["number_mca_channels"] = l.val[1]["number_mca_channels"] BY <1>1 DEF ValType
  <2> HIDE DEF u, v
  <2>4. /\ Changed(m, d, {"val"}) /\ Rec(d) /\ d.val = q /\ \A g \in Fields \ {"val"} : d[g] = m[g]
    <3> DEFINE f == "val"
               T == {"val"}
               d2 == [m EXCEPT ![f] = q]
    <3>1. f \in T /\ f \in Fields \ {"budget"} BY DEF Fields
    <3>2. d2 = d OBVIOUS
    <3>a. Rec(m) BY <1>3 DEF m
    <3> HIDE DEF f, T, d, q
    <3>3. Changed(m, d2, T) /\ Rec(d2) /\ d2[f] = q /\ \A g \in Fields \ {f} : d2[g] = m[g]
      BY <3>1, <3>a, PutField
    <3> HIDE DEF d2
    <3>4. QED BY <3>2, <3>3 DEF f, T
  <2> HIDE DEF d
  <2>5. d.par = l.par /\ d.product = l.product /\ d.n = l.n /\ d.error = l.error
    BY <1>5, <2>4 DEF Fields
  <2>6. p \in SpectrumType /\ d.par = AtFirst(l.par, p) /\ Flag(d.error)
    <3>1. l.par \in [1..1 -> ParType(l.product)] BY StandingIs DEF Big
    <3>2. QED BY <1>1, <2>5, <3>1 DEF AtFirst, SpectrumType
  <2>7. d.val = AtFirst(l.val, v) /\ Rec(d) /\ v \in ValType BY <2>3, <2>4 DEF AtFirst
  <2>a. d.product = l.product /\ d.n = l.n BY <2>5
  <2> HIDE DEF p, q
  <2>8. Standing(d) /\ d.val[1] = v BY <2>a, <2>6, <2>7, SaturnStands
  <2>9. Changed(l, d, S)
    <3>1. {"val"} \subseteq S OBVIOUS
    <3> HIDE DEF S
    <3>2. QED BY <1>1, <1>6, <2>4, <3>1, ChangedTwice
  <2>10. d.val[1]["mca_start_address"] = d.par[1]["SPECTSTART"] BY <2>3, <2>5, <2>8 DEF u
  <2>11. QED BY <2>2, <2>3, <2>5, <2>8, <2>9, <2>10
<1>10. QED BY <1>4, <1>8, <1>9

\* Nothing was loaded, or not into the DSP.
LEMMA NotLoaded ==
  ASSUME NEW b, Standing(b), NEW o, o.ok \in BOOLEAN, Changed(b, o.m, Loading), o.m.par = b.par,
         o.m.val = b.val, o.m.error = b.error, NEW t
  PROVE  Loads(b, o, t)
<1> DEFINE m == o.m
<1>1. /\ m.product = b.product /\ m.n = b.n /\ m.mode = b.mode /\ m.laid = b.laid
      /\ m.scas = b.scas /\ Rec(m) /\ m.par = b.par /\ m.val = b.val /\ m.error = b.error
  BY DEF Changed, Loading, Fields
<1> HIDE DEF m
<1>2. Standing(m) BY <1>1, AlsoStanding
<1>3. QED BY <1>1, <1>2 DEF Loads, m

\* The parameters were loaded, and the load failed.
LEMMA LoadFailed ==
  ASSUME NEW b, Standing(b), NEW o, o.ok = FALSE, Changed(b, o.m, Loading), Standing(o.m),
         o.m.val = b.val
  PROVE  Loads(b, o, "dsp")
BY DEF Loads

\* The DSP: its parameters, then its address.
LEMMA DspOut ==
  ASSUME NEW b, Standing(b), b.product = "saturn", NEW f \in Nat,
         NEW o \in Then(DxpReplaceDspconfig(b, 1, f), LAMBDA l :
                        SaturnUpdateMCAAddressCache([l EXCEPT !.dsp = f], 1))
  PROVE  Loads(b, o, "dsp")
<1> DEFINE r == Reset(b, f)
           S == Loading
<1>1. Rec(b) BY StandingIs
<1>2. /\ Changed(b, r, S) /\ Standing(r) /\ r.val = b.val /\ r.par[1] = FreshParams(f)
      /\ Rec(r) /\ r.product = b.product BY ResetOut
<1>3. PICK z \in Access(b, r) \cup Faulty(r) :
        IF z.ok THEN o \in SaturnUpdateMCAAddressCache([z.m EXCEPT !.dsp = f], 1) ELSE o = z
  BY DEF DxpReplaceDspconfig, Reset, Then
<1>4. {"budget"} \subseteq S /\ {"dsp"} \subseteq S /\ {"now", "budget", "val"} \subseteq S
      /\ "budget" \in S BY DEF Loading
<1> HIDE DEF r, S
<1>5. CASE z.ok = FALSE /\ Changed(b, z.m, {"budget"})
  <2>1. o = z BY <1>3, <1>5
  <2>2. o.m.par = b.par /\ o.m.val = b.val /\ o.m.error = b.error BY <1>5, <2>1 DEF Changed, Fields
  <2>3. Changed(b, o.m, Loading)
    <3>1. Changed(b, z.m, S) BY <1>4, <1>5, ChangedMore
    <3>2. QED BY <2>1, <3>1 DEF S
  <2>4. o.ok \in BOOLEAN BY <1>5, <2>1
  <2>5. QED BY <2>2, <2>3, <2>4, NotLoaded
<1>6. CASE z.ok = FALSE /\ z \in Faulty(r)
  <2>1. r.budget # 0 /\ o.ok = FALSE /\ o.m = [r EXCEPT !.budget = r.budget - 1]
    BY <1>3, <1>6 DEF Faulty, Refused
  <2> DEFINE w == [r EXCEPT !.budget = r.budget - 1]
             T == {"budget"}
  <2>a. "budget" \in T OBVIOUS
  <2> HIDE DEF w, T
  <2>2. Changed(r, w, T) /\ Rec(w) BY <1>2, <2>1, <2>a, Spent DEF w
  <2>3. Changed(b, w, S) BY <1>1, <1>2, <1>4, <2>2, ChangedTwice DEF T
  <2>4. /\ w.product = r.product /\ w.n = r.n /\ w.par = r.par /\ w.val = r.val
        /\ w.error = r.error /\ w.mode = r.mode /\ w.laid = r.laid /\ w.scas = r.scas
    BY <2>2 DEF Changed, Fields, T
  <2>5. Standing(w) BY <1>2, <2>2, <2>4, AlsoStanding
  <2>6. w.val = b.val BY <1>2, <2>4
  <2>7. o.m = w BY <2>1 DEF w
  <2>8. QED BY <2>1, <2>3, <2>5, <2>6, <2>7, LoadFailed DEF S
<1>7. CASE z.ok = TRUE /\ z.m = r
  <2> DEFINE l == [r EXCEPT !.dsp = f]
  <2>1. /\ Changed(r, l, {"dsp"}) /\ Rec(l) /\ \A g \in Fields \ {"dsp"} : l[g] = r[g]
    <3> DEFINE h == "dsp"
               T == {"dsp"}
               d == [r EXCEPT ![h] = f]
    <3>1. h \in T /\ h \in Fields \ {"budget"} BY DEF Fields
    <3>2. d = l OBVIOUS
    <3> HIDE DEF h, T, l
    <3>3. Changed(r, d, T) /\ Rec(d) /\ \A g \in Fields \ {h} : d[g] = r[g] BY <1>2, <3>1, PutField
    <3> HIDE DEF d
    <3>4. QED BY <3>2, <3>3 DEF h, T
  <2>2. o \in SaturnUpdateMCAAddressCache(l, 1) BY <1>3, <1>7
  <2> HIDE DEF l
  <2>3. /\ l.product = r.product /\ l.n = r.n /\ l.par = r.par /\ l.val = r.val
        /\ l.error = r.error /\ l.mode = r.mode /\ l.laid = r.laid /\ l.scas = r.scas
    BY <2>1 DEF Fields
  <2>4. Standing(l) BY <1>2, <2>1, <2>3, AlsoStanding
  <2>5. l.product = "saturn" BY <1>2, <2>3
  <2>6. /\ o.ok \in BOOLEAN /\ Changed(l, o.m, {"now", "budget", "val"}) /\ Standing(o.m)
        /\ o.m.par = l.par
        /\ o.m.val[1]["number_mca_channels"] = l.val[1]["number_mca_channels"]
        /\ IF o.ok THEN o.m.val[1]["mca_start_address"] = o.m.par[1]["SPECTSTART"]
           ELSE o.m.val = l.val BY <2>2, <2>4, <2>5, CacheUpdated
  <2>7. Changed(b, l, S) BY <1>1, <1>2, <1>4, <2>1, ChangedTwice
  <2>8. Changed(b, o.m, S) BY <1>1, <1>4, <2>6, <2>7, ChangedTwice
  <2>9. l.val = b.val BY <1>2, <2>3
  <2>10. QED BY <2>6, <2>8, <2>9 DEF Loads, S
<1>8. QED
  <2>1. z \in Faulty(r) => z.ok = FALSE BY DEF Faulty, Refused
  <2>2. z \in Access(b, r) =>
          (z.ok = TRUE /\ z.m = r) \/ (z.ok = FALSE /\ Changed(b, z.m, {"budget"}))
    BY <1>1, AccessOut
  <2>3. QED BY <1>3, <1>5, <1>6, <1>7, <2>1, <2>2

\* Loading a FiPPI.
LEMMA FippiOut ==
  ASSUME NEW b, Standing(b), b.product = "saturn", NEW f, NEW o \in FippiLoads(b, f), NEW t
  PROVE  Loads(b, o, t)
<1> DEFINE r == [b EXCEPT !.running = FALSE]
           S == Loading
<1>1. Rec(b) BY StandingIs
<1>2. PICK z \in Access(b, r) : IF z.ok THEN o \in Done([z.m EXCEPT !.fippi = f]) ELSE o = z
  BY DEF DxpReplaceFpgaconfig, FippiLoads, Then
<1>3. Changed(b, r, S) /\ Rec(r) /\ r.par = b.par /\ r.val = b.val /\ r.error = b.error
  <2> DEFINE h == "running"
             q == FALSE
             d == [b EXCEPT ![h] = q]
  <2>1. /\ h \in S /\ h \in Fields \ {"budget"} /\ "par" \in Fields \ {h} /\ "val" \in Fields \ {h}
        /\ "error" \in Fields \ {h} BY DEF Fields, Loading
  <2>2. d = r OBVIOUS
  <2> HIDE DEF h, q, r, S
  <2>3. Changed(b, d, S) /\ Rec(d) /\ \A g \in Fields \ {h} : d[g] = b[g] BY <1>1, <2>1, PutField
  <2> HIDE DEF d
  <2>4. QED BY <2>1, <2>2, <2>3
<1>4. {"budget"} \subseteq S /\ {"fippi"} \subseteq S BY DEF Loading
<1> HIDE DEF r, S
<1>5. CASE z.ok = FALSE /\ Changed(b, z.m, {"budget"})
  <2>1. o = z BY <1>2, <1>5
  <2>2. o.m.par = b.par /\ o.m.val = b.val /\ o.m.error = b.error BY <1>5, <2>1 DEF Changed, Fields
  <2>3. Changed(b, o.m, Loading)
    <3>1. Changed(b, z.m, S) BY <1>4, <1>5, ChangedMore
    <3>2. QED BY <2>1, <3>1 DEF S
  <2>4. o.ok \in BOOLEAN BY <1>5, <2>1
  <2>5. QED BY <2>2, <2>3, <2>4, NotLoaded
<1>6. CASE z.ok = TRUE /\ z.m = r
  <2> DEFINE l == [r EXCEPT !.fippi = f]
  <2>1. Changed(r, l, {"fippi"}) /\ Rec(l) /\ \A g \in Fields \ {"fippi"} : l[g] = r[g]
    <3> DEFINE h == "fippi"
               T == {"fippi"}
               d == [r EXCEPT ![h] = f]
    <3>1. h \in T /\ h \in Fields \ {"budget"} BY DEF Fields
    <3>2. d = l OBVIOUS
    <3>a. Rec(r) BY <1>3
    <3> HIDE DEF h, T, l
    <3>3. Changed(r, d, T) /\ Rec(d) /\ \A g \in Fields \ {h} : d[g] = r[g] BY <3>a, <3>1, PutField
    <3> HIDE DEF d
    <3>4. QED BY <3>2, <3>3 DEF h, T
  <2>2. o.ok = TRUE /\ o.m = l BY <1>2, <1>6, DoneIs
  <2> HIDE DEF l
  <2>3. l.par = b.par /\ l.val = b.val /\ l.error = b.error BY <1>3, <2>1 DEF Fields
  <2>4. Changed(b, l, S) BY <1>1, <1>3, <1>4, <2>1, ChangedTwice
  <2>5. o.ok \in BOOLEAN /\ Changed(b, o.m, Loading) BY <2>2, <2>4 DEF S
  <2>6. o.m.par = b.par /\ o.m.val = b.val /\ o.m.error = b.error BY <2>2, <2>3
  <2>7. QED BY <2>5, <2>6, NotLoaded
<1>7. QED
  <2>1. (z.ok = TRUE /\ z.m = r) \/ (z.ok = FALSE /\ Changed(b, z.m, {"budget"}))
    BY <1>1, <1>2, AccessOut
  <2>2. QED BY <1>5, <1>6, <2>1

\* Loading any firmware.
LEMMA DownloadOut ==
  ASSUME NEW b, Standing(b), b.product = "saturn", NEW t \in {"dsp", "fippi", "unknown"},
         NEW f \in 0..1, NEW o \in SaturnDownloadFirmware(b, 1, t, f)
  PROVE  Loads(b, o, t)
<1>1. Rec(b) /\ f \in Nat BY StandingIs
<1>2. CASE o \in Done(b) \cup Refused(b)
  <2>1. o.m = b /\ o.ok \in BOOLEAN BY <1>2, DoneIs, RefusedIs
  <2>2. Changed(b, b, Loading) BY <1>1, Same
  <2>3. QED BY <2>1, <2>2, NotLoaded
<1>3. CASE t = "dsp" /\ b.dsp # f
  <2>1. o \in Then(DxpReplaceDspconfig(b, 1, f), LAMBDA l :
                   SaturnUpdateMCAAddressCache([l EXCEPT !.dsp = f], 1))
    BY <1>3 DEF SaturnDownloadFirmware
  <2>2. Loads(b, o, "dsp") BY <1>1, <2>1, DspOut
  <2>3. QED BY <1>3, <2>2
<1>4. CASE t = "fippi" /\ b.fippi # f
  <2>1. o \in FippiLoads(b, f) BY <1>4 DEF SaturnDownloadFirmware, FippiLoads
  <2>2. QED BY <2>1, FippiOut
<1>5. CASE ~(t = "dsp" /\ b.dsp # f) /\ ~(t = "fippi" /\ b.fippi # f)
  <2>1. o \in Done(b) \cup Refused(b) BY <1>5 DEF SaturnDownloadFirmware
  <2>2. QED BY <1>2, <2>1
<1>6. QED BY <1>3, <1>4, <1>5

\* A snapshot: the instant is the board's as it takes it.
LEMMA UdxpSnapshotOut ==
  ASSUME NEW b, Rec(b), NEW o \in UdxpSnapshot(b)
  PROVE  o.ok \in BOOLEAN /\ Changed(b, o.m, {"now", "budget", "snap"})
<1> DEFINE S == {"now", "budget", "snap"}
<1>1. CASE o \in Refused(b)
  <2>1. o.ok = FALSE /\ o.m = b BY <1>1, RefusedIs
  <2>2. QED BY <2>1, Same
<1>2. CASE \E l \in Later(b) :
             o \in Access(l, [l EXCEPT !.snap = l.now]) \cup Faulty([l EXCEPT !.snap = l.now])
  <2>1. PICK l \in Later(b) :
             o \in Access(l, [l EXCEPT !.snap = l.now]) \cup Faulty([l EXCEPT !.snap = l.now])
    BY <1>2
  <2>2. Changed(b, l, {"now", "budget"}) /\ Rec(l) BY <2>1, LaterOut
  <2> DEFINE w == [l EXCEPT !.snap = l.now]
             x == l.now
  <2>3. Changed(l, w, {"snap"}) /\ Rec(w)
    <3> DEFINE h == "snap"
               T == {"snap"}
               d == [l EXCEPT ![h] = x]
    <3>1. h \in T /\ h \in Fields \ {"budget"} BY DEF Fields
    <3>2. d = w OBVIOUS
    <3>a. Rec(l) BY <2>2
    <3> HIDE DEF h, T, w, x
    <3>3. Changed(l, d, T) /\ Rec(d) BY <3>a, <3>1, PutField
    <3> HIDE DEF d
    <3>4. QED BY <3>2, <3>3 DEF T
  <2> HIDE DEF w
  <2>4. {"now", "budget"} \subseteq S /\ {"snap"} \subseteq S /\ {"budget"} \subseteq S OBVIOUS
  <2>5. Changed(b, l, S)
    <3> HIDE DEF S
    <3>1. QED BY <2>2, <2>4, ChangedMore
  <2>6. Changed(b, w, S)
    <3> HIDE DEF S
    <3>1. QED BY <2>3, <2>4, <2>5, ChangedTwice
  <2>7. CASE o \in Access(l, w)
    <3>1. (o.ok = TRUE /\ o.m = w) \/ (o.ok = FALSE /\ Changed(l, o.m, {"budget"}))
      BY <2>2, <2>7, AccessOut
    <3>2. Changed(l, o.m, {"budget"}) => Changed(b, o.m, S)
      <4> HIDE DEF S
      <4>1. QED BY <2>4, <2>5, ChangedTwice
    <3>3. QED BY <2>6, <3>1, <3>2
  <2>8. CASE o \in Faulty(w)
    <3>1. w.budget # 0 /\ o.ok = FALSE /\ o.m = [w EXCEPT !.budget = w.budget - 1]
      BY <2>8 DEF Faulty, Refused
    <3> DEFINE v == [w EXCEPT !.budget = w.budget - 1]
               T == {"budget"}
    <3>a. "budget" \in T OBVIOUS
    <3> HIDE DEF v, T
    <3>2. Changed(w, v, T) BY <2>3, <3>1, <3>a, Spent DEF v
    <3>3. Changed(b, v, S)
      <4> HIDE DEF S
      <4>1. QED BY <2>4, <2>6, <3>2, ChangedTwice DEF T
    <3>4. QED BY <3>1, <3>3 DEF v
  <2>9. QED BY <2>1, <2>7, <2>8 DEF w
<1>3. QED BY <1>1, <1>2 DEF UdxpSnapshot

-----------------------------------------------------------------------------
(* What any call that answers leaves, whatever the product. *)

\* A call that only reads.
LEMMA LeftAs ==
  ASSUME NEW b, Standing(b), NEW o, Went(b, o)
  PROVE  LET l == Emptying(o.m) IN
         /\ o.ok \in BOOLEAN /\ Rec(o.m) /\ Changed(b, l, Scratch) /\ Standing(l)
         /\ SameBoard(b, l) /\ l.error = b.error /\ l.par = b.par /\ l.val = b.val /\ l.n = b.n
         /\ l.product = b.product /\ l.laid = b.laid /\ l.mode = b.mode /\ l.pixels = b.pixels
<1> DEFINE l == Emptying(o.m)
<1>1. Rec(o.m) /\ Changed(b, o.m, Scratch) /\ o.ok \in BOOLEAN BY WentRec
<1>2. Rec(b) BY StandingIs
<1>3. Changed(o.m, l, Scratch) BY <1>1, EmptyingOut
<1> HIDE DEF l
<1>4. Changed(b, l, Scratch) BY <1>1, <1>2, <1>3, ChangedTwice
<1>5. /\ Standing(l) /\ l.par = b.par /\ l.val = b.val /\ l.known = b.known /\ l.snap = b.snap
      /\ l.n = b.n /\ l.product = b.product /\ l.error = b.error /\ l.laid = b.laid
      /\ l.mode = b.mode /\ l.pixels = b.pixels BY <1>4, StandingLater
<1>6. SameBoard(b, l) BY <1>5 DEF SameBoard
<1>7. QED BY <1>1, <1>4, <1>5, <1>6 DEF l

\* What is read word by word depends on the product only.
LEMMA ByWordsOf ==
  ASSUME NEW b, NEW l, l.product = b.product
  PROVE  ByWords(l) = ByWords(b)
BY DEF ByWords

\* The length of a spectrum that is read is the length that is told.
LEMMA ModuleLong ==
  ASSUME NEW b, Standing(b), b.product \in Big, NEW c \in 1..b.n, NEW n, NEW got,
         n \in Promising => Is(got, Wanted(b, c, n))
  PROVE  LongAs(b, c, n, got)
<1>1. /\ b.n \in Nat /\ b.par[c]["MCALIMLO"] = 0
      /\ b.par[c]["MCALIMHI"] = b.val[c]["number_mca_channels"]
      /\ b.val[c]["number_mca_channels"] \in Nat
  <2>1. b.n \in Nat \ {0} /\ b.val \in [1..b.n -> ValType] BY StandingIs
  <2>2. b.val[c]["number_mca_channels"] \in Nat BY <2>1 DEF ValType
  <2>3. QED BY <2>1, <2>2 DEF Standing, Fits
<1>2. Length(b, c) = b.val[c]["number_mca_channels"] /\ Length(b, c) \in Nat BY <1>1 DEF Length
<1>3. HostLength(b, c) = Length(b, c) BY DEF HostLength, Big
<1>4. {"mca", "module_mca"} \subseteq Promising BY DEF Promising
<1>5. ASSUME n = "mca"
      PROVE  Len(got) = 1 * HostLength(b, c)
  <2>1. Is(got, Bins(b, c)) BY <1>4, <1>5, WantedIs
  <2>2. DOMAIN Bins(b, c) = 1..Length(b, c) BY DEF Bins, Words
  <2>3. Len(got) = Length(b, c) BY <1>2, <2>1, <2>2, LenIs
  <2>4. QED BY <1>2, <1>3, <2>3
<1>6. ASSUME n = "module_mca"
      PROVE  Len(got) = b.n * HostLength(b, c)
  <2> DEFINE m == b.val[c]["number_mca_channels"] * b.n
  <2>1. Is(got, AllBins(b, c)) BY <1>4, <1>6, WantedIs
  <2>2. DOMAIN AllBins(b, c) = 1..m BY DEF AllBins, Words
  <2>3. m \in Nat /\ m = b.n * Length(b, c) BY <1>1, <1>2
  <2> HIDE DEF m
  <2>4. Len(got) = m BY <2>1, <2>2, <2>3, LenIs
  <2>5. QED BY <1>3, <2>3, <2>4
<1>7. QED BY <1>5, <1>6 DEF LongAs

\* A buffer is as large as what the board fills it with.
LEMMA ModuleSized ==
  ASSUME NEW b, Standing(b), b.product \in {"xmap", "mercury"}, NEW c \in 1..b.n,
         b.mode \in {"mca", "sca"}, b.mode = "mca" => EvenFor(b, c)
  PROVE  BufferSize(b, c) = Block + (b.pixels * Pixel(b))
<1>1. /\ b.n \in Nat /\ b.val[c]["number_mca_channels"] \in Nat /\ Block \in Nat
      /\ b.mode \in Modes[b.product] /\ \A j \in 1..b.n : b.scas[j] = b.val[j]["number_of_scas"]
  <2>1. b.n \in Nat \ {0} /\ b.val \in [1..b.n -> ValType] BY StandingIs
  <2>2. b.val[c]["number_mca_channels"] \in Nat BY <2>1 DEF ValType
  <2>3. b.product \in Big /\ b.product # "stj" BY DEF Big
  <2>4. b.mode \in Modes[b.product] /\ \A j \in 1..b.n : b.scas[j] = b.val[j]["number_of_scas"]
    BY <2>3 DEF Standing, Fits
  <2>5. QED BY <2>1, <2>2, <2>4, SizesAssumption
<1>2. b.product = "mercury" => b.mode = "mca" BY <1>1 DEF Modes
<1>3. CASE b.mode = "mca"
  <2> DEFINE w == b.val[c]["number_mca_channels"]
             L == b.laid
             m == b.n
  <2>1. \A j \in 1..m : L[j] = w BY <1>3 DEF EvenFor
  <2>a. w \in Nat BY <1>1
  <2>b. m \in Nat BY <1>1
  <2> HIDE DEF w, L, m
  <2>2. \A d \in 1..(m + 1) : Ahead(L, d) = (d - 1) * w BY <2>1, <2>a, <2>b, AheadEven
  <2>3. m + 1 \in 1..(m + 1) BY <2>b
  <2>4. Ahead(L, m + 1) = ((m + 1) - 1) * w BY <2>2, <2>3
  <2>c. (m + 1) - 1 = m BY <2>b
  <2>d. Ahead(L, m + 1) = m * w BY <2>4, <2>c
  <2>5. Ahead(L, b.n + 1) = b.n * w BY <2>d DEF m
  <2>6. PixelSize(b, c) = (b.n * w) + Block BY <1>3 DEF PixelSize, w
  <2>7. Pixel(b) = Block + (b.n * w) BY <1>3, <2>5 DEF Pixel, L
  <2>8. (b.n * w) + Block = Block + (b.n * w) BY <1>1, <2>a
  <2>9. QED BY <2>6, <2>7, <2>8 DEF BufferSize
<1>4. CASE b.mode # "mca"
  <2>1. [j \in Chans(b) |-> 2 * b.scas[j]] = [j \in Chans(b) |-> 2 * b.val[j]["number_of_scas"]]
    BY <1>1 DEF Chans
  <2>2. PixelSize(b, c) = ScaHeader + Ahead([j \in Chans(b) |-> 2 * b.scas[j]], b.n + 1)
    BY <1>2, <1>4 DEF PixelSize
  <2>3. Pixel(b) = ScaHeader + Ahead([j \in Chans(b) |-> 2 * b.val[j]["number_of_scas"]], b.n + 1)
    BY <1>4 DEF Pixel
  <2>4. PixelSize(b, c) = Pixel(b) BY <2>1, <2>2, <2>3
  <2>5. QED BY <2>4 DEF BufferSize
<1>5. QED BY <1>3, <1>4

\* The host's view is that of the board, however late.
LEMMA ViewLater ==
  ASSUME NEW b, NEW l, l.product = b.product, l.n = b.n, l.par = b.par, l.val = b.val,
         l.laid = b.laid, l.mode = b.mode, NEW c
  PROVE  /\ HostLength(l, c) = HostLength(b, c) /\ EvenFor(l, c) = EvenFor(b, c)
         /\ Length(l, c) = Length(b, c) /\ Pixel(l) = Pixel(b)
BY DEF HostLength, EvenFor, Length, Pixel, Chans

\* How long an answer has to be does not depend on when.
LEMMA LongLater ==
  ASSUME NEW b, NEW l, l.product = b.product, l.n = b.n, l.par = b.par, l.val = b.val,
         l.laid = b.laid, l.mode = b.mode, NEW c, NEW n, NEW got
  PROVE  LongAs(l, c, n, got) = LongAs(b, c, n, got)
<1>1. HostLength(l, c) = HostLength(b, c) /\ Length(l, 1) = Length(b, 1) BY ViewLater
<1>2. QED BY <1>1 DEF LongAs

\* A snapshot is not asked for by the names of a run.
LEMMA NoShot ==
  ASSUME NEW b, NEW n \in Names(b) \cup {"values"}
  PROVE  n \notin SnapshotNames
BY DEF Names, SnapshotNames, Counters, ScaNames, BaselineNames, GatedNames

\* A reply serves the call.
LEMMA BigServes ==
  ASSUME NEW b, Standing(b), b.product \in Big, NEW c \in 1..b.n,
         NEW n \in Names(b) \cup {"values"}, NEW o, Replies(b, c, n, o)
  PROVE  Serves(b, c, n, o)
<1> DEFINE l == Emptying(o.m)
           got == o.m.got
<1>1. Went(b, o) BY DEF Replies
<1>2. /\ o.ok \in BOOLEAN /\ Rec(o.m) /\ Changed(b, l, Scratch) /\ Standing(l)
      /\ SameBoard(b, l) /\ l.error = b.error /\ l.par = b.par /\ l.val = b.val /\ l.n = b.n
      /\ l.product = b.product /\ l.laid = b.laid /\ l.mode = b.mode /\ l.pixels = b.pixels
  BY <1>1, LeftAs
<1>3. ASSUME o.ok
      PROVE  /\ n \notin ByWords(b) => \E t : Since(got, t)
             /\ n \in Promising => Is(got, Wanted(b, c, n))
             /\ n = "mca_length" => \E t : got = <<{Figure(Length(b, c), t)}>>
             /\ n = "buffer_len" /\ b.product # "stj" =>
                    /\ \E t : got = <<{Figure(BufferSize(b, c), t)}>>
                    /\ b.mode \in {"mca", "sca"} BY <1>3 DEF Replies
<1> HIDE DEF l, got
<1>4. /\ HostLength(l, c) = HostLength(b, c) /\ EvenFor(l, c) = EvenFor(b, c)
      /\ Length(l, c) = Length(b, c) /\ Pixel(l) = Pixel(b) BY <1>2, ViewLater
<1>5. ASSUME o.ok PROVE OnTime(l, n, got)
  <2>1. ByWords(l) = ByWords(b) BY <1>2, ByWordsOf
  <2>2. QED BY <1>3, <1>5, <2>1 DEF OnTime
<1>6. ASSUME o.ok PROVE Owns(b, o, l, c, n, got)
  <2>1. SUFFICES ASSUME n \in Promising, SettledOn(b), n = "module_mca" => EvenFor(l, c)
                 PROVE  Is(got, Promise(l, c, n, Len(got)))
    BY <1>2 DEF Owns
  <2>2. Is(got, Wanted(b, c, n)) BY <1>3, <1>6, <2>1
  <2>3. Laid(b) BY StandingLaid
  <2>4. b.val[c]["number_of_scas"] = c - 1 BY DEF Standing, Fits
  <2>5. n = "module_mca" => \A j \in 1..b.n : b.laid[j] = b.val[c]["number_mca_channels"]
    BY <1>4, <2>1 DEF EvenFor
  <2>6. Is(got, Promise(b, c, n, Len(got))) BY <2>1, <2>2, <2>3, <2>4, <2>5, ModuleOwn
  <2>7. Promise(l, c, n, Len(got)) = Promise(b, c, n, Len(got)) BY <1>2, PromiseLater
  <2>8. QED BY <2>6, <2>7
<1>7. ASSUME o.ok PROVE LongAs(l, c, n, got)
  <2>1. n \in Promising => Is(got, Wanted(b, c, n)) BY <1>3, <1>7
  <2>2. LongAs(b, c, n, got) BY <2>1, ModuleLong
  <2>3. LongAs(l, c, n, got) = LongAs(b, c, n, got) BY <1>2, LongLater
  <2>4. QED BY <2>2, <2>3
<1>8. ASSUME o.ok PROVE SizedAs(l, c, n, got)
  <2>1. SUFFICES ASSUME n = "buffer_len", b.product # "stj", b.mode = "mca" => EvenFor(b, c)
                 PROVE  \A w \in got[1] : w.bin = Block + (b.pixels * Pixel(b))
    BY <1>2, <1>4 DEF SizedAs
  <2>2. b.product \in {"xmap", "mercury"} BY <2>1 DEF Big
  <2>3. b.mode \in {"mca", "sca"} BY <1>3, <1>8, <2>1
  <2>4. BufferSize(b, c) = Block + (b.pixels * Pixel(b)) BY <2>1, <2>2, <2>3, ModuleSized
  <2>5. PICK t : got = <<{Figure(BufferSize(b, c), t)}>> BY <1>3, <1>8, <2>1
  <2>6. got[1] = {Figure(BufferSize(b, c), t)} BY <2>5
  <2>7. Figure(BufferSize(b, c), t).bin = BufferSize(b, c) BY DEF Figure
  <2>8. QED BY <2>4, <2>6, <2>7
<1>9. ASSUME o.ok PROVE Tells(l, c, n, got)
  <2>1. l.product # "udxp" /\ b.product # "udxp" BY <1>2 DEF Big
  <2>2. HostLength(l, c) = Length(b, c) BY <1>4, <2>1 DEF HostLength
  <2>3. QED BY <1>3, <1>9, <2>1, <2>2 DEF Tells
<1>10. Shot(b, n, got) BY NoShot DEF Shot
<1>11. ~(b.error = TRUE /\ l.error = FALSE) BY <1>2
<1>12. QED BY <1>2, <1>5, <1>6, <1>7, <1>8, <1>9, <1>10, <1>11 DEF Serves, l, got

\* What a module replies is a reply.
LEMMA ModuleReplies ==
  ASSUME NEW b, Standing(b), b.product \in Big, NEW c \in 1..b.n, NEW n \in Names(b),
         NEW o \in GetData(b, c, n)
  PROVE  Replies(b, c, n, o)
<1>1. BoardType(b) /\ b.product \in {"xmap", "mercury", "stj"} BY DEF Standing, Big
<1>2. CASE b.product = "xmap"
  <2>1. o \in XmapGetRunData(b, c, n) BY <1>2 DEF GetData
  <2>2. QED BY <1>1, <1>2, <2>1, XmapReplies
<1>3. CASE b.product = "mercury"
  <2>1. o \in MercuryGetRunData(b, c, n) BY <1>3 DEF GetData
  <2>2. QED BY <1>1, <1>3, <2>1, MercuryReplies
<1>4. CASE b.product = "stj"
  <2>1. o \in StjGetRunData(b, c, n) BY <1>4 DEF GetData
  <2>2. QED BY <1>1, <1>4, <2>1, StjReplies
<1>5. QED BY <1>1, <1>2, <1>3, <1>4

\* What it replies of its parameters is.
LEMMA ModuleValues ==
  ASSUME NEW b, Standing(b), b.product \in Big, NEW c \in 1..b.n,
         NEW o \in GetParamValues(b, c)
  PROVE  Replies(b, c, "values", o)
<1>1. BoardType(b) /\ b.product \in {"xmap", "mercury", "stj"} BY DEF Standing, Big
<1>2. Rec(b) /\ b.error = FALSE BY <1>1, BigType DEF Big
<1>3. o \in Delivered(DxpDoReadout(b, c, "params"))
  <2>1. CASE b.product = "xmap" BY <2>1 DEF GetParamValues, XmapGetParamValues
  <2>2. CASE b.product = "mercury" BY <2>2 DEF GetParamValues, MercuryGetParamValues
  <2>3. CASE b.product = "stj" BY <2>3 DEF GetParamValues, StjGetParamValues
  <2>4. QED BY <1>1, <2>1, <2>2, <2>3
<1>4. Sends(b, o, Params(b, c), "any") BY <1>1, <1>2, <1>3, ParamsSend
<1>5. "values" \in ByWords(b) BY <1>1 DEF ByWords
<1>6. Wanted(b, c, "values") = Params(b, c) BY WantedIs
<1>7. QED BY <1>4, <1>5, <1>6, SendsReplies

\* A Saturn that stands, whatever became of the error.
LEMMA ErrorStands ==
  ASSUME NEW b, Standing(b), b.product = "saturn", NEW l, Rec(l), l.product = b.product,
         l.n = b.n, l.par = b.par, l.val = b.val, Flag(l.error)
  PROVE  Standing(l)
<1>1. BoardType(b) /\ b.product = "saturn" /\ b.product \notin Big BY DEF Standing, Big
<1>2. BoardType(l) BY <1>1 DEF BoardType, Flag
<1>3. QED BY <1>1, <1>2 DEF Standing, Fits

\* The error of the run was found.
LEMMA ReportedServes ==
  ASSUME NEW b, Standing(b), b.product = "saturn", NEW n \in {"baseline", "values"}, NEW o,
         Reported(b, o)
  PROVE  Serves(b, 1, n, o)
<1> DEFINE l == Emptying(o.m)
<1>1. o.ok = FALSE /\ Changed(b, o.m, Scratch \cup {"error"}) /\ Cleared(b, o.m) BY DEF Reported
<1>2. Rec(o.m) /\ Rec(b) BY <1>1, StandingIs DEF Changed
<1>3. Changed(o.m, l, Scratch) /\ Rec(l) BY <1>2, EmptyingOut
<1> HIDE DEF l
<1>4. Flag(b.error) BY DEF Standing, BoardType, Flag
<1>5. /\ o.m.product = b.product /\ o.m.n = b.n /\ o.m.par = b.par /\ o.m.val = b.val
      /\ o.m.snap = b.snap BY <1>1 DEF Changed, Fields, Scratch
<1>6. /\ l.product = b.product /\ l.n = b.n /\ l.par = b.par /\ l.val = b.val
      /\ l.snap = b.snap /\ l.error = o.m.error BY <1>3, <1>5 DEF Changed, Fields, Scratch
<1>7. Flag(l.error) BY <1>1, <1>4, <1>6 DEF Cleared, Flag
<1>8. Standing(l) BY <1>3, <1>6, <1>7, ErrorStands
<1>9. SameBoard(b, l) BY <1>6 DEF SameBoard
<1>10. QED BY <1>1, <1>2, <1>8, <1>9 DEF Serves, l

\* What a Saturn is not asked for.
LEMMA SaturnNames ==
  ASSUME NEW b, b.product = "saturn", NEW n \in Names(b) \cup {"values"}
  PROVE  n # "buffer_len" /\ n # "module_mca"
BY DEF Names, Counters, ScaNames, BaselineNames, Big

\* What a Saturn says serves the call.
LEMMA SaturnServes ==
  ASSUME NEW b, Standing(b), b.product = "saturn", NEW n \in Names(b) \cup {"values"}, NEW o,
         Confides(b, 1, n, o)
  PROVE  Serves(b, 1, n, o)
<1> DEFINE l == Emptying(o.m)
           got == o.m.got
<1>a. CASE n \in {"baseline", "values"} /\ Reported(b, o) BY <1>a, ReportedServes
<1>b. CASE Went(b, o)
  <2>2. /\ o.ok \in BOOLEAN /\ Rec(o.m) /\ Changed(b, l, Scratch) /\ Standing(l)
        /\ SameBoard(b, l) /\ l.error = b.error /\ l.par = b.par /\ l.val = b.val /\ l.n = b.n
        /\ l.product = b.product /\ l.laid = b.laid /\ l.mode = b.mode /\ l.pixels = b.pixels
    BY <1>b, LeftAs
  <2>3. ASSUME o.ok
        PROVE  /\ \E t : Since(got, t)
               /\ n \in Promising /\ o.m.budget = b.budget => Is(got, SaturnWanted(b, 1, n))
               /\ n = "mca" => Is(got, SaturnBins(b, 1))
               /\ n = "mca_length" => \E t : got = <<{Figure(Length(b, 1), t)}>>
    BY <2>3 DEF Confides
  <2> HIDE DEF l, got
  <2>4. HostLength(l, 1) = Length(b, 1) /\ Length(l, 1) = Length(b, 1)
    <3>1. HostLength(l, 1) = HostLength(b, 1) /\ Length(l, 1) = Length(b, 1) BY <2>2, ViewLater
    <3>2. QED BY <3>1 DEF HostLength
  <2>5. ASSUME o.ok PROVE OnTime(l, n, got) BY <2>3, <2>5 DEF OnTime
  <2>6. ASSUME o.ok PROVE Owns(b, o, l, 1, n, got)
    <3>1. SUFFICES ASSUME n \in Promising, o.m.budget = b.budget,
                          b.val[1]["mca_start_address"] = b.par[1]["SPECTSTART"]
                   PROVE  Is(got, Promise(l, 1, n, Len(got)))
      BY <2>2 DEF Owns
    <3>2. Is(got, SaturnWanted(b, 1, n)) BY <2>3, <2>6, <3>1
    <3>3. BoardType(b) BY DEF Standing
    <3>4. Is(got, Promise(b, 1, n, Len(got))) BY <3>1, <3>2, <3>3, SaturnOwn
    <3>5. Promise(l, 1, n, Len(got)) = Promise(b, 1, n, Len(got)) BY <2>2, PromiseLater
    <3>6. QED BY <3>4, <3>5
  <2>7. ASSUME o.ok PROVE LongAs(l, 1, n, got)
    <3>1. SUFFICES ASSUME n = "mca", b.val[1]["number_mca_channels"] = Length(b, 1)
                   PROVE  Len(got) = 1 * Length(b, 1)
      BY <2>2, <2>4, SaturnNames DEF LongAs
    <3>2. Is(got, SaturnBins(b, 1)) BY <2>3, <2>7, <3>1
    <3>3. b.val[1]["number_mca_channels"] \in Nat
      <4>1. b.n = 1 /\ b.val \in [1..b.n -> ValType] BY StandingIs DEF Big
      <4>2. QED BY <4>1 DEF ValType
    <3>4. DOMAIN SaturnBins(b, 1) = 1..(b.val[1]["number_mca_channels"]) BY DEF SaturnBins, Words
    <3>5. Len(got) = b.val[1]["number_mca_channels"] BY <3>2, <3>3, <3>4, LenIs
    <3>6. QED BY <3>1, <3>3, <3>5
  <2>8. SizedAs(l, 1, n, got) BY SaturnNames DEF SizedAs
  <2>9. ASSUME o.ok PROVE Tells(l, 1, n, got) BY <2>2, <2>3, <2>4, <2>9 DEF Tells
  <2>10. Shot(b, n, got) BY NoShot DEF Shot
  <2>11. ~(b.error = TRUE /\ l.error = FALSE) BY <2>2
  <2>12. QED BY <2>2, <2>5, <2>6, <2>7, <2>8, <2>9, <2>10, <2>11 DEF Serves, l, got
<1>c. QED BY <1>a, <1>b DEF Confides

\* What a microDXP is not asked for.
LEMMA UdxpAsked ==
  ASSUME NEW b, b.product = "udxp", NEW n \in Names(b) \cup SpecialNames \cup {"values"}
  PROVE  n # "buffer_len" /\ n # "module_mca"
BY DEF Names, SpecialNames, SnapshotNames, Counters, ScaNames, BaselineNames, GatedNames, Big

\* What a microDXP teaches serves the call.
LEMMA UdxpServes ==
  ASSUME NEW b, Standing(b), b.product = "udxp",
         NEW n \in Names(b) \cup SpecialNames \cup {"values"}, NEW o, Teaches(b, n, o)
  PROVE  Serves(b, 1, n, o)
<1> DEFINE l == Emptying(o.m)
           got == o.m.got
<1>1. UdxpType(b) BY DEF Standing, UdxpType
<1>2. /\ o.ok \in BOOLEAN /\ Changed(b, o.m, Scratch \cup {"par", "val", "known"})
      /\ UdxpType(o.m) /\ b.known \subseteq o.m.known
      /\ \A m \in b.known : o.m.val[1][m] = b.val[1][m] BY DEF Teaches, Learned
<1>3. Rec(o.m) BY <1>2 DEF Changed
<1>4. Changed(o.m, l, Scratch) BY <1>3, EmptyingOut
<1> HIDE DEF l
<1>5. UdxpType(l) /\ l.known = o.m.known /\ l.val = o.m.val /\ l.snap = o.m.snap
  BY <1>2, <1>4, UdxpLater DEF Changed, Fields, Scratch
<1>6. Standing(l) BY <1>5 DEF Standing, Fits, UdxpType, Big
<1>7. /\ b.product = "udxp" /\ l.product = "udxp" /\ b.n = 1 /\ l.n = 1 /\ b.error = FALSE
      /\ b.val[1]["number_mca_channels"] \in Nat BY <1>1, <1>5, UdxpIs
<1>8. o.m.snap = b.snap BY <1>2 DEF Changed, Fields, Scratch
<1>9. SameBoard(b, l) BY <1>2, <1>5, <1>7, <1>8 DEF SameBoard
<1>10. ASSUME o.ok
       PROVE  /\ n \notin ByWords(b) => \E t : Since(got, t)
              /\ n \in SnapshotNames => Since(got, b.snap)
              /\ n \in Promising => Is(got, UdxpWanted(b, n)) /\ Went(b, o)
              /\ n = "mca_length" =>
                   /\ "number_mca_channels" \in o.m.known
                   /\ \E t : got = <<{Figure(o.m.val[1]["number_mca_channels"], t)}>>
  BY <1>10 DEF Teaches
<1>11. ASSUME Went(b, o)
       PROVE  Changed(b, l, Scratch) /\ l.val = b.val
  BY <1>11, LeftAs DEF l
<1> HIDE DEF got
<1>12. ASSUME o.ok PROVE OnTime(l, n, got)
  <2>1. ByWords(l) = ByWords(b) BY <1>7, ByWordsOf
  <2>2. QED BY <1>10, <1>12, <2>1 DEF OnTime
<1>13. ASSUME o.ok PROVE Owns(b, o, l, 1, n, got)
  <2>1. SUFFICES ASSUME n \in Promising
                 PROVE  Is(got, Promise(l, 1, n, Len(got)))
    BY DEF Owns
  <2>2. Is(got, UdxpWanted(b, n)) /\ Went(b, o) BY <1>10, <1>13, <2>1
  <2>3. Is(got, Promise(b, 1, n, Len(got))) BY <1>1, <2>1, <2>2, UdxpOwn
  <2>4. Promise(l, 1, n, Len(got)) = Promise(b, 1, n, Len(got)) BY <1>11, <2>2, PromiseLater
  <2>5. QED BY <2>3, <2>4
<1>14. ASSUME o.ok PROVE LongAs(l, 1, n, got)
  <2>1. SUFFICES ASSUME n = "mca"
                 PROVE  Len(got) = 1 * HostLength(l, 1)
    BY <1>7, UdxpAsked DEF LongAs
  <2>2. "mca" \in Promising BY DEF Promising
  <2>3. Is(got, UdxpWanted(b, n)) /\ Went(b, o) BY <1>10, <1>14, <2>1, <2>2
  <2>4. Is(got, McaItems(b, 1)) BY <2>1, <2>3, BlocksWanted
  <2>5. DOMAIN McaItems(b, 1) = 1..(b.val[1]["number_mca_channels"]) BY DEF McaItems, Items
  <2>6. Len(got) = b.val[1]["number_mca_channels"] BY <1>7, <2>4, <2>5, LenIs
  <2>7. HostLength(l, 1) = b.val[1]["number_mca_channels"] BY <1>7, <1>11, <2>3 DEF HostLength
  <2>8. QED BY <1>7, <2>6, <2>7
<1>15. SizedAs(l, 1, n, got) BY <1>7, UdxpAsked DEF SizedAs
<1>16. ASSUME o.ok PROVE Tells(l, 1, n, got)
  <2>1. HostLength(l, 1) = o.m.val[1]["number_mca_channels"] BY <1>5, <1>7 DEF HostLength
  <2>2. QED BY <1>5, <1>10, <1>16, <2>1 DEF Tells
<1>17. ASSUME o.ok PROVE Shot(b, n, got) BY <1>10, <1>17 DEF Shot
<1>18. QED
  BY <1>2, <1>3, <1>6, <1>7, <1>9, <1>12, <1>13, <1>14, <1>15, <1>16, <1>17 DEF Serves, l, got

\* Data of a run, of any product.
LEMMA DataServes ==
  ASSUME NEW b, Standing(b), NEW c \in 1..b.n, NEW n \in Names(b), NEW o \in GetData(b, c, n)
  PROVE  Serves(b, c, n, o)
<1>1. BoardType(b) /\ b.product \in Big \cup {"saturn", "udxp"} /\ (b.product \notin Big => b.n = 1)
  BY StandingIs
<1>2. CASE b.product \in Big BY <1>2, ModuleReplies, BigServes
<1>3. CASE b.product = "saturn"
  <2>1. c = 1 /\ o \in SaturnGetRunData(b, c, n) BY <1>1, <1>3 DEF GetData, Big
  <2>2. QED BY <1>1, <1>3, <2>1, SaturnConfides, SaturnServes
<1>4. CASE b.product = "udxp"
  <2>1. c = 1 /\ o \in UdxpGetRunData(b, c, n) BY <1>1, <1>4 DEF GetData, Big
  <2>2. UdxpType(b) BY <1>1, <1>4 DEF UdxpType
  <2>3. QED BY <1>4, <2>1, <2>2, UdxpTeaches, UdxpServes
<1>5. QED BY <1>1, <1>2, <1>3, <1>4

\* Its parameters.
LEMMA ValuesServe ==
  ASSUME NEW b, Standing(b), NEW c \in 1..b.n, NEW o \in GetParamValues(b, c)
  PROVE  Serves(b, c, "values", o)
<1>1. BoardType(b) /\ b.product \in Big \cup {"saturn", "udxp"} /\ (b.product \notin Big => b.n = 1)
  BY StandingIs
<1>2. CASE b.product \in Big BY <1>2, ModuleValues, BigServes
<1>3. CASE b.product = "saturn"
  <2>1. c = 1 /\ o \in SaturnGetParamData(b, c) BY <1>1, <1>3 DEF GetParamValues, Big
  <2>2. QED BY <1>1, <1>3, <2>1, SaturnValuesConfide, SaturnServes
<1>4. CASE b.product = "udxp"
  <2>1. c = 1 /\ o \in UdxpGetParamValues(b, c) BY <1>1, <1>4 DEF GetParamValues, Big
  <2>2. UdxpType(b) BY <1>1, <1>4 DEF UdxpType
  <2>3. QED BY <1>4, <2>1, <2>2, ValuesTeach, UdxpServes
<1>5. QED BY <1>1, <1>2, <1>3, <1>4

\* What a snapshot holds.
LEMMA SpecialServes ==
  ASSUME NEW b, Standing(b), b.product = "udxp", NEW c \in 1..b.n, NEW n \in SpecialNames,
         NEW o \in UdxpGetSpecialRunData(b, c, n)
  PROVE  Serves(b, c, n, o)
<1>1. BoardType(b) /\ c = 1 BY StandingIs DEF Big
<1>2. UdxpType(b) BY <1>1 DEF UdxpType
<1>3. QED BY <1>1, <1>2, SpecialTeaches, UdxpServes

-----------------------------------------------------------------------------
(* The application: what it was told and has seen is true of the board.      *)

\* The host's length of a spectrum is left by a call for data.
LEMMA HostLengthSame ==
  ASSUME NEW b, NEW l, SameBoard(b, l), NEW c,
         b.product = "udxp" => c = 1 /\ "number_mca_channels" \in b.known
  PROVE  HostLength(l, c) = HostLength(b, c)
<1>1. CASE b.product = "udxp" BY <1>1 DEF SameBoard, HostLength
<1>2. CASE b.product # "udxp" BY <1>2 DEF SameBoard, HostLength, Length
<1>3. QED BY <1>1, <1>2

\* What was told stays true.
LEMMA HeardStays ==
  ASSUME NEW b, Standing(b), NEW a, Heard(b, a), NEW l, SameBoard(b, l)
  PROVE  Heard(l, a)
<1>1. l.n = b.n /\ l.product = b.product /\ (b.product = "udxp" => b.known \subseteq l.known)
  BY DEF SameBoard
<1>2. b.product = "udxp" => b.n = 1 BY StandingIs DEF Big
<1>3. ASSUME NEW c \in 1..b.n, a[c] # None
      PROVE  /\ a[c] = HostLength(l, c)
             /\ l.product = "udxp" => "number_mca_channels" \in l.known
  <2>1. a[c] = HostLength(b, c) /\ (b.product = "udxp" => "number_mca_channels" \in b.known)
    BY <1>3 DEF Heard
  <2>2. b.product = "udxp" => c = 1 BY <1>2
  <2>3. HostLength(l, c) = HostLength(b, c) BY <2>1, <2>2, HostLengthSame
  <2>4. QED BY <1>1, <2>1, <2>3
<1>4. QED BY <1>1, <1>3 DEF Heard

\* What moved stays so.
LEMMA TracedStays ==
  ASSUME NEW b, NEW s, Traced(b, s), NEW l, SameBoard(b, l)
  PROVE  Traced(l, s)
<1>1. CASE b.product = "saturn" BY <1>1 DEF SameBoard, Traced, Length
<1>2. CASE b.product # "saturn" BY <1>2 DEF SameBoard, Traced
<1>3. QED BY <1>1, <1>2

\* What is told now is true.
LEMMA HeardNow ==
  ASSUME NEW b, Standing(b), NEW a, Heard(b, a), NEW l, SameBoard(b, l), NEW c \in 1..b.n, NEW n,
         NEW o, o.ok => Tells(l, c, n, o.m.got)
  PROVE  Heard(l, Hearing(a, c, n, o))
<1>1. Heard(l, a) BY HeardStays
<1>2. CASE ~(o.ok /\ n = "mca_length")
  <2>1. Hearing(a, c, n, o) = a BY <1>2 DEF Hearing
  <2>2. QED BY <1>1, <2>1
<1>3. CASE o.ok /\ n = "mca_length"
  <2> DEFINE x == HostLength(l, c)
  <2>1. PICK t : o.m.got = <<{Figure(x, t)}>> BY <1>3 DEF Tells
  <2>2. l.product = "udxp" => "number_mca_channels" \in l.known BY <1>3 DEF Tells
  <2>3. o.m.got[1] = {Figure(x, t)} BY <2>1
  <2>4. (CHOOSE w \in o.m.got[1] : TRUE) = Figure(x, t) BY <2>3
  <2>5. Figure(x, t).bin = x BY DEF Figure
  <2>6. Hearing(a, c, n, o) = [a EXCEPT ![c] = x] BY <1>3, <2>4, <2>5 DEF Hearing
  <2>7. l.n = b.n BY DEF SameBoard
  <2>8. QED BY <1>1, <2>2, <2>6, <2>7 DEF Heard
<1>4. QED BY <1>2, <1>3

\* Data of one instant.
LEMMA InstantsOf ==
  ASSUME NEW got, NEW t, Since(got, t)
  PROVE  /\ Instants(got) \subseteq {t}
         /\ Cardinality(Instants(got)) <= 1
<1>1. Instants(got) \subseteq {t} BY DEF Since, Instants
<1>2. IsFiniteSet({t}) /\ Cardinality({t}) = 1 BY FS_Singleton
<1>3. IsFiniteSet(Instants(got)) /\ Cardinality(Instants(got)) <= Cardinality({t})
  BY <1>1, <1>2, FS_Subset
<1>4. QED BY <1>1, <1>2, <1>3

\* All that is seen of a snapshot is of its instant.
LEMMA SeenNow ==
  ASSUME NEW b, NEW s, s \in {None, b.snap}, NEW n, NEW o, o.ok => Shot(b, n, o.m.got)
  PROVE  /\ Seeing(s, n, o) \in {None, b.snap}
         /\ o.ok /\ n \in SnapshotNames => Instants(o.m.got) \subseteq {Seeing(s, n, o)}
<1>1. CASE ~(o.ok /\ n \in SnapshotNames) BY <1>1 DEF Seeing
<1>2. CASE o.ok /\ n \in SnapshotNames
  <2> DEFINE I == Instants(o.m.got)
  <2>1. I \subseteq {b.snap} BY <1>2, InstantsOf DEF Shot
  <2>2. Seeing(s, n, o) = IF s = None /\ I # {} THEN CHOOSE t \in I : TRUE ELSE s BY <1>2 DEF Seeing
  <2> HIDE DEF I
  <2>3. ASSUME s = None /\ I # {}
        PROVE  Seeing(s, n, o) = b.snap
    <3>1. (CHOOSE t \in I : TRUE) \in I BY <2>3
    <3>2. Seeing(s, n, o) = CHOOSE t \in I : TRUE BY <2>2, <2>3
    <3>3. QED BY <2>1, <3>1, <3>2
  <2>4. ASSUME ~(s = None /\ I # {})
        PROVE  Seeing(s, n, o) = s
    BY <2>2, <2>4
  <2>5. Seeing(s, n, o) \in {None, b.snap} /\ I \subseteq {Seeing(s, n, o)} BY <2>1, <2>3, <2>4
  <2>6. QED BY <2>5 DEF I
<1>3. QED BY <1>1, <1>2

\* What a call leaves and answers.
LEMMA CallIs ==
  ASSUME NEW n, NEW c, NEW o, Call(n, c, o)
  PROVE  /\ k' = Emptying(o.m) /\ last'.op = n /\ last'.chan = c /\ last'.ok = o.ok
         /\ last'.got = (IF o.ok THEN o.m.got ELSE <<>>)
         /\ last'.clean = (o.m.budget = k.budget) /\ last'.settled = Settled
BY DEF Call, Emptying

\* A call for data, whatever the product.
LEMMA ServedKeeps ==
  ASSUME Kept, NEW c \in 1..k.n, NEW n, NEW o, Serves(k, c, n, o), Call(n, c, o),
         told' = Hearing(told, c, n, o), seen' = Seeing(seen, n, o), moved' = moved
  PROVE  Kept'
<1>1. k' = Emptying(o.m) BY CallIs
<1>2. /\ Rec(o.m) /\ Standing(k') /\ SameBoard(k, k')
      /\ o.ok => Tells(k', c, n, o.m.got) /\ Shot(k, n, o.m.got) BY <1>1 DEF Serves
<1>3. k'.got = <<>> BY <1>1, <1>2, EmptyingOut
<1>4. Standing(k) /\ Heard(k, told) /\ Traced(k, moved) /\ seen \in {None, k.snap} BY DEF Kept
<1>5. Heard(k', told') BY <1>2, <1>4, HeardNow
<1>6. Traced(k', moved') BY <1>2, <1>4, TracedStays
<1>7. k'.snap = k.snap BY <1>2 DEF SameBoard
<1>8. seen' \in {None, k'.snap} BY <1>2, <1>4, <1>7, SeenNow
<1>9. QED BY <1>2, <1>3, <1>5, <1>6, <1>8 DEF Kept

\* A call that is served answers of one instant.
LEMMA ServedOnce ==
  ASSUME NEW c, NEW n, NEW o, Serves(k, c, n, o), Call(n, c, o)
  PROVE  OneInstant'
<1>1. /\ k' = Emptying(o.m) /\ last'.op = n /\ last'.ok = o.ok
      /\ last'.got = (IF o.ok THEN o.m.got ELSE <<>>) BY CallIs
<1>2. SUFFICES ASSUME o.ok, n \notin ByWords(k')
               PROVE  Cardinality(Instants(o.m.got)) <= 1
  BY <1>1 DEF OneInstant
<1>3. OnTime(k', n, o.m.got) BY <1>1, <1>2 DEF Serves
<1>4. PICK t : Since(o.m.got, t) BY <1>2, <1>3 DEF OnTime
<1>5. QED BY <1>4, InstantsOf

\* A call that is served answers what was asked for.
LEMMA ServedOwn ==
  ASSUME Kept, NEW c \in 1..k.n, NEW n, NEW o, Serves(k, c, n, o), Call(n, c, o), moved' = moved
  PROVE  OwnData'
<1> DEFINE got == o.m.got
           l == Emptying(o.m)
<1>1. /\ k' = l /\ last'.op = n /\ last'.chan = c /\ last'.ok = o.ok
      /\ last'.got = (IF o.ok THEN o.m.got ELSE <<>>)
      /\ last'.clean = (o.m.budget = k.budget) /\ last'.settled = Settled BY CallIs
<1>2. SameBoard(k, l) /\ (o.ok => Owns(k, o, l, c, n, got)) BY DEF Serves
<1> HIDE DEF got, l
<1>3. l.product = k.product /\ l.n = k.n BY <1>2 DEF SameBoard
<1>4. ASSUME k.product \in Big, Settled
      PROVE  SettledOn(k)
  BY <1>4 DEF Settled, SettledOn, RunLength, Chans, Big
<1>5. ASSUME \A d \in Chans(l) : l.laid[d] = l.val[c]["number_mca_channels"]
      PROVE  EvenFor(l, c)
  BY <1>5 DEF EvenFor, Chans
<1>6. ASSUME l.product = "saturn", "start" \notin moved
      PROVE  l.val[1]["mca_start_address"] = l.par[1]["SPECTSTART"]
  <2>1. Traced(k, moved) /\ k.product = "saturn" BY <1>3, <1>6 DEF Kept
  <2>2. l.val = k.val /\ l.par = k.par BY <1>2, <2>1 DEF SameBoard
  <2>3. QED BY <1>6, <2>1, <2>2 DEF Traced
<1>7. ASSUME o.ok, n \in Promising, l.product \in Big => Settled,
             n = "module_mca" => \A d \in Chans(l) : l.laid[d] = l.val[c]["number_mca_channels"],
             l.product = "saturn" => o.m.budget = k.budget /\ "start" \notin moved
      PROVE  Is(got, Promise(l, c, n, Len(got)))
  BY <1>2, <1>3, <1>4, <1>5, <1>6, <1>7 DEF Owns
<1>8. SUFFICES ASSUME o.ok, n \in Promising, l.product \in Big => Settled,
                      n = "module_mca" =>
                        \A d \in Chans(l) : l.laid[d] = l.val[c]["number_mca_channels"],
                      l.product = "saturn" => o.m.budget = k.budget /\ "start" \notin moved
               PROVE  [i \in DOMAIN got |-> {<<w.item, w.chan, w.bin>> : w \in got[i]}]
                        = Promise(l, c, n, Len(got)) BY <1>1 DEF OwnData, Even, got
<1>9. Is(got, Promise(l, c, n, Len(got))) BY <1>7, <1>8
<1>10. QED BY <1>9 DEF Is, Triple

\* A call that is served answers as much as was told.
LEMMA ServedFits ==
  ASSUME Kept, NEW c \in 1..k.n, NEW n, NEW o, Serves(k, c, n, o), Call(n, c, o),
         told' = Hearing(told, c, n, o), moved' = moved
  PROVE  DataFitsLength'
<1> DEFINE got == o.m.got
           l == Emptying(o.m)
<1>1. /\ k' = l /\ last'.op = n /\ last'.chan = c /\ last'.ok = o.ok
      /\ last'.got = (IF o.ok THEN got ELSE <<>>)
      /\ last'.settled = Settled BY CallIs
<1>2. SameBoard(k, l) /\ (o.ok => LongAs(l, c, n, got) /\ SizedAs(l, c, n, got)) BY DEF Serves
<1> HIDE DEF got, l
<1>3. Standing(k) /\ Heard(k, told) /\ Traced(k, moved) BY DEF Kept
<1>4. Heard(l, told) /\ Traced(l, moved) BY <1>2, <1>3, HeardStays, TracedStays
<1>5. l.product = k.product /\ l.n = k.n BY <1>2 DEF SameBoard
<1>6. ASSUME o.ok, n \in {"mca", "module_mca"}, told'[c] # None, "length" \notin moved
      PROVE  Len(got) = (IF n = "mca" THEN 1 ELSE l.n) * told'[c]
  <2>1. told' = told BY <1>6 DEF Hearing
  <2>2. told'[c] = HostLength(l, c) BY <1>4, <1>5, <1>6, <2>1 DEF Heard
  <2>3. l.product = "saturn" => l.val[1]["number_mca_channels"] = Length(l, 1)
    BY <1>4, <1>6 DEF Traced
  <2>4. Len(got) = (IF n = "mca" THEN 1 ELSE l.n) * HostLength(l, c) BY <1>2, <1>6, <2>3 DEF LongAs
  <2>5. QED BY <2>2, <2>4
<1>7. ASSUME o.ok, n = "buffer_len", l.product # "stj",
             l.mode = "mca" => \A d \in Chans(l) : l.laid[d] = l.val[c]["number_mca_channels"]
      PROVE  \A w \in got[1] : w.bin = Block + (l.pixels * Pixel(l))
  <2>1. l.mode = "mca" => EvenFor(l, c) BY <1>7 DEF EvenFor, Chans
  <2>2. QED BY <1>2, <1>7, <2>1 DEF SizedAs
<1>8. QED BY <1>1, <1>6, <1>7 DEF DataFitsLength, Even, Pixel

\* A call that is served answers of the snapshot that was taken.
LEMMA ServedSnap ==
  ASSUME Kept, NEW c, NEW n, NEW o, Serves(k, c, n, o), Call(n, c, o), seen' = Seeing(seen, n, o)
  PROVE  SnapshotsAgree'
<1>1. /\ last'.op = n /\ last'.ok = o.ok
      /\ last'.got = (IF o.ok THEN o.m.got ELSE <<>>) BY CallIs
<1>2. o.ok => Shot(k, n, o.m.got) BY DEF Serves
<1>3. seen \in {None, k.snap} BY DEF Kept
<1>4. o.ok /\ n \in SnapshotNames => Instants(o.m.got) \subseteq {seen'} BY <1>2, <1>3, SeenNow
<1>5. QED BY <1>1, <1>4 DEF SnapshotsAgree

\* An error that is gone was reported.
LEMMA ServedReports ==
  ASSUME Kept, NEW c, NEW n, NEW o, Serves(k, c, n, o), Call(n, c, o), k.error, ~k'.error
  PROVE  last'.op \in {"baseline", "values"} /\ ~last'.ok
<1>1. k' = Emptying(o.m) /\ last'.op = n /\ last'.ok = o.ok BY CallIs
<1>2. Standing(k) /\ Standing(k') BY <1>1 DEF Kept, Serves
<1>3. k.error = TRUE /\ k'.error = FALSE BY <1>2 DEF Standing, BoardType
<1>4. n \in {"baseline", "values"} /\ o.ok = FALSE BY <1>1, <1>3 DEF Serves
<1>5. QED BY <1>1, <1>4

-----------------------------------------------------------------------------
(* The calls that answer no data, and the board by itself. *)

\* A board stands also with its scratch emptied.
LEMMA EmptiedStands ==
  ASSUME NEW m, Standing(m)
  PROVE  LET l == Emptying(m) IN
         /\ Standing(l) /\ l.got = <<>> /\ l.par = m.par /\ l.val = m.val /\ l.known = m.known
         /\ l.snap = m.snap /\ l.n = m.n /\ l.product = m.product /\ l.error = m.error
<1> DEFINE l == Emptying(m)
<1>1. Rec(m) BY StandingIs
<1>2. Changed(m, l, Scratch) /\ l.got = <<>> BY <1>1, EmptyingOut
<1> HIDE DEF l
<1>3. QED BY <1>2, StandingLater DEF l

\* Nothing to be answered.
LEMMA NoData == Cardinality(Instants(<<>>)) <= 1 /\ \A s : Instants(<<>>) \subseteq s
<1>1. Instants(<<>>) = {} BY DEF Instants
<1>2. QED BY <1>1, FS_EmptySet

\* A call that answers nothing.
LEMMA QuietCall ==
  ASSUME NEW n, n \notin Promising, n \notin {"mca", "module_mca", "buffer_len"}, NEW c, NEW o,
         o.m.got = <<>>, Call(n, c, o)
  PROVE  Answered'
<1>1. last'.op = n /\ last'.got = <<>> BY CallIs
<1>2. OneInstant' BY <1>1, NoData DEF OneInstant
<1>3. OwnData' BY <1>1 DEF OwnData
<1>4. DataFitsLength' BY <1>1 DEF DataFitsLength
<1>5. SnapshotsAgree' BY <1>1, NoData DEF SnapshotsAgree
<1>6. QED BY <1>2, <1>3, <1>4, <1>5 DEF Answered

\* Before any answer.
LEMMA IdleAnswered ==
  ASSUME last' = NoAnswer
  PROVE  Answered'
<1>1. last'.op = "none" /\ last'.got = <<>> BY DEF NoAnswer
<1>2. "none" \notin Promising /\ "none" \notin SnapshotNames
  BY DEF Promising, Counters, GatedNames, SnapshotNames
<1>3. OneInstant' BY <1>1, NoData DEF OneInstant
<1>4. OwnData' BY <1>1, <1>2 DEF OwnData
<1>5. DataFitsLength' BY <1>1 DEF DataFitsLength
<1>6. SnapshotsAgree' BY <1>1, <1>2 DEF SnapshotsAgree
<1>7. QED BY <1>3, <1>4, <1>5, <1>6 DEF Answered

\* The names of the calls that set something.
LEMMA QuietNames ==
  ASSUME NEW n \in {"number_mca_channels", "mca_low_limit", "dsp", "fippi", "unknown", "snapshot"}
  PROVE  /\ n \notin Promising /\ n \notin {"mca", "module_mca", "buffer_len"}
         /\ n \notin {"baseline", "values"}
BY DEF Promising, Counters, GatedNames, SnapshotNames

\* What was told of the other channels stays true.
LEMMA HeardLess ==
  ASSUME NEW b, NEW a, Heard(b, a), b.product # "udxp", NEW c, NEW l, l.n = b.n,
         l.product = b.product, \A d \in 1..b.n : d # c => Length(l, d) = Length(b, d)
  PROVE  Heard(l, Forgetting(a, c))
<1> DEFINE f == Forgetting(a, c)
<1>1. f = [d \in 1..b.n |-> IF d = c THEN None ELSE a[d]] BY DEF Heard, Forgetting
<1>2. ASSUME NEW d \in 1..b.n, f[d] # None
      PROVE  f[d] = HostLength(l, d)
  <2>1. d # c /\ f[d] = a[d] BY <1>1, <1>2
  <2> HIDE DEF f
  <2>2. a[d] = HostLength(b, d) BY <1>2, <2>1 DEF Heard
  <2>3. HostLength(b, d) = Length(b, d) /\ HostLength(l, d) = Length(l, d) BY DEF HostLength
  <2>4. QED BY <2>1, <2>2, <2>3
<1>3. f = [d \in 1..l.n |-> f[d]] BY <1>1
<1> HIDE DEF f
<1>4. Heard(l, f) BY <1>2, <1>3 DEF Heard
<1>5. QED BY <1>4 DEF f

\* The length of a module's spectrum.
LEMMA SetLengthKeeps ==
  ASSUME Kept, SetLength
  PROVE  Kept' /\ Answered' /\ k'.error = k.error
<1>1. PICK c \in Chans(k), v \in Lengths :
        \E o \in PslSetAcquisitionValues(k, c, "number_mca_channels",
                                         SetNumMCAChans([k EXCEPT !.value = v], c)) :
          /\ Call("number_mca_channels", c, o)
          /\ told' = [told EXCEPT ![c] = None]
          /\ moved' = IF o.ok THEN moved \ {"length"} ELSE moved
          /\ UNCHANGED seen BY DEF SetLength
<1>2. PICK o \in PslSetAcquisitionValues(k, c, "number_mca_channels",
                                         SetNumMCAChans([k EXCEPT !.value = v], c)) :
          /\ Call("number_mca_channels", c, o)
          /\ told' = Forgetting(told, c)
          /\ moved' = IF o.ok THEN moved \ {"length"} ELSE moved
          /\ seen' = seen BY <1>1 DEF Forgetting
<1>3. /\ v \in Nat /\ c \in 1..k.n /\ k.product # "udxp" /\ Standing(k) /\ k.got = <<>>
      /\ Heard(k, told) /\ Traced(k, moved) /\ seen \in {None, k.snap}
  BY SizesAssumption DEF Kept, SetLength, Chans
<1>4. k.product \in Big \cup {"saturn"} /\ (k.product = "saturn" => k.n = 1)
  BY <1>3, StandingIs DEF Big
<1> DEFINE n == "number_mca_channels"
<1>5. /\ Changed(k, o.m, Setting) /\ Standing(o.m)
      /\ \A d \in 1..k.n : d # c => Length(o.m, d) = Length(k, d)
  <2>1. CASE k.product \in Big BY <1>2, <1>3, <2>1, ModuleSetOut DEF SetsLength
  <2>2. CASE k.product = "saturn"
    <3>1. c = 1 BY <1>3, <1>4, <2>2
    <3>2. SetsLimit(k, o) BY <1>2, <1>3, <2>2, <3>1, SaturnSetOut
    <3>3. \A d \in 1..k.n : d = c BY <1>4, <2>2, <3>1
    <3>4. QED BY <3>2, <3>3 DEF SetsLimit
  <2>3. QED BY <1>4, <2>1, <2>2
<1>6. k' = Emptying(o.m) BY <1>2, CallIs
<1>7. /\ Standing(k') /\ k'.got = <<>> /\ k'.par = o.m.par /\ k'.val = o.m.val
      /\ k'.snap = o.m.snap /\ k'.n = o.m.n /\ k'.product = o.m.product /\ k'.error = o.m.error
  BY <1>5, <1>6, EmptiedStands
<1>8. /\ o.m.snap = k.snap /\ o.m.n = k.n /\ o.m.product = k.product /\ o.m.error = k.error
      /\ o.m.got = k.got BY <1>5 DEF Changed, Fields, Setting
<1>9. \A d \in 1..k.n : d # c => Length(k', d) = Length(k, d) BY <1>5, <1>7 DEF Length
<1>10. Heard(k', told') BY <1>2, <1>3, <1>7, <1>8, <1>9, HeardLess
<1>11. Traced(k', moved')
  <2>1. CASE k.product # "saturn" BY <1>7, <1>8, <2>1 DEF Traced
  <2>2. CASE k.product = "saturn"
    <3>1. c = 1 BY <1>3, <1>4, <2>2
    <3>2. /\ SetsLimit(k, o)
          /\ (~o.ok /\ NoneSet(k, o.m)) \/ o.m.val[1]["number_mca_channels"] = Length(o.m, 1)
      BY <1>2, <1>3, <2>2, <3>1, SaturnSetOut
    <3>3. Length(k', 1) = Length(o.m, 1) BY <1>7 DEF Length
    <3>4. "length" \notin moved' => k'.val[1]["number_mca_channels"] = Length(k', 1)
      <4>1. CASE o.m.val[1]["number_mca_channels"] = Length(o.m, 1) BY <1>7, <3>3, <4>1
      <4>2. CASE ~o.ok /\ NoneSet(k, o.m)
        <5>1. moved' = moved /\ o.m.par = k.par /\ o.m.val = k.val BY <1>2, <4>2 DEF NoneSet
        <5>2. Length(o.m, 1) = Length(k, 1) BY <5>1 DEF Length
        <5>3. QED BY <1>3, <1>7, <2>2, <3>3, <5>1, <5>2 DEF Traced
      <4>3. QED BY <3>2, <4>1, <4>2
    <3>5. "start" \notin moved' => k'.val[1]["mca_start_address"] = k'.par[1]["SPECTSTART"]
      BY <1>2, <1>3, <1>7, <2>2, <3>2 DEF Traced, SetsLimit
    <3>6. QED BY <3>4, <3>5 DEF Traced
  <2>3. QED BY <2>1, <2>2
<1>12. Kept' BY <1>2, <1>3, <1>7, <1>8, <1>10, <1>11 DEF Kept
<1>13. Answered' BY <1>2, <1>3, <1>8, QuietNames, QuietCall
<1>14. QED BY <1>7, <1>8, <1>12, <1>13

\* The low limit of a Saturn.
LEMMA SetLowKeeps ==
  ASSUME Kept, SetLowLimit
  PROVE  Kept' /\ Answered' /\ k'.error = k.error
<1>1. PICK v \in Lengths : \E o \in SaturnDoMCALowLimit([k EXCEPT !.value = v], 1) :
          /\ Call("mca_low_limit", 1, o)
          /\ told' = [told EXCEPT ![1] = None]
          /\ moved' = IF o.ok THEN moved \cup {"length"} ELSE moved
          /\ UNCHANGED seen BY DEF SetLowLimit
<1>2. PICK o \in SaturnDoMCALowLimit([k EXCEPT !.value = v], 1) :
          /\ Call("mca_low_limit", 1, o)
          /\ told' = Forgetting(told, 1)
          /\ moved' = IF o.ok THEN moved \cup {"length"} ELSE moved
          /\ seen' = seen BY <1>1 DEF Forgetting
<1>3. /\ v \in Nat /\ k.product = "saturn" /\ Standing(k) /\ k.got = <<>>
      /\ Heard(k, told) /\ Traced(k, moved) /\ seen \in {None, k.snap}
  BY SizesAssumption DEF Kept, SetLowLimit
<1>4. k.n = 1 BY <1>3, StandingIs DEF Big
<1>5. SetsLimit(k, o) /\ (~o.ok => NoneSet(k, o.m)) /\ o.m.val = k.val BY <1>2, <1>3, SaturnLowOut
<1>6. k' = Emptying(o.m) BY <1>2, CallIs
<1>7. /\ Standing(k') /\ k'.got = <<>> /\ k'.par = o.m.par /\ k'.val = o.m.val
      /\ k'.snap = o.m.snap /\ k'.n = o.m.n /\ k'.product = o.m.product /\ k'.error = o.m.error
  BY <1>5, <1>6, EmptiedStands DEF SetsLimit
<1>8. /\ o.m.snap = k.snap /\ o.m.n = k.n /\ o.m.product = k.product /\ o.m.error = k.error
      /\ o.m.got = k.got BY <1>5 DEF SetsLimit, Changed, Fields, Setting
<1>9. \A d \in 1..k.n : d # 1 => Length(k', d) = Length(k, d) BY <1>4
<1>10. Heard(k', told') BY <1>2, <1>3, <1>7, <1>8, <1>9, HeardLess
<1>11. Traced(k', moved')
  <2>1. "length" \notin moved' => k'.val[1]["number_mca_channels"] = Length(k', 1)
    <3>1. CASE o.ok BY <1>2, <3>1
    <3>2. CASE ~o.ok
      <4>1. moved' = moved /\ o.m.par = k.par /\ o.m.val = k.val BY <1>2, <1>5, <3>2 DEF NoneSet
      <4>2. Length(k', 1) = Length(k, 1) BY <1>7, <4>1 DEF Length
      <4>3. QED BY <1>3, <1>7, <4>1, <4>2 DEF Traced
    <3>3. QED BY <3>1, <3>2
  <2>2. "start" \notin moved' => k'.val[1]["mca_start_address"] = k'.par[1]["SPECTSTART"]
    BY <1>2, <1>3, <1>5, <1>7 DEF Traced, SetsLimit
  <2>3. QED BY <2>1, <2>2 DEF Traced
<1>12. Kept' BY <1>2, <1>3, <1>7, <1>8, <1>10, <1>11 DEF Kept
<1>13. Answered' BY <1>2, <1>3, <1>8, QuietNames, QuietCall
<1>14. QED BY <1>7, <1>8, <1>12, <1>13

\* Another firmware of a Saturn.
LEMMA DownloadKeeps ==
  ASSUME Kept, DownloadFirmware
  PROVE  Kept' /\ Answered' /\ (last'.op = "dsp" \/ k'.error = k.error)
<1>1. PICK t \in {"dsp", "fippi", "unknown"}, f \in 0..1 :
        \E o \in SaturnDownloadFirmware(k, 1, t, f) :
          /\ Call(t, 1, o)
          /\ told' = [told EXCEPT ![1] = None]
          /\ moved' = IF o.m.par = k.par THEN moved
                      ELSE IF o.ok THEN {"length"} ELSE {"length", "start"}
          /\ UNCHANGED seen BY DEF DownloadFirmware
<1>2. PICK o \in SaturnDownloadFirmware(k, 1, t, f) :
          /\ Call(t, 1, o)
          /\ told' = Forgetting(told, 1)
          /\ moved' = IF o.m.par = k.par THEN moved
                      ELSE IF o.ok THEN {"length"} ELSE {"length", "start"}
          /\ seen' = seen BY <1>1 DEF Forgetting
<1>3. /\ k.product = "saturn" /\ Standing(k) /\ k.got = <<>>
      /\ Heard(k, told) /\ Traced(k, moved) /\ seen \in {None, k.snap} BY DEF Kept, DownloadFirmware
<1>4. k.n = 1 BY <1>3, StandingIs DEF Big
<1>5. Loads(k, o, t) BY <1>2, <1>3, DownloadOut
<1>6. k' = Emptying(o.m) /\ last'.op = t BY <1>2, CallIs
<1>7. /\ Standing(k') /\ k'.got = <<>> /\ k'.par = o.m.par /\ k'.val = o.m.val
      /\ k'.snap = o.m.snap /\ k'.n = o.m.n /\ k'.product = o.m.product /\ k'.error = o.m.error
  BY <1>5, <1>6, EmptiedStands DEF Loads
<1>8. /\ o.m.snap = k.snap /\ o.m.n = k.n /\ o.m.product = k.product /\ o.m.got = k.got
  BY <1>5 DEF Loads, Changed, Fields, Loading
<1>9. \A d \in 1..k.n : d # 1 => Length(k', d) = Length(k, d) BY <1>4
<1>10. Heard(k', told') BY <1>2, <1>3, <1>7, <1>8, <1>9, HeardLess
<1>11. Traced(k', moved')
  <2>1. "length" \notin moved' => k'.val[1]["number_mca_channels"] = Length(k', 1)
    <3>1. CASE o.m.par # k.par BY <1>2, <3>1
    <3>2. CASE o.m.par = k.par
      <4>1. Length(k', 1) = Length(k, 1) BY <1>7, <3>2 DEF Length
      <4>2. k'.val[1]["number_mca_channels"] = k.val[1]["number_mca_channels"]
        BY <1>5, <1>7 DEF Loads
      <4>3. QED BY <1>2, <1>3, <3>2, <4>1, <4>2 DEF Traced
    <3>3. QED BY <3>1, <3>2
  <2>2. "start" \notin moved' => k'.val[1]["mca_start_address"] = k'.par[1]["SPECTSTART"]
    <3>1. CASE o.m.par # k.par BY <1>2, <1>5, <1>7, <3>1 DEF Loads
    <3>2. CASE o.m.par = k.par BY <1>2, <1>3, <1>5, <1>7, <3>2 DEF Traced, Loads
    <3>3. QED BY <3>1, <3>2
  <2>3. QED BY <2>1, <2>2 DEF Traced
<1>12. Kept' BY <1>2, <1>3, <1>7, <1>8, <1>10, <1>11 DEF Kept
<1>13. Answered' BY <1>2, <1>3, <1>8, QuietNames, QuietCall
<1>14. t = "dsp" \/ k'.error = k.error BY <1>5, <1>7 DEF Loads
<1>15. QED BY <1>6, <1>12, <1>13, <1>14

\* The board is the same in what was told of it.
LEMMA HeardAlike ==
  ASSUME NEW b, NEW a, Heard(b, a), NEW l, l.n = b.n, l.product = b.product, l.par = b.par,
         l.val = b.val, l.known = b.known
  PROVE  Heard(l, a) /\ \A s : Traced(b, s) => Traced(l, s)
<1>1. \A c : HostLength(l, c) = HostLength(b, c) /\ Length(l, c) = Length(b, c)
  BY DEF HostLength, Length
<1>2. QED BY <1>1 DEF Heard, Traced

\* Taking a snapshot.
LEMMA SnapshotKeeps ==
  ASSUME Kept, Snapshot
  PROVE  Kept' /\ Answered' /\ k'.error = k.error
<1>1. PICK o \in UdxpSnapshot(k) : Call("snapshot", 1, o) BY DEF Snapshot
<1>2. told' = told /\ moved' = moved /\ seen' = None BY DEF Snapshot
<1>3. Standing(k) /\ k.got = <<>> /\ Heard(k, told) /\ Traced(k, moved) BY DEF Kept
<1>4. Rec(k) BY <1>3, StandingIs
<1>5. Changed(k, o.m, {"now", "budget", "snap"}) BY <1>1, <1>4, UdxpSnapshotOut
<1>6. /\ Rec(o.m) /\ o.m.product = k.product /\ o.m.n = k.n /\ o.m.par = k.par
      /\ o.m.val = k.val /\ o.m.error = k.error /\ o.m.mode = k.mode /\ o.m.laid = k.laid
      /\ o.m.scas = k.scas /\ o.m.known = k.known /\ o.m.got = k.got BY <1>5 DEF Changed, Fields
<1>7. Standing(o.m) BY <1>3, <1>6, AlsoStanding
<1>8. k' = Emptying(o.m) BY <1>1, CallIs
<1>9. /\ Standing(k') /\ k'.got = <<>> /\ k'.par = o.m.par /\ k'.val = o.m.val
      /\ k'.known = o.m.known /\ k'.n = o.m.n /\ k'.product = o.m.product /\ k'.error = o.m.error
  BY <1>7, <1>8, EmptiedStands
<1>10. Heard(k', told) /\ Traced(k', moved) BY <1>3, <1>6, <1>9, HeardAlike
<1>11. Kept' BY <1>2, <1>9, <1>10 DEF Kept
<1>12. Answered' BY <1>1, <1>3, <1>6, QuietNames, QuietCall
<1>13. QED BY <1>6, <1>9, <1>11, <1>12

\* The board is changed by itself, in what nobody was told.
LEMMA AloneKeeps ==
  ASSUME Kept, Rec(k'), \A f \in Fields \ {"running", "laid", "error"} : k'[f] = k[f],
         Flag(k'.error), k'.error = TRUE => k.product = "saturn",
         k.product \in Big => k'.laid \in [1..k.n -> 0..MaxBins],
         told' = told, seen' = seen, moved' = moved
  PROVE  Kept'
<1>1. Standing(k) /\ k.got = <<>> /\ Heard(k, told) /\ Traced(k, moved) /\ seen \in {None, k.snap}
  BY DEF Kept
<1>2. /\ k'.product = k.product /\ k'.n = k.n /\ k'.par = k.par /\ k'.val = k.val
      /\ k'.mode = k.mode /\ k'.scas = k.scas /\ k'.known = k.known /\ k'.got = k.got
      /\ k'.snap = k.snap BY DEF Fields
<1>3. BoardType(k') BY <1>1, <1>2 DEF Standing, BoardType, Flag
<1>4. Fits(k') BY <1>1, <1>2 DEF Standing, Fits
<1>5. Heard(k', told) /\ Traced(k', moved) BY <1>1, <1>2, HeardAlike
<1>6. QED BY <1>1, <1>2, <1>3, <1>4, <1>5 DEF Kept, Standing

\* A run starts with the lengths it finds: those the host goes by.
LEMMA NewRunKeeps ==
  ASSUME Kept, NewRun
  PROVE  Kept' /\ k'.error = k.error
<1> DEFINE w == [c \in Chans(k) |-> RunLength(k, c)]
           m == [k EXCEPT !["running"] = TRUE]
           l == [m EXCEPT !["laid"] = w]
<1>1. k' = l /\ told' = told /\ seen' = seen /\ moved' = moved BY DEF NewRun
<1>2. Standing(k) /\ Rec(k) BY StandingIs DEF Kept
<1>3. {"running", "laid"} \subseteq Fields \ {"budget"} /\ "error" \in Fields \ {"running", "laid"}
  BY DEF Fields
<1>4. Rec(m) /\ \A g \in Fields \ {"running"} : m[g] = k[g]
  <2> DEFINE S == {"running"}
  <2>1. "running" \in S /\ "running" \in Fields \ {"budget"} BY <1>3
  <2> HIDE DEF S
  <2>2. QED BY <1>2, <2>1, PutField
<1> HIDE DEF m, w
<1>5. Rec(l) /\ l["laid"] = w /\ \A g \in Fields \ {"laid"} : l[g] = m[g]
  <2> DEFINE S == {"laid"}
  <2>1. "laid" \in S /\ "laid" \in Fields \ {"budget"} BY <1>3
  <2> HIDE DEF S
  <2>2. QED BY <1>4, <2>1, PutField
<1> HIDE DEF l
<1>6. \A g \in Fields \ {"running", "laid"} : l[g] = k[g] BY <1>4, <1>5
<1>7. k.product \in Big => w \in [1..k.n -> 0..MaxBins]
  <2>1. SUFFICES ASSUME k.product \in Big PROVE w \in [1..k.n -> 0..MaxBins] OBVIOUS
  <2>2. k.val \in [1..k.n -> ValType] BY <1>2, StandingIs
  <2>3. ASSUME NEW c \in 1..k.n PROVE RunLength(k, c) \in 0..MaxBins
    <3>1. /\ k.par[c]["MCALIMLO"] = 0 /\ k.par[c]["MCALIMHI"] = k.val[c]["number_mca_channels"]
          /\ k.par[c]["MCALIMHI"] <= MaxBins BY <1>2, <2>1 DEF Standing, Fits
    <3>2. k.val[c]["number_mca_channels"] \in Nat BY <2>2 DEF ValType
    <3>3. MaxBins \in Nat BY SizesAssumption
    <3>4. RunLength(k, c) = k.par[c]["MCALIMHI"] - k.par[c]["MCALIMLO"]
      BY <2>1 DEF RunLength, Length, Big
    <3>5. QED BY <3>1, <3>2, <3>3, <3>4
  <2>4. QED BY <2>3 DEF w, Chans
<1>8. Flag(k.error) /\ (k.error = TRUE => k.product = "saturn")
  BY <1>2 DEF Standing, BoardType, Flag
<1>9. k'["error"] = k["error"] /\ k'["laid"] = w /\ Rec(k')
      /\ \A g \in Fields \ {"running", "laid", "error"} : k'[g] = k[g] BY <1>1, <1>3, <1>5, <1>6
<1>10. k'.error = k.error /\ k'.laid = w BY <1>9
<1>11. QED BY <1>1, <1>7, <1>8, <1>9, <1>10, AloneKeeps

\* Ending a run.
LEMMA RunEndsKeeps ==
  ASSUME Kept, RunEnds
  PROVE  Kept' /\ k'.error = k.error
<1> DEFINE l == [k EXCEPT !["running"] = FALSE]
           S == {"running"}
<1>1. k' = l /\ told' = told /\ seen' = seen /\ moved' = moved BY DEF RunEnds
<1>2. Standing(k) /\ Rec(k) BY StandingIs DEF Kept
<1>3. "running" \in S /\ "running" \in Fields \ {"budget"} BY DEF Fields
<1> HIDE DEF S
<1>4. Rec(l) /\ \A g \in Fields \ {"running"} : l[g] = k[g] BY <1>2, <1>3, PutField
<1> HIDE DEF l
<1>5. Flag(k.error) /\ (k.error = TRUE => k.product = "saturn")
      /\ (k.product \in Big => k.laid \in [1..k.n -> 0..MaxBins])
  BY <1>2 DEF Standing, BoardType, Flag, Fits
<1>6. k'.error = k.error /\ k'.laid = k.laid BY <1>1, <1>4 DEF Fields
<1>7. Rec(k') /\ \A g \in Fields \ {"running", "laid", "error"} : k'[g] = k[g] BY <1>1, <1>4
<1>8. QED BY <1>1, <1>5, <1>6, <1>7, AloneKeeps

\* A run that fails.
LEMMA RunFailsKeeps ==
  ASSUME Kept, RunFails
  PROVE  Kept' /\ k'.error = TRUE
<1> DEFINE m == [k EXCEPT !["error"] = TRUE]
           l == [m EXCEPT !["running"] = FALSE]
           S == {"error"}
           T == {"running"}
<1>1. k' = l /\ told' = told /\ seen' = seen /\ moved' = moved /\ k.product = "saturn"
  BY DEF RunFails
<1>2. Standing(k) /\ Rec(k) BY StandingIs DEF Kept
<1>3. /\ "error" \in S /\ "error" \in Fields \ {"budget"}
      /\ "running" \in T /\ "running" \in Fields \ {"budget"}
      /\ "error" \in Fields \ {"running"} BY DEF Fields
<1> HIDE DEF S, T
<1>4. Rec(m) /\ m["error"] = TRUE /\ \A g \in Fields \ {"error"} : m[g] = k[g]
  BY <1>2, <1>3, PutField
<1> HIDE DEF m
<1>5. Rec(l) /\ \A g \in Fields \ {"running"} : l[g] = m[g] BY <1>3, <1>4, PutField
<1> HIDE DEF l
<1>6. k.product \notin Big BY <1>1 DEF Big
<1>7. k'["error"] = TRUE BY <1>1, <1>3, <1>4, <1>5
<1>8. k'.error = TRUE BY <1>7
<1>9. Flag(k'.error) BY <1>8 DEF Flag
<1>10. Rec(k') /\ \A g \in Fields \ {"running", "laid", "error"} : k'[g] = k[g] BY <1>1, <1>4, <1>5
<1>11. QED BY <1>1, <1>6, <1>8, <1>9, <1>10, AloneKeeps

\* The answer that is there before a call is none.
LEMMA NothingGot == ASSUME Kept PROVE [k EXCEPT !.got = <<>>] = k
<1>1. Rec(k) /\ k.got = <<>> BY StandingIs DEF Kept
<1>2. QED BY <1>1 DEF Rec, Fields

\* Each call for data of a run asks the board.
LEMMA GetRunDataAsks ==
  ASSUME Kept, GetRunData
  PROVE  \E c, n, o : DataAsked(c, n, o)
<1>1. PICK c \in Chans(k), n \in Names(k) : \E o \in GetData([k EXCEPT !.got = <<>>], c, n) :
        /\ Call(n, c, o)
        /\ told' = Hearing(told, c, n, o)
        /\ seen' = seen /\ moved' = moved BY DEF GetRunData, Hearing
<1>2. PICK o \in GetData(k, c, n) :
        /\ Call(n, c, o)
        /\ told' = Hearing(told, c, n, o)
        /\ seen' = seen /\ moved' = moved BY <1>1, NothingGot
<1>3. c \in 1..k.n /\ Standing(k) BY DEF Chans, Kept
<1>4. Serves(k, c, n, o) BY <1>2, <1>3, DataServes
<1>5. Seeing(seen, n, o) = seen BY NoShot DEF Seeing
<1>6. QED BY <1>2, <1>3, <1>4, <1>5 DEF DataAsked

\* The call for the parameters does.
LEMMA GetParamDataAsks ==
  ASSUME Kept, GetParamData
  PROVE  \E c, n, o : DataAsked(c, n, o)
<1>1. PICK c \in Chans(k) : \E o \in GetParamValues([k EXCEPT !.got = <<>>], c) :
        Call("values", c, o) BY DEF GetParamData
<1>2. PICK o \in GetParamValues(k, c) : Call("values", c, o) BY <1>1, NothingGot
<1>3. c \in 1..k.n /\ Standing(k) BY DEF Chans, Kept
<1>4. Serves(k, c, "values", o) BY <1>2, <1>3, ValuesServe
<1>5. Seeing(seen, "values", o) = seen /\ Hearing(told, c, "values", o) = told
  BY DEF Seeing, Hearing, SnapshotNames
<1>6. told' = told /\ seen' = seen /\ moved' = moved BY DEF GetParamData
<1>7. QED BY <1>2, <1>3, <1>4, <1>5, <1>6 DEF DataAsked

\* The special calls of the microDXP do.
LEMMA GetSpecialAsks ==
  ASSUME Kept, GetSpecialRunData
  PROVE  \E c, n, o : DataAsked(c, n, o)
<1>1. PICK c \in Chans(k), n \in SpecialNames :
        \E o \in UdxpGetSpecialRunData([k EXCEPT !.got = <<>>], c, n) :
          /\ Call(n, c, o)
          /\ seen' = Seeing(seen, n, o)
          /\ told' = told /\ moved' = moved BY DEF GetSpecialRunData, Seeing
<1>2. PICK o \in UdxpGetSpecialRunData(k, c, n) :
          /\ Call(n, c, o)
          /\ seen' = Seeing(seen, n, o)
          /\ told' = told /\ moved' = moved BY <1>1, NothingGot
<1>3. c \in 1..k.n /\ Standing(k) /\ k.product = "udxp" BY DEF Chans, Kept, GetSpecialRunData
<1>4. Serves(k, c, n, o) BY <1>2, <1>3, SpecialServes
<1>5. Hearing(told, c, n, o) = told BY DEF Hearing, SpecialNames, SnapshotNames
<1>6. QED BY <1>2, <1>3, <1>4, <1>5 DEF DataAsked

\* A call for data keeps the invariant, and an error it clears is reported.
LEMMA AskedKeeps ==
  ASSUME Kept, NEW c, NEW n, NEW o, DataAsked(c, n, o)
  PROVE  /\ Kept' /\ Answered'
         /\ k.error /\ ~k'.error => last'.op \in {"baseline", "values"} /\ ~last'.ok
<1>1. /\ c \in 1..k.n /\ Serves(k, c, n, o) /\ Call(n, c, o) /\ moved' = moved
      /\ told' = Hearing(told, c, n, o) /\ seen' = Seeing(seen, n, o) BY DEF DataAsked
<1>2. Kept' BY <1>1, ServedKeeps
<1>3. OneInstant' /\ OwnData' /\ DataFitsLength' /\ SnapshotsAgree'
  BY <1>1, ServedOnce, ServedOwn, ServedFits, ServedSnap
<1>4. k.error /\ ~k'.error => last'.op \in {"baseline", "values"} /\ ~last'.ok
  BY <1>1, ServedReports
<1>5. QED BY <1>2, <1>3, <1>4 DEF Answered

-----------------------------------------------------------------------------
(* A board after its setup. *)

\* What a variant is.
LEMMA VariantIs ==
  ASSUME NEW v \in Variants
  PROVE  /\ DOMAIN v = Built
         /\ v.product \in Big \cup {"saturn", "udxp"}
         /\ v.n = IF v.product \in Big THEN ModuleChannels ELSE 1
         /\ v.product \in Big => v.mode \in Modes[v.product]
<1>1. DOMAIN Plain = Built /\ Plain.n = 1 /\ Plain.product = "saturn" BY DEF Plain, Built
<1>2. ASSUME NEW p \in Big, NEW d \in Modes[p], v = ModuleVariant(p, d)
      PROVE  DOMAIN v = Built /\ v.product = p /\ v.n = ModuleChannels /\ v.mode = d
  BY <1>1, <1>2 DEF Built, ModuleVariant
<1>3. ASSUME NEW s, v = SaturnVariant(s)
      PROVE  DOMAIN v = Built /\ v.product = "saturn" /\ v.n = 1
  BY <1>1, <1>3 DEF Built, SaturnVariant
<1>4. ASSUME NEW s, NEW u, v = UdxpVariant(s, u)
      PROVE  DOMAIN v = Built /\ v.product = "udxp" /\ v.n = 1
  <2> DEFINE f == IF s THEN FullFeatures ELSE {"sca"}
             a == s /\ u
  <2>1. v = [Plain EXCEPT !.product = "udxp", !.super = s, !.vega = a, !.usb = u, !.features = f]
    BY <1>4 DEF UdxpVariant
  <2> HIDE DEF f, a
  <2>2. QED BY <1>1, <2>1 DEF Built
<1>5. "saturn" \notin Big /\ "udxp" \notin Big BY DEF Big
<1>6. \/ \E p \in Big : \E d \in Modes[p] : v = ModuleVariant(p, d)
      \/ \E s : v = SaturnVariant(s)
      \/ \E s, u : v = UdxpVariant(s, u)
  <2> DEFINE M(p) == {ModuleVariant(p, d) : d \in Modes[p]}
             X == UNION {M(p) : p \in Big}
             Y == {SaturnVariant(s) : s \in {0, 40}}
             Z == {UdxpVariant(s, u) : s \in BOOLEAN, u \in BOOLEAN}
  <2>a. Variants = (X \cup Y) \cup Z BY DEF Variants
  <2>b. ASSUME NEW P, NEW Q, NEW R, Variants = (P \cup Q) \cup R
        PROVE  v \in P \/ v \in Q \/ v \in R
    BY <2>b
  <2>1. v \in X \/ v \in Y \/ v \in Z
    <3> HIDE DEF X, Y, Z
    <3>1. QED BY <2>a, <2>b
  <2>2. ASSUME v \in X PROVE \E p \in Big : \E d \in Modes[p] : v = ModuleVariant(p, d) BY <2>2
  <2>3. ASSUME v \in Y PROVE \E s : v = SaturnVariant(s) BY <2>3
  <2>4. ASSUME v \in Z PROVE \E s, u : v = UdxpVariant(s, u) BY <2>4
  <2>5. QED BY <2>1, <2>2, <2>3, <2>4
<1>7. CASE \E p \in Big : \E d \in Modes[p] : v = ModuleVariant(p, d) BY <1>2, <1>7
<1>8. CASE \E s : v = SaturnVariant(s) BY <1>3, <1>5, <1>8
<1>9. CASE \E s, u : v = UdxpVariant(s, u) BY <1>4, <1>5, <1>9
<1>10. QED BY <1>6, <1>7, <1>8, <1>9

\* What a board is built from.
LEMMA BoardIs ==
  ASSUME NEW v, DOMAIN v = Built, NEW len
  PROVE  SetUp(Board(v, len), v, len)
<1>1. DOMAIN Board(v, len) = Fields BY DEF Board, Fields, Built
<1>2. Board(v, len) = [f \in Fields |-> Board(v, len)[f]] BY <1>1 DEF Board, Fields
<1>3. \A f \in Built : Board(v, len)[f] = v[f] BY DEF Board, Built
<1>4. LET b == Board(v, len) IN
      /\ b.error = FALSE /\ b.got = <<>> /\ b.budget = MaxFaults BY DEF Board
<1>5. LET b == Board(v, len) IN
      /\ b.laid = [c \in 1..v.n |-> len]
      /\ b.par = [c \in 1..v.n |-> Parameters(v.product, len)]
      /\ b.val = [c \in 1..v.n |-> Defaults(v.product, c, len)] BY DEF Board
<1>6. LET b == Board(v, len) IN
         b.scas = [c \in 1..(IF v.product = "stj" THEN StjCounted ELSE v.n) |->
                        IF c <= v.n THEN c - 1 ELSE 0] BY DEF Board
<1>7. QED BY <1>2, <1>3, <1>4, <1>5, <1>6 DEF SetUp

\* What the parameters and the defaults are then.
LEMMA SetupIs ==
  ASSUME NEW p \in Big \cup {"saturn", "udxp"}, NEW c \in Nat \ {0}, NEW len \in Nat
  PROVE  /\ Parameters(p, len) \in ParType(p) /\ Defaults(p, c, len) \in ValType
         /\ p # "udxp" => /\ Parameters(p, len)["MCALIMLO"] = 0
                          /\ Parameters(p, len)["MCALIMHI"] = len
                          /\ Parameters(p, len)["SPECTSTART"] = 0
                          /\ Defaults(p, c, len)["number_mca_channels"] = len
         /\ Defaults(p, c, len)["mca_start_address"] = 0
         /\ p \in Big => Defaults(p, c, len)["number_of_scas"] = c - 1
<1>1. p \in {"xmap", "mercury", "stj", "saturn", "udxp"} /\ c - 1 \in Nat BY DEF Big
<1>2. Parameters(p, len) \in ParType(p) BY <1>1 DEF Parameters, ParType
<1>3. Defaults(p, c, len)["number_of_scas"] \in Nat /\ (p \in Big => Defaults(p, c, len)["number_of_scas"] = c - 1)
  BY <1>1 DEF Defaults, Big
<1>4. /\ Defaults(p, c, len)["mca_start_address"] = 0
      /\ Defaults(p, c, len)["number_mca_channels"] = IF p = "udxp" THEN 0 ELSE len BY DEF Defaults
<1>5. Defaults(p, c, len) \in ValType BY <1>3, <1>4 DEF Defaults, ValType
<1>6. p # "udxp" => /\ Parameters(p, len)["MCALIMLO"] = 0
                    /\ Parameters(p, len)["MCALIMHI"] = len
                    /\ Parameters(p, len)["SPECTSTART"] = 0 BY DEF Parameters
<1>7. QED BY <1>2, <1>3, <1>4, <1>5, <1>6

\* The invariant holds at first.
LEMMA InitKept == Init => Kept /\ last = NoAnswer
<1>1. SUFFICES ASSUME Init PROVE Kept /\ last = NoAnswer OBVIOUS
<1>2. PICK v \in Variants : k = Board(v, 2 * Block) BY <1>1 DEF Init
<1> DEFINE len == 2 * Block
<1>a. k = Board(v, len) BY <1>2
<1>3. last = NoAnswer /\ told = [c \in 1..k.n |-> None] /\ seen = None /\ moved = {}
  BY <1>1 DEF Init, Chans
<1>4. /\ DOMAIN v = Built /\ v.product \in Big \cup {"saturn", "udxp"}
      /\ v.n = (IF v.product \in Big THEN ModuleChannels ELSE 1)
      /\ v.product \in Big => v.mode \in Modes[v.product] BY VariantIs
<1>5. len \in Nat /\ len <= MaxBins /\ MaxBins \in Nat /\ ModuleChannels \in Nat \ {0} /\ MaxFaults \in Nat
  BY SizesAssumption, LayoutAssumption
<1> HIDE DEF len
<1>6. /\ k = [f \in Fields |-> k[f]] /\ \A f \in Built : k[f] = v[f]
      /\ k.error = FALSE /\ k.got = <<>> /\ k.budget = MaxFaults
      /\ k.laid = [c \in 1..v.n |-> len]
      /\ k.scas = [c \in 1..(IF v.product = "stj" THEN StjCounted ELSE v.n) |->
                     IF c <= v.n THEN c - 1 ELSE 0]
      /\ k.par = [c \in 1..v.n |-> Parameters(v.product, len)]
      /\ k.val = [c \in 1..v.n |-> Defaults(v.product, c, len)]
  <2>1. DOMAIN v = Built BY <1>4
  <2>2. SetUp(k, v, len) BY <1>a, <2>1, BoardIs
  <2>3. QED BY <2>2 DEF SetUp
<1>7. k.product = v.product /\ k.n = v.n /\ k.mode = v.mode BY <1>6 DEF Built
<1>8. v.n \in Nat \ {0} /\ (v.product \notin Big => v.n = 1) BY <1>4, <1>5
<1>9. ASSUME NEW c \in 1..v.n
      PROVE  /\ Parameters(v.product, len) \in ParType(v.product)
             /\ Defaults(v.product, c, len) \in ValType
             /\ k.par[c] = Parameters(v.product, len) /\ k.val[c] = Defaults(v.product, c, len)
             /\ v.product # "udxp" =>
                  /\ k.par[c]["MCALIMLO"] = 0 /\ k.par[c]["MCALIMHI"] = len
                  /\ k.par[c]["SPECTSTART"] = 0 /\ k.val[c]["number_mca_channels"] = len
             /\ k.val[c]["mca_start_address"] = 0
             /\ v.product \in Big => k.val[c]["number_of_scas"] = c - 1
  <2>1. c \in Nat \ {0} BY <1>8
  <2>2. k.par[c] = Parameters(v.product, len) /\ k.val[c] = Defaults(v.product, c, len) BY <1>6
  <2>3. QED BY <1>4, <1>5, <2>1, <2>2, SetupIs
<1>10. BoardType(k)
  <2>1. Rec(k) BY <1>5, <1>6 DEF Rec
  <2>2. k.par \in [1..k.n -> ParType(k.product)] /\ k.val \in [1..k.n -> ValType]
    <3> DEFINE N == v.n
               T == ParType(v.product)
               p == k.par
               d == k.val
    <3>1. DOMAIN p = 1..N /\ DOMAIN d = 1..N /\ p = [c \in 1..N |-> p[c]] /\ d = [c \in 1..N |-> d[c]]
      BY <1>6
    <3>2. \A c \in 1..N : p[c] \in T /\ d[c] \in ValType BY <1>9
    <3> HIDE DEF N, T, p, d
    <3>3. p \in [1..N -> T] /\ d \in [1..N -> ValType] BY <3>1, <3>2
    <3>4. QED BY <1>7, <3>3 DEF N, T, p, d
  <2>3. QED BY <1>4, <1>6, <1>7, <2>1, <2>2 DEF BoardType
<1>11. Fits(k)
  <2>1. SUFFICES ASSUME v.product \in Big PROVE Fits(k) BY <1>7 DEF Fits
  <2>2. v.product # "udxp" BY <2>1 DEF Big
  <2>3. k.laid \in [1..k.n -> 0..MaxBins] BY <1>5, <1>6, <1>7
  <2>4. ASSUME NEW c \in 1..k.n, k.product # "stj" PROVE k.scas[c] = c - 1 BY <1>6, <1>7, <1>8, <2>4
  <2>5. ASSUME NEW c \in 1..k.n
        PROVE  /\ k.par[c]["MCALIMLO"] = 0
               /\ k.par[c]["MCALIMHI"] = k.val[c]["number_mca_channels"]
               /\ k.par[c]["MCALIMHI"] <= MaxBins
               /\ k.val[c]["number_of_scas"] = c - 1 BY <1>5, <1>7, <1>9, <2>1, <2>2
  <2>6. QED BY <1>4, <1>7, <2>1, <2>3, <2>4, <2>5 DEF Fits
<1>12. Heard(k, told) BY <1>3 DEF Heard
<1>13. Traced(k, moved)
  <2>1. SUFFICES ASSUME k.product = "saturn" PROVE Traced(k, moved) BY DEF Traced
  <2>2. 1 \in 1..v.n BY <1>8
  <2>3. /\ k.par[1]["MCALIMLO"] = 0 /\ k.par[1]["MCALIMHI"] = len
        /\ k.par[1]["SPECTSTART"] = 0 /\ k.val[1]["number_mca_channels"] = len
        /\ k.val[1]["mca_start_address"] = 0 BY <1>7, <1>9, <2>1, <2>2
  <2>4. Length(k, 1) = len - 0 BY <2>3 DEF Length
  <2>5. Length(k, 1) = len BY <1>5, <2>4
  <2>6. QED BY <2>3, <2>5 DEF Traced
<1>14. QED BY <1>3, <1>6, <1>10, <1>11, <1>12, <1>13 DEF Kept, Standing

-----------------------------------------------------------------------------
(* Theorems. *)

\* Every step keeps it, and answers right.
LEMMA NextKeeps ==
  ASSUME Kept, Answered, [Next]_vars
  PROVE  Kept' /\ Answered' /\ [Reports]_vars
<1>1. CASE GetRunData BY <1>1, GetRunDataAsks, AskedKeeps DEF Reports
<1>2. CASE GetParamData BY <1>2, GetParamDataAsks, AskedKeeps DEF Reports
<1>3. CASE GetSpecialRunData BY <1>3, GetSpecialAsks, AskedKeeps DEF Reports
<1>4. CASE Snapshot BY <1>4, SnapshotKeeps DEF Reports
<1>5. CASE SetLength BY <1>5, SetLengthKeeps DEF Reports
<1>6. CASE SetLowLimit BY <1>6, SetLowKeeps DEF Reports
<1>7. CASE DownloadFirmware BY <1>7, DownloadKeeps DEF Reports
<1>8. CASE Taken
  <2>1. last' = NoAnswer /\ k' = k /\ told' = told /\ seen' = seen /\ moved' = moved
    BY <1>8 DEF Taken
  <2>2. Kept' BY <2>1 DEF Kept
  <2>3. QED BY <2>1, <2>2, IdleAnswered DEF Reports
<1>9. CASE NewRun
  <2>1. last' = NoAnswer BY <1>9 DEF NewRun, Idle
  <2>2. QED BY <1>9, <2>1, NewRunKeeps, IdleAnswered DEF Reports
<1>10. CASE RunEnds
  <2>1. last' = NoAnswer BY <1>10 DEF RunEnds, Idle
  <2>2. QED BY <1>10, <2>1, RunEndsKeeps, IdleAnswered DEF Reports
<1>11. CASE RunFails
  <2>1. last' = NoAnswer BY <1>11 DEF RunFails, Idle
  <2>2. QED BY <1>11, <2>1, RunFailsKeeps, IdleAnswered DEF Reports
<1>12. CASE UNCHANGED vars
  <2>1. last' = last /\ k' = k /\ told' = told /\ seen' = seen /\ moved' = moved BY <1>12 DEF vars
  <2>2. Kept' BY <2>1 DEF Kept
  <2>3. OneInstant' /\ OwnData' /\ DataFitsLength' /\ SnapshotsAgree'
    BY <2>1 DEF Answered, OneInstant, OwnData, DataFitsLength, SnapshotsAgree, Even
  <2>4. QED BY <1>12, <2>2, <2>3 DEF Answered
<1>13. QED BY <1>1, <1>2, <1>3, <1>4, <1>5, <1>6, <1>7, <1>8, <1>9, <1>10, <1>11, <1>12 DEF Next

\* So do the properties.
LEMMA InitAnswered == Init => Answered
<1>1. SUFFICES ASSUME Init PROVE Answered OBVIOUS
<1>2. last.op = "none" /\ last.got = <<>> BY <1>1 DEF Init, NoAnswer
<1>3. "none" \notin Promising /\ "none" \notin SnapshotNames
  BY DEF Promising, Counters, GatedNames, SnapshotNames
<1>4. OneInstant BY <1>2, NoData DEF OneInstant
<1>5. OwnData BY <1>2, <1>3 DEF OwnData
<1>6. DataFitsLength BY <1>2 DEF DataFitsLength
<1>7. SnapshotsAgree BY <1>2, <1>3 DEF SnapshotsAgree
<1>8. QED BY <1>4, <1>5, <1>6, <1>7 DEF Answered

\* Between the calls a board stands: its lengths fit its memory, the defaults
\* of a module are its parameters, and what the application was told of a
\* length or has seen of a snapshot is true of it.
THEOREM BoardIsKept == Spec => [](Kept /\ Answered)
<1>1. Init => Kept /\ Answered BY InitKept, InitAnswered
<1>2. Kept /\ Answered /\ [Next]_vars => (Kept /\ Answered)' BY NextKeeps
<1>3. QED BY <1>1, <1>2, PTL DEF Spec

\* No rate divides the events of one moment by the time of another: whatever
\* is asked, but what is read word by word, is of one instant.
THEOREM DataOfOneInstant == Spec => []OneInstant
<1>1. Kept /\ Answered => OneInstant BY DEF Answered
<1>2. QED BY <1>1, BoardIsKept, PTL

\* Each number is made of the counters and bins of its name and its channel.
THEOREM DataIsItsOwn == Spec => []OwnData
<1>1. Kept /\ Answered => OwnData BY DEF Answered
<1>2. QED BY <1>1, BoardIsKept, PTL

\* A spectrum is as long as mca_length said, a buffer as large as its pixels.
THEOREM DataHasItsLength == Spec => []DataFitsLength
<1>1. Kept /\ Answered => DataFitsLength BY DEF Answered
<1>2. QED BY <1>1, BoardIsKept, PTL

\* What is read after one snapshot is of the instant of that snapshot.
THEOREM SnapshotsAreOfOneInstant == Spec => []SnapshotsAgree
<1>1. Kept /\ Answered => SnapshotsAgree BY DEF Answered
<1>2. QED BY <1>1, BoardIsKept, PTL

\* The error of a run is cleared by the call that reports it, or with the DSP.
THEOREM ErrorsAreReported == Spec => ErrorIsReported
<1>1. Kept /\ Answered /\ [Next]_vars => [Reports]_vars BY NextKeeps
<1>2. QED BY <1>1, BoardIsKept, PTL DEF Spec, ErrorIsReported, Reports
=============================================================================
