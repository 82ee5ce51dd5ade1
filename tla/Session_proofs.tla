--------------------------- MODULE Session_proofs ---------------------------
(***************************************************************************)
(* No port is lost and none is closed twice in a system of one interface,  *)
(* and each board's slot holds its own device in a system of any, for      *)
(* every number of modules, devices and restarts.                          *)
(*                                                                         *)
(* The argument: the boards of a start lead to slots below the counter,    *)
(* each to an open port of its module's device, and each module has one    *)
(* board (BoardsInv, TableInv); so closing what the boards lead to, once   *)
(* each, never takes the counter below zero.  An application that exits    *)
(* before it starts again besides begins with empty tables, and while it   *)
(* closes them every open port has a detChan still to be visited           *)
(* (OrderlyInv).                                                           *)
(*                                                                         *)
(* With several interfaces a board may close another's port, and the       *)
(* counters may fall below zero; but a start counts its own slots from     *)
(* zero again, so that what it builds is sound until it is closed          *)
(* (BuiltInv).                                                             *)
(***************************************************************************)
EXTENDS Session, SequenceTheorems, FiniteSetTheorems, TLAPS

N == Cardinality(Modules)

\* The interface of the system.
J == CHOOSE i \in Ifaces : \A a \in Modules : wiring[a] = i

\* The slots of the table that hold an open port; those of a device; those a
\* board leads to.
Open(s) == ~PortClosed(J, s)
Held(d) == {s \in Slots : handle[J][s] = d /\ Open(s)}
Reached == {s \in Slots : Open(s) /\ \E k \in 1..Len(boards) : boards[k].ioChan = s}

Distinct(list) == \A k, l \in 1..Len(list) : list[k] = list[l] => k = l
In(a, list) == \E k \in 1..Len(list) : list[k] = a

\* The configuration.
ListsInv ==
    /\ Distinct(modules) /\ Distinct(detChans) /\ Distinct(pending)
    /\ \A a \in Modules : In(a, modules) => In(a, detChans)
    /\ orderly => \A a \in Modules : In(a, detChans) => In(a, modules)

BoardsInv ==
    /\ \A k \in 1..Len(boards) : boards[k].iface = J
    /\ \A k, l \in 1..Len(boards) : boards[k].mod = boards[l].mod => k = l
    /\ ifaces \subseteq {J}
    /\ phase = "building" =>
           /\ pending # <<>>
           /\ ifaces = {} => boards = <<>>
           /\ \A k \in 1..Len(boards) : ~In(boards[k].mod, pending)

\* The other interface.
Unused ==
    \A i \in Ifaces \ {J} :
        /\ count[i] = 0
        /\ \A s \in Slots : handle[i][s] = None /\ name[i][s] = None
        /\ \A d \in Devices : driver[i][d] = 0

\* Whatever the application does.
TableInv ==
    /\ \A s \in Slots : Open(s) => handle[J][s] \in Devices
    /\ \A d \in Devices : Cardinality(Held(d)) <= driver[J][d]
    /\ Cardinality(Reached) <= count[J]
    /\ phase = "building" =>
           /\ Initialized(J)[J] + Len(pending) <= N
           /\ J \in ifaces => \A s \in Slots : s < count[J] =>
                  name[J][s] = handle[J][s] /\ name[J][s] \in Devices
           /\ \A d \in Devices :
                  \/ driver[J][d] < MaxOpen
                  \/ J \in ifaces /\ \E s \in Slots : s < count[J] /\ name[J][s] = d
    /\ phase \in {"building", "up"} => \A k \in 1..Len(boards) :
           /\ boards[k].ioChan < count[J] /\ Open(boards[k].ioChan)
           /\ handle[J][boards[k].ioChan] = DeviceOf[boards[k].mod]

\* An application that exits before it starts again.
OrderlyInv ==
    orderly =>
    /\ \A s \in Slots : name[J][s] = IF Open(s) THEN handle[J][s] ELSE None
    /\ \A d \in Devices : Cardinality(Held(d)) = driver[J][d]
    /\ phase = "down" => \A s \in Slots : ~Open(s)
    /\ phase = "building" => \A s \in Slots : Open(s) => J \in ifaces /\ s < count[J]
    /\ phase \in {"building", "up"} =>
           /\ \A s \in Slots : Open(s) => \E k \in 1..Len(boards) : boards[k].ioChan = s
           /\ \A k \in 1..Len(boards) : In(boards[k].mod, modules)
    /\ phase = "closing" => \A s \in Slots : Open(s) =>
           \E k \in 1..Len(boards) : boards[k].ioChan = s /\ In(boards[k].mod, pending)
    /\ phase \in {"building", "closing"} =>
           \A k \in 1..Len(pending) : In(pending[k], modules)

Inv == ListsInv /\ BoardsInv /\ Unused /\ TableInv /\ OrderlyInv

-----------------------------------------------------------------------------
(* Lists. *)

\* The elements of a list.
LEMMA ToSetIn ==
  ASSUME NEW list \in Seq(Modules), NEW a
  PROVE  a \in ToSet(list) <=> In(a, list)
<1>1. DOMAIN list = 1..Len(list)
  OBVIOUS
<1>. QED  BY <1>1 DEF ToSet, In

\* An element is added at the end.
LEMMA Appended ==
  ASSUME NEW list \in Seq(Modules), NEW a \in Modules
  PROVE  /\ Append(list, a) \in Seq(Modules)
         /\ \A b : In(b, Append(list, a)) <=> In(b, list) \/ b = a
         /\ Distinct(list) /\ ~In(a, list) => Distinct(Append(list, a))
<1>. DEFINE new == Append(list, a)
<1>1. /\ new \in Seq(Modules) /\ Len(new) = Len(list) + 1 /\ new[Len(list) + 1] = a
      /\ \A k \in 1..Len(list) : new[k] = list[k]
  BY AppendProperties
<1>2. Len(list) \in Nat /\ 1..Len(new) = 1..Len(list) \cup {Len(list) + 1}
  BY <1>1
<1>. HIDE DEF new
<1>3. ASSUME NEW b PROVE In(b, new) <=> In(b, list) \/ b = a
  BY <1>1, <1>2 DEF In
<1>4. Distinct(list) /\ ~In(a, list) => Distinct(new)
  BY <1>1, <1>2 DEF In, Distinct
<1>. QED  BY <1>1, <1>3, <1>4 DEF new

\* An element is unlinked.
LEMMA UnlinkedIs ==
  ASSUME NEW list \in Seq(Modules), NEW a, In(a, list), Distinct(list)
  PROVE  /\ Unlinked(list, a) \in Seq(Modules) /\ Distinct(Unlinked(list, a))
         /\ \A b : In(b, Unlinked(list, a)) <=> In(b, list) /\ b # a
<1>. DEFINE k == CHOOSE n \in DOMAIN list : list[n] = a
            n == Len(list)
            new == Unlinked(list, a)
            s == SubSeq(list, 1, k - 1)
            t == SubSeq(list, k + 1, n)
<1>1. n \in Nat /\ DOMAIN list = 1..n
  OBVIOUS
<1>2. k \in 1..n /\ list[k] = a
  BY <1>1 DEF In
<1>3. new = s \o t
  BY DEF Unlinked, RemoveAt
<1>. HIDE DEF k, new
<1>4. /\ s \in Seq(Modules) /\ Len(s) = k - 1
      /\ \A m \in 1..(k - 1) : s[m] = list[m]
  BY <1>1, <1>2
<1>5. /\ t \in Seq(Modules) /\ Len(t) = n - k
      /\ \A m \in 1..(n - k) : t[m] = list[k + m]
  <2>1. /\ \A m \in (k + 1)..n : list[m] \in Modules
        /\ k + 1 \in Int /\ n \in Int
    BY <1>1, <1>2
  <2>2. /\ t \in Seq(Modules) /\ Len(t) = IF k + 1 <= n THEN n - (k + 1) + 1 ELSE 0
        /\ \A m \in 1..(n - (k + 1) + 1) : t[m] = list[(k + 1) + m - 1]
    BY <2>1, SubSeqProperties
  <2>0. n \in Int /\ k \in Int /\ k <= n
    BY <1>1, <1>2
  <2>. HIDE DEF n
  <2>3. n - (k + 1) + 1 = n - k /\ (~(k + 1 <= n) => n - k = 0)
        /\ \A m \in 1..(n - k) : (k + 1) + m - 1 = k + m
    BY <2>0
  <2>. HIDE DEF t
  <2>4. Len(t) = n - k
    BY <2>2, <2>3
  <2>5. ASSUME NEW m \in 1..(n - k) PROVE t[m] = list[k + m]
    <3>1. m \in 1..(n - (k + 1) + 1) /\ (k + 1) + m - 1 = k + m
      BY <2>3
    <3>2. t[m] = list[(k + 1) + m - 1]
      BY <2>2, <3>1
    <3>. QED  BY <3>1, <3>2
  <2>. QED  BY <2>2, <2>4, <2>5
<1>. HIDE DEF s, t
<1>6. /\ new \in Seq(Modules) /\ Len(new) = n - 1
      /\ \A m \in 1..(n - 1) : new[m] = IF m < k THEN list[m] ELSE list[m + 1]
  <2>1. /\ new \in Seq(Modules) /\ Len(new) = (k - 1) + (n - k)
        /\ \A m \in 1..((k - 1) + (n - k)) :
               new[m] = IF m <= k - 1 THEN s[m] ELSE t[m - (k - 1)]
    <3>1. /\ s \o t \in Seq(Modules) /\ Len(s \o t) = Len(s) + Len(t)
          /\ \A m \in 1..(Len(s) + Len(t)) :
                 (s \o t)[m] = IF m <= Len(s) THEN s[m] ELSE t[m - Len(s)]
      BY <1>4, <1>5, ConcatProperties
    <3>. QED  BY <1>3, <1>4, <1>5, <3>1
  <2>2. n \in Int /\ k \in Int /\ (k - 1) + (n - k) = n - 1
    BY <1>1, <1>2
  <2>3. ASSUME NEW m \in 1..(n - 1)
        PROVE  new[m] = IF m < k THEN list[m] ELSE list[m + 1]
    <3>1. CASE m < k
      BY <1>4, <2>1, <2>2, <3>1
    <3>2. CASE ~(m < k)
      <4>1. m - (k - 1) \in 1..(n - k) /\ k + (m - (k - 1)) = m + 1 /\ ~(m <= k - 1)
        BY <2>2, <3>2
      <4>. QED  BY <1>5, <2>1, <2>2, <3>2, <4>1
    <3>. QED  BY <3>1, <3>2
  <2>. QED  BY <2>1, <2>2, <2>3
<1>. HIDE DEF n
<1>7. Distinct(new)
  BY <1>1, <1>2, <1>6 DEF Distinct, n
<1>8. ASSUME NEW b PROVE In(b, new) <=> In(b, list) /\ b # a
  <2>1. ASSUME NEW m \in 1..Len(new), new[m] = b PROVE In(b, list) /\ b # a
    BY <1>1, <1>2, <1>6, <2>1 DEF Distinct, In, n
  <2>2. ASSUME NEW m \in 1..n, list[m] = b, b # a PROVE In(b, new)
    <3>1. CASE m < k
      <4>1. m \in 1..Len(new) /\ new[m] = b
        BY <1>1, <1>2, <1>6, <2>2, <3>1
      <4>. QED  BY <4>1 DEF In
    <3>2. CASE m > k
      <4>1. m - 1 \in 1..Len(new) /\ new[m - 1] = b
        BY <1>1, <1>2, <1>6, <2>2, <3>2
      <4>. QED  BY <4>1 DEF In
    <3>. QED  BY <1>1, <1>2, <2>2, <3>1, <3>2
  <2>. QED  BY <2>1, <2>2 DEF In, n
<1>. QED  BY <1>6, <1>7, <1>8 DEF new

\* The rest of a list.
LEMMA TailIs ==
  ASSUME NEW list \in Seq(Modules), list # <<>>
  PROVE  /\ Head(list) \in Modules /\ In(Head(list), list)
         /\ Tail(list) \in Seq(Modules) /\ Len(Tail(list)) = Len(list) - 1
         /\ \A b : In(b, Tail(list)) => In(b, list)
         /\ \A b : In(b, list) => In(b, Tail(list)) \/ b = Head(list)
         /\ Distinct(list) => Distinct(Tail(list)) /\ ~In(Head(list), Tail(list))
<1>. DEFINE rest == Tail(list)
<1>1. /\ Head(list) \in Modules /\ Head(list) = list[1]
      /\ rest \in Seq(Modules) /\ Len(rest) = Len(list) - 1
      /\ \A k \in 1..Len(rest) : rest[k] = list[k + 1]
  OBVIOUS
<1>2. Len(list) \in Nat /\ Len(list) > 0
  OBVIOUS
<1>. HIDE DEF rest
<1>3. In(Head(list), list)
  BY <1>1, <1>2 DEF In
<1>4. \A b : In(b, rest) => In(b, list)
  BY <1>1, <1>2 DEF In
<1>5. ASSUME NEW b, In(b, list) PROVE In(b, rest) \/ b = Head(list)
  <2>1. PICK k \in 1..Len(list) : list[k] = b
    BY <1>5 DEF In
  <2>2. k > 1 => k - 1 \in 1..Len(rest) /\ rest[k - 1] = b
    BY <1>1, <1>2, <2>1
  <2>. QED  BY <1>1, <1>2, <2>1, <2>2 DEF In
<1>6. Distinct(list) => Distinct(rest) /\ ~In(Head(list), rest)
  BY <1>1, <1>2, SMTT(30) DEF Distinct, In
<1>. QED  BY <1>1, <1>3, <1>4, <1>5, <1>6 DEF rest

\* There are no more elements than modules.
LEMMA ShortList ==
  ASSUME NEW list \in Seq(Modules), Distinct(list)
  PROVE  Len(list) <= N /\ N \in Nat
<1>1. list \in Injection(1..Len(list), Modules)
  BY DEF Injection, IsInjective, Distinct
<1>2. Len(list) \in Nat /\ Cardinality(1..Len(list)) = Len(list)
  <2>1. Len(list) \in Nat /\ 1 \in Int /\ Len(list) \in Int
    OBVIOUS
  <2>2. \A n \in Int : Cardinality(1..n) = IF 1 > n THEN 0 ELSE n - 1 + 1
    BY <2>1, FS_Interval
  <2>. DEFINE n == Len(list)
  <2>3. Cardinality(1..n) = IF 1 > n THEN 0 ELSE n - 1 + 1
    BY <2>1, <2>2
  <2>. QED  BY <2>1, <2>3
<1>3. Cardinality(1..Len(list)) <= Cardinality(Modules)
  BY <1>1, FS_Injection, ModulesAssumption
<1>. QED  BY <1>2, <1>3, ModulesAssumption, FS_CardinalityType DEF N

-----------------------------------------------------------------------------
(* Slots and interfaces. *)

\* The wirings of one interface.
Uniform == {w \in [Modules -> Ifaces] : \E i \in Ifaces : \A a \in Modules : w[a] = i}

\* The type invariant of a system of one interface, but for the Boolean variable.
TypeRest ==
    /\ wiring \in Uniform
    /\ modules \in Seq(Modules) /\ detChans \in Seq(Modules)
    /\ boards \in Seq(Board)
    /\ ifaces \subseteq Ifaces
    /\ count \in [Ifaces -> 0..N]
    /\ name \in [Ifaces -> [Slots -> Devices \cup {None}]]
    /\ handle \in [Ifaces -> [Slots -> Devices \cup {None}]]
    /\ driver \in [Ifaces -> [Devices -> 0..MaxOpen]]
    /\ phase \in {"down", "building", "up", "closing"}
    /\ pending \in Seq(Modules)

\* The slots are as many as the modules.
LEMMA SlotsAre ==
  /\ N \in Nat
  /\ \A s \in Slots : s \in Nat /\ s < N
  /\ \A s \in Nat : s < N => s \in Slots
<1>1. N \in Nat
  BY ModulesAssumption, FS_CardinalityType DEF N
<1>. QED  BY <1>1 DEF Slots, N

\* Sets of slots are finite.
LEMMA SlotSets ==
  ASSUME NEW T \in SUBSET Slots
  PROVE  IsFiniteSet(T) /\ Cardinality(T) \in Nat
<1>1. IsFiniteSet(Slots)
  <2>1. 0 \in Int /\ N - 1 \in Int
    BY SlotsAre
  <2>. QED  BY <2>1, FS_Interval DEF Slots, N
<1>2. IsFiniteSet(T)
  BY <1>1, FS_Subset
<1>. QED  BY <1>2, FS_CardinalityType

\* How the number of slots changes.
LEMMA Fewer ==
  ASSUME NEW T \in SUBSET Slots, NEW R \in SUBSET T
  PROVE  Cardinality(R) <= Cardinality(T)
  BY SlotSets, FS_Subset

\* A slot is added.
LEMMA OneMore ==
  ASSUME NEW T \in SUBSET Slots, NEW R \in SUBSET Slots, NEW s \in Slots, R \subseteq T \cup {s}
  PROVE  /\ Cardinality(R) <= Cardinality(T) + 1
         /\ s \notin T /\ R = T \cup {s} => Cardinality(R) = Cardinality(T) + 1
<1>1. Cardinality(T \cup {s}) = IF s \in T THEN Cardinality(T) ELSE Cardinality(T) + 1
  BY SlotSets, FS_AddElement
<1>2. Cardinality(R) <= Cardinality(T \cup {s})
  BY Fewer
<1>3. Cardinality(T) \in Nat /\ Cardinality(R) \in Nat
  BY SlotSets
<1>. QED  BY <1>1, <1>2, <1>3

\* A slot is taken away.
LEMMA OneLess ==
  ASSUME NEW T \in SUBSET Slots, NEW s \in T
  PROVE  Cardinality(T \ {s}) = Cardinality(T) - 1 /\ Cardinality(T) > 0
<1>1. Cardinality(T \ {s}) = Cardinality(T) - 1
  BY SlotSets, FS_RemoveElement
<1>2. Cardinality(T) \in Nat /\ Cardinality(T \ {s}) \in Nat
  BY SlotSets
<1>. QED  BY <1>1, <1>2

\* There are no more slots below n than n.
LEMMA Below ==
  ASSUME NEW T \in SUBSET Slots, NEW n \in Nat, \A s \in T : s < n
  PROVE  Cardinality(T) <= n
<1>1. T \in SUBSET (0..(n - 1))
  BY SlotsAre
<1>2. IsFiniteSet(0..(n - 1)) /\ Cardinality(0..(n - 1)) = n
  <2>1. 0 \in Int /\ n - 1 \in Int
    OBVIOUS
  <2>2. Cardinality(0..(n - 1)) = IF 0 > n - 1 THEN 0 ELSE n - 1 - 0 + 1
    BY <2>1, FS_Interval
  <2>. QED  BY <2>1, <2>2, FS_Interval
<1>3. Cardinality(T) <= Cardinality(0..(n - 1))
  BY <1>1, <1>2, FS_Subset
<1>. QED  BY <1>2, <1>3

\* The interface of the modules.
LEMMA JIs ==
  ASSUME TypeRest
  PROVE  J \in Ifaces /\ \A a \in Modules : wiring[a] = J
<1>1. \E i \in Ifaces : \A a \in Modules : wiring[a] = i
  BY DEF TypeRest, Uniform
<1>. QED  BY <1>1 DEF J

\* The interface never changes.
LEMMA JKept == UNCHANGED wiring => J' = J
  BY DEF J

\* The types of what belongs to the interface.
LEMMA TableTypes ==
  ASSUME TypeRest
  PROVE  /\ count[J] \in 0..N /\ count[J] \in Nat
         /\ \A s \in Slots : name[J][s] \in Devices \cup {None}
                             /\ handle[J][s] \in Devices \cup {None}
         /\ \A d \in Devices : driver[J][d] \in 0..MaxOpen /\ driver[J][d] \in Nat
         /\ \A k \in 1..Len(boards) : boards[k] \in Board
         /\ Len(boards) \in Nat
<1>1. J \in Ifaces
  BY JIs
<1>2. MaxOpen \in Nat
  BY DeviceAssumption
<1>3. count[J] \in 0..N /\ name[J] \in [Slots -> Devices \cup {None}]
      /\ handle[J] \in [Slots -> Devices \cup {None}] /\ driver[J] \in [Devices -> 0..MaxOpen]
  BY <1>1 DEF TypeRest
<1>4. boards \in Seq(Board)
  BY DEF TypeRest
<1>5. count[J] \in Nat
  BY <1>3, SlotsAre
<1>. QED  BY <1>2, <1>3, <1>4, <1>5

\* Ports that are left alone.
LEMMA PortsKept ==
  ASSUME UNCHANGED <<ports, wiring>>
  PROVE  /\ J' = J
         /\ \A s : Open(s)' <=> Open(s)
         /\ \A d \in Devices : Held(d)' = Held(d)
         /\ UNCHANGED boards => Reached' = Reached
<1>1. J' = J /\ UNCHANGED <<count, name, handle, driver>>
  BY JKept DEF ports
<1>2. \A s : Open(s)' <=> Open(s)
  BY <1>1 DEF Open, PortClosed
<1>. QED  BY <1>1, <1>2 DEF Held, Reached

-----------------------------------------------------------------------------
(* The configuration and the beginning of a start or of an exit. *)

\* The initial state has the types.
LEMMA InitTypes == Init /\ OneInterface => TypeRest
<1>. SUFFICES ASSUME Init, OneInterface PROVE TypeRest
  OBVIOUS
<1>1. 0 \in 0..N /\ 0 \in 0..MaxOpen
  BY SlotsAre, DeviceAssumption
<1>2. wiring \in Uniform
  BY WiringAssumption DEF Init, OneInterface, Uniform
<1>. QED  BY <1>1, <1>2 DEF Init, TypeRest

\* Nothing is open at first.
LEMMA InitInv ==
  ASSUME Init, OneInterface
  PROVE  Inv
<1>. USE DEF Init
<1>0. TypeRest
  BY InitTypes
<1>1. J \in Ifaces
  BY <1>0, JIs
<1>2. \A s \in Slots : ~Open(s)
  BY <1>1 DEF Open, PortClosed
<1>3. Reached = {} /\ \A d \in Devices : Held(d) = {}
  BY <1>2 DEF Reached, Held
<1>4. Cardinality(Reached) = 0 /\ \A d \in Devices : Cardinality(Held(d)) = 0
  BY <1>3, FS_EmptySet
<1>5. ListsInv /\ BoardsInv
  BY DEF ListsInv, BoardsInv, Distinct, In
<1>6. Unused
  BY DEF Unused
<1>7. TableInv
  BY <1>1, <1>2, <1>4 DEF TableInv
<1>8. OrderlyInv
  BY <1>1, <1>2, <1>4 DEF OrderlyInv
<1>. QED  BY <1>5, <1>6, <1>7, <1>8 DEF Inv

\* The lists of modules and detChans change, and nothing else.
LEMMA ListsChange ==
  ASSUME TypeRest, Inv, modules' \in Seq(Modules), detChans' \in Seq(Modules), ListsInv',
         UNCHANGED <<orderly, wiring, boards, ifaces, ports, phase, pending>>,
         orderly /\ phase # "down" => \A a : In(a, modules) => In(a, modules')
  PROVE  TypeRest' /\ Inv'
<1>. USE DEF Inv
<1>1. /\ UNCHANGED <<orderly, wiring, boards, ifaces, count, name, handle, driver, phase, pending>>
      /\ J' = J /\ \A s : Open(s)' <=> Open(s)
      /\ Reached' = Reached /\ \A d \in Devices : Held(d)' = Held(d)
  BY PortsKept DEF ports
<1>2. TypeRest'
  BY <1>1 DEF TypeRest
<1>3. BoardsInv' /\ Unused'
  BY <1>1 DEF BoardsInv, Unused
<1>4. TableInv'
  BY <1>1 DEF TableInv, Initialized
<1>5. OrderlyInv'
  BY <1>1 DEF OrderlyInv
<1>. QED  BY <1>2, <1>3, <1>4, <1>5

\* A module and its detChan are added to the ends of their lists.
LEMMA AddModuleStep ==
  ASSUME TypeRest, Inv, NEW a \in Modules, AddModule(a)
  PROVE  TypeRest' /\ Inv'
<1>1. modules \in Seq(Modules) /\ detChans \in Seq(Modules)
  BY DEF TypeRest
<1>2. ~In(a, modules) /\ ~In(a, detChans)
  BY <1>1, ToSetIn DEF AddModule
<1>3. /\ modules' \in Seq(Modules) /\ Distinct(modules')
      /\ \A b : In(b, modules') <=> In(b, modules) \/ b = a
  BY <1>1, <1>2, Appended DEF AddModule, Inv, ListsInv
<1>4. /\ detChans' \in Seq(Modules) /\ Distinct(detChans')
      /\ \A b : In(b, detChans') <=> In(b, detChans) \/ b = a
  BY <1>1, <1>2, Appended DEF AddModule, Inv, ListsInv
<1>5. UNCHANGED <<orderly, wiring, boards, ifaces, ports, phase, pending>>
  BY DEF AddModule
<1>6. ListsInv'
  BY <1>3, <1>4, <1>5 DEF Inv, ListsInv
<1>. QED  BY <1>3, <1>4, <1>5, <1>6, ListsChange

\* A module is removed with its detChan; in an orderly use only while the system is down.
LEMMA RemoveModuleStep ==
  ASSUME TypeRest, Inv, NEW a \in Modules, RemoveModule(a)
  PROVE  TypeRest' /\ Inv'
<1>1. modules \in Seq(Modules) /\ detChans \in Seq(Modules)
  BY DEF TypeRest
<1>2. In(a, modules) /\ In(a, detChans)
  BY <1>1, ToSetIn DEF RemoveModule, Inv, ListsInv
<1>3. /\ modules' \in Seq(Modules) /\ Distinct(modules')
      /\ \A b : In(b, modules') <=> In(b, modules) /\ b # a
  BY <1>1, <1>2, UnlinkedIs DEF RemoveModule, Inv, ListsInv
<1>4. /\ detChans' \in Seq(Modules) /\ Distinct(detChans')
      /\ \A b : In(b, detChans') <=> In(b, detChans) /\ b # a
  BY <1>1, <1>2, UnlinkedIs DEF RemoveModule, Inv, ListsInv
<1>5. /\ UNCHANGED <<orderly, wiring, boards, ifaces, ports, phase, pending>>
      /\ orderly => phase = "down"
  BY DEF RemoveModule
<1>6. ListsInv'
  BY <1>3, <1>4, <1>5 DEF Inv, ListsInv
<1>. QED  BY <1>3, <1>4, <1>5, <1>6, ListsChange

\* A module is removed without its detChan, which no orderly application does.
LEMMA OrphanDetChanStep ==
  ASSUME TypeRest, Inv, NEW a \in Modules, OrphanDetChan(a)
  PROVE  TypeRest' /\ Inv'
<1>1. modules \in Seq(Modules) /\ detChans \in Seq(Modules)
  BY DEF TypeRest
<1>2. In(a, modules)
  BY <1>1, ToSetIn DEF OrphanDetChan
<1>3. /\ modules' \in Seq(Modules) /\ Distinct(modules')
      /\ \A b : In(b, modules') <=> In(b, modules) /\ b # a
  BY <1>1, <1>2, UnlinkedIs DEF OrphanDetChan, Inv, ListsInv
<1>4. ~orderly /\ UNCHANGED <<orderly, wiring, detChans, boards, ifaces, ports, phase, pending>>
  BY DEF OrphanDetChan
<1>5. ListsInv'
  BY <1>3, <1>4 DEF Inv, ListsInv
<1>. QED  BY <1>1, <1>3, <1>4, <1>5, ListsChange

\* A start forgets the boards; there are no more modules to build than slots.
LEMMA StartStep ==
  ASSUME TypeRest, Inv, Start
  PROVE  TypeRest' /\ Inv'
<1>. USE DEF Inv
<1>1. /\ boards' = <<>> /\ ifaces' = {} /\ phase' = "building" /\ pending' = modules
      /\ UNCHANGED <<orderly, wiring, modules, detChans, count, name, handle, driver>>
      /\ orderly => phase = "down"
      /\ \A i \in Ifaces, d \in Devices : driver[i][d] < MaxOpen
  BY DEF Start, config, ports
<1>2. J' = J /\ J \in Ifaces /\ \A s : Open(s)' <=> Open(s)
  BY <1>1, PortsKept, JIs DEF ports
<1>3. \A d \in Devices : Held(d)' = Held(d)
  BY <1>1, PortsKept DEF ports
<1>4. TypeRest'
  BY <1>1 DEF TypeRest
<1>5. Reached' = {} /\ Cardinality(Reached') = 0
  BY <1>1, FS_EmptySet DEF Reached
<1>6. modules # <<>> /\ Len(modules) <= N /\ modules \in Seq(Modules)
  <2>1. modules \in Seq(Modules) /\ detChans \in Seq(Modules) /\ Distinct(modules)
    BY DEF TypeRest, ListsInv
  <2>2. In(detChans[1], detChans) /\ detChans[1] \in Modules
    BY <2>1 DEF Start, In
  <2>3. In(detChans[1], modules)
    BY <2>1, <2>2, ToSetIn DEF Start
  <2>. QED  BY <2>1, <2>3, ShortList DEF In
<1>7. ListsInv'
  BY <1>1 DEF ListsInv
<1>8. BoardsInv' /\ Unused'
  BY <1>1, <1>2, <1>6 DEF BoardsInv, Unused
<1>9. TableInv'
  <2>1. Initialized(J)' = [count EXCEPT ![J] = 0]
    BY <1>1, <1>2 DEF Initialized
  <2>2. Initialized(J)'[J] = 0 /\ J' = J
    BY <1>2, <2>1 DEF TypeRest
  <2>3. Initialized(J)'[J'] + Len(pending') <= N
    BY <1>1, <1>6, <2>2, SlotsAre
  <2>4. Cardinality(Reached') <= count'[J]
    BY <1>1, <1>5, TableTypes
  <2>. QED  BY <1>1, <1>2, <1>3, <2>3, <2>4 DEF TableInv
<1>10. OrderlyInv'
  <2>1. \A k \in 1..Len(modules) : In(modules[k], modules)
    BY DEF In
  <2>. QED  BY <1>1, <1>2, <1>3, <2>1 DEF OrderlyInv
<1>. QED  BY <1>4, <1>7, <1>8, <1>9, <1>10

\* The walk begins with every detChan, and so with one for every open port.
LEMMA StartClosingStep ==
  ASSUME TypeRest, Inv, StartClosing
  PROVE  TypeRest' /\ Inv'
<1>. USE DEF Inv
<1>1. /\ phase \in {"down", "up"} /\ phase' = "closing" /\ pending' = detChans
      /\ UNCHANGED <<orderly, wiring, modules, detChans, boards, ifaces, count, name, handle, driver>>
  BY DEF StartClosing, Idle, config, ports
<1>2. J' = J /\ (\A s : Open(s)' <=> Open(s)) /\ Reached' = Reached
      /\ \A d \in Devices : Held(d)' = Held(d)
  BY <1>1, PortsKept DEF ports
<1>3. TypeRest'
  BY <1>1 DEF TypeRest
<1>4. ListsInv' /\ BoardsInv' /\ Unused'
  BY <1>1, <1>2 DEF ListsInv, BoardsInv, Unused
<1>5. TableInv'
  BY <1>1, <1>2 DEF TableInv
<1>6. OrderlyInv'
  <2>. SUFFICES ASSUME orderly PROVE OrderlyInv'
    BY <1>1 DEF OrderlyInv
  <2>1. \A k \in 1..Len(detChans) : detChans[k] \in Modules /\ In(detChans[k], detChans)
    BY DEF TypeRest, In
  <2>2. \A k \in 1..Len(detChans) : In(detChans[k], modules)
    BY <2>1 DEF ListsInv
  <2>3. \A k \in 1..Len(boards) : boards[k].mod \in Modules
    BY TableTypes DEF Board
  <2>4. \A s \in Slots : Open(s) =>
            \E k \in 1..Len(boards) : boards[k].ioChan = s /\ In(boards[k].mod, detChans)
    BY <1>1, <2>3 DEF OrderlyInv, ListsInv
  <2>. QED  BY <1>1, <1>2, <2>2, <2>4 DEF OrderlyInv
<1>. QED  BY <1>3, <1>4, <1>5, <1>6

\* The walk ends early only where a detChan has no module.
LEMMA UnHookStopsStep ==
  ASSUME TypeRest, Inv, UnHookStops
  PROVE  TypeRest' /\ Inv'
<1>. USE DEF Inv
<1>1. /\ phase = "closing" /\ pending # <<>> /\ pending' = <<>>
      /\ UNCHANGED <<orderly, wiring, modules, detChans, boards, ifaces, count, name, handle,
                     driver, phase>>
  BY DEF UnHookStops, config, ports
<1>2. J' = J /\ (\A s : Open(s)' <=> Open(s)) /\ Reached' = Reached
      /\ \A d \in Devices : Held(d)' = Held(d)
  BY <1>1, PortsKept DEF ports
<1>3. TypeRest'
  BY <1>1 DEF TypeRest
<1>4. ListsInv' /\ BoardsInv' /\ Unused' /\ TableInv'
  BY <1>1, <1>2 DEF ListsInv, BoardsInv, Unused, TableInv, Distinct
<1>5. ~orderly
  <2>1. modules \in Seq(Modules) /\ pending \in Seq(Modules) /\ 1 \in 1..Len(pending)
        /\ Head(pending) = pending[1]
    BY <1>1 DEF TypeRest
  <2>2. ~In(pending[1], modules)
    BY <2>1, ToSetIn DEF UnHookStops
  <2>. QED  BY <1>1, <2>1, <2>2 DEF OrderlyInv
<1>6. OrderlyInv'
  BY <1>1, <1>5 DEF OrderlyInv
<1>. QED  BY <1>3, <1>4, <1>6

\* The lists are cleared; no open port is left behind in an orderly use.
LEMMA ClosedStep ==
  ASSUME TypeRest, Inv, Closed
  PROVE  TypeRest' /\ Inv'
<1>. USE DEF Inv
<1>1. /\ phase = "closing" /\ pending = <<>> /\ modules' = <<>> /\ detChans' = <<>>
      /\ phase' = "down"
      /\ UNCHANGED <<orderly, wiring, count, name, handle, driver, pending>>
      /\ (boards' = <<>> /\ ifaces' = {}) \/ UNCHANGED <<boards, ifaces>>
  BY DEF Closed, ports
<1>2. J' = J /\ J \in Ifaces /\ (\A s : Open(s)' <=> Open(s))
      /\ \A d \in Devices : Held(d)' = Held(d)
  BY <1>1, PortsKept, JIs DEF ports
<1>3. TypeRest'
  <2>1. boards' \in Seq(Board) /\ ifaces' \subseteq Ifaces
    BY <1>1, EmptySeq DEF TypeRest
  <2>. QED  BY <1>1, <2>1 DEF TypeRest
<1>4. Cardinality(Reached') <= count'[J]
  <2>1. CASE boards' = <<>>
    <3>1. Reached' = {} /\ Cardinality(Reached') = 0
      BY <2>1, FS_EmptySet DEF Reached
    <3>. QED  BY <1>1, <3>1, TableTypes
  <2>2. CASE UNCHANGED boards
    BY <1>1, <2>2, PortsKept DEF TableInv, ports
  <2>. QED  BY <1>1, <2>1, <2>2
<1>5. ListsInv'
  BY <1>1 DEF ListsInv, Distinct, In
<1>6. BoardsInv' /\ Unused'
  BY <1>1, <1>2 DEF BoardsInv, Unused
<1>7. TableInv'
  BY <1>1, <1>2, <1>4 DEF TableInv
<1>8. OrderlyInv'
  BY <1>1, <1>2 DEF OrderlyInv, In
<1>. QED  BY <1>3, <1>5, <1>6, <1>7, <1>8

-----------------------------------------------------------------------------
(* The building loop. *)

\* The slot a new port would take.
Free == Initialized(J)[J]

\* The last board has the interface already.
LEMMA SameBoards ==
  ASSUME TypeRest, BoardsInv
  PROVE  WithIface(J) = boards
<1>1. CASE boards # <<>>
  <2>1. Len(boards) \in 1..Len(boards) /\ boards[Len(boards)] \in Board
        /\ boards[Len(boards)].iface = J
    BY <1>1 DEF TypeRest, BoardsInv
  <2>2. [boards[Len(boards)] EXCEPT !.iface = J] = boards[Len(boards)]
    BY <2>1 DEF Board
  <2>3. [boards EXCEPT ![Len(boards)].iface = J] = boards
    BY <2>1, <2>2 DEF TypeRest
  <2>. QED  BY <1>1, <2>3 DEF WithIface
<1>. QED  BY <1>1 DEF WithIface

\* The module whose board is built, and the slot that is free.
LEMMA Building ==
  ASSUME TypeRest, Inv, phase = "building", NEW a, a = Head(pending)
  PROVE  /\ a \in Modules /\ wiring[a] = J /\ DeviceOf[a] \in Devices
         /\ Tail(pending) \in Seq(Modules) /\ Distinct(Tail(pending))
         /\ Len(Tail(pending)) = Len(pending) - 1 /\ ~In(a, Tail(pending)) /\ In(a, pending)
         /\ \A b : In(b, Tail(pending)) => In(b, pending)
         /\ \A k \in 1..Len(boards) :
                boards[k].mod # a /\ ~In(boards[k].mod, Tail(pending))
         /\ Free \in Slots /\ Free \in Nat /\ Free + 1 + Len(Tail(pending)) <= N /\ Free + 1 \in 0..N
         /\ Len(Tail(pending)) \in Nat
         /\ J \in ifaces => Free = count[J] /\ Initialized(J) = count
         /\ J \notin ifaces => Free = 0 /\ boards = <<>>
<1>1. pending \in Seq(Modules) /\ pending # <<>> /\ Distinct(pending)
  BY DEF TypeRest, Inv, BoardsInv, ListsInv
<1>2. /\ a \in Modules /\ In(a, pending) /\ ~In(a, Tail(pending))
      /\ Tail(pending) \in Seq(Modules) /\ Distinct(Tail(pending))
      /\ Len(Tail(pending)) = Len(pending) - 1
      /\ \A b : In(b, Tail(pending)) => In(b, pending)
  BY <1>1, TailIs
<1>3. wiring[a] = J /\ DeviceOf[a] \in Devices
  BY <1>2, JIs DEF Devices
<1>4. \A k \in 1..Len(boards) : boards[k].mod # a /\ ~In(boards[k].mod, Tail(pending))
  BY <1>2 DEF Inv, BoardsInv
<1>5. /\ J \in ifaces => Free = count[J] /\ Initialized(J) = count
      /\ J \notin ifaces => Free = 0
  BY JIs DEF Free, Initialized, TypeRest
<1>6. J \notin ifaces => boards = <<>>
  BY DEF Inv, BoardsInv
<1>7. Free \in Nat /\ Free + Len(pending) <= N
  BY <1>5, TableTypes DEF Inv, TableInv, Free
<1>8. Len(pending) \in Nat /\ Len(pending) > 0 /\ Len(Tail(pending)) \in Nat
  BY <1>1, <1>2
<1>9. Free \in Slots
  BY <1>7, <1>8, SlotsAre
<1>10. Free + 1 + Len(Tail(pending)) <= N /\ Free + 1 \in 0..N
  BY <1>2, <1>7, <1>8, SlotsAre
<1>. QED  BY <1>2, <1>3, <1>4, <1>5, <1>6, <1>7, <1>8, <1>9, <1>10

\* The building loop goes on.
LEMMA BuildNextIs ==
  ASSUME TypeRest, Inv, phase = "building", BuildNext
  PROVE  /\ pending' = Tail(pending) /\ phase' \in {"building", "up"}
         /\ phase' = "building" => pending' # <<>>
  BY DEF BuildNext

\* The board of a module is added.
LEMMA BoardAdded ==
  ASSUME TypeRest, Inv, phase = "building", NEW a, a = Head(pending), NEW s \in Slots,
         AddBoard(a, J, s), BuildNext, ifaces' = ifaces \cup {J},
         UNCHANGED <<orderly, wiring, modules, detChans>>
  PROVE  /\ boards' \in Seq(Board) /\ Len(boards') = Len(boards) + 1
         /\ 1..Len(boards') = 1..Len(boards) \cup {Len(boards) + 1}
         /\ \A k \in 1..Len(boards) : boards'[k] = boards[k]
         /\ boards'[Len(boards) + 1] = [mod |-> a, iface |-> J, ioChan |-> s]
         /\ ListsInv' /\ BoardsInv'
         /\ Len(boards) \in Nat
<1>. DEFINE new == [mod |-> a, iface |-> J, ioChan |-> s]
            n == Len(boards)
<1>1. boards \in Seq(Board) /\ new \in Board
  BY Building, JIs DEF TypeRest, Board
<1>2. boards' = Append(boards, new)
  BY SameBoards DEF AddBoard, Inv
<1>. HIDE DEF new
<1>3. /\ boards' \in Seq(Board) /\ Len(boards') = n + 1
      /\ \A k \in 1..n : boards'[k] = boards[k]
      /\ boards'[n + 1] = new
  BY <1>1, <1>2, AppendProperties
<1>4. n \in Nat
  BY <1>1
<1>5. 1..Len(boards') = 1..n \cup {n + 1}
  BY <1>3, <1>4
<1>6. J' = J
  BY JKept
<1>7. ListsInv'
  BY Building, BuildNextIs DEF Inv, ListsInv
<1>8. BoardsInv'
  <2>1. new.mod = a /\ new.iface = J
    BY DEF new
  <2>2. \A k \in 1..n : /\ boards[k].mod # a /\ ~In(boards[k].mod, Tail(pending))
                        /\ boards[k].iface = J
    BY Building DEF Inv, BoardsInv
  <2>3. \A k \in 1..(n + 1) : boards'[k].iface = J /\ ~In(boards'[k].mod, Tail(pending))
    BY <1>3, <1>4, <2>1, <2>2, Building, SMTT(30)
  <2>4. \A k, l \in 1..(n + 1) : boards'[k].mod = boards'[l].mod => k = l
    BY <1>3, <1>4, <2>1, <2>2 DEF Inv, BoardsInv
  <2>. QED  BY <1>3, <1>6, <2>3, <2>4, BuildNextIs DEF Inv, BoardsInv
<1>. QED  BY <1>3, <1>4, <1>5, <1>7, <1>8 DEF new

\* The boards lead to slots below the counter.
BoardsBelow == TypeRest /\ (\A k \in 1..Len(boards) : boards[k].ioChan < count[J])
                   => Cardinality(Reached) <= count[J]

\* The slots the boards lead to are no more than the counter says.
LEMMA ReachedBelow == BoardsBelow
<1>. SUFFICES ASSUME TypeRest, \A k \in 1..Len(boards) : boards[k].ioChan < count[J]
              PROVE  Cardinality(Reached) <= count[J]
  BY DEF BoardsBelow
<1>1. Reached \in SUBSET Slots /\ \A s \in Reached : s < count[J]
  BY DEF Reached
<1>. QED  BY <1>1, TableTypes, Below

\* The same of the next state.
LEMMA ReachedBelowNext == BoardsBelow'
  BY ReachedBelow, PTL

\* In an orderly use the boards are those of modules there are.
LEMMA BoardModules ==
  ASSUME TypeRest, Inv, orderly, phase = "building", NEW a, a = Head(pending), BuildNext,
         UNCHANGED modules, 1..Len(boards') \subseteq 1..Len(boards) \cup {Len(boards) + 1},
         \A k \in 1..Len(boards) : boards'[k].mod = boards[k].mod,
         Len(boards) + 1 \in 1..Len(boards') => boards'[Len(boards) + 1].mod = a
  PROVE  /\ \A k \in 1..Len(boards') : In(boards'[k].mod, modules')
         /\ \A k \in 1..Len(pending') : In(pending'[k], modules')
<1>1. \A b : In(b, pending) => In(b, modules)
  BY DEF Inv, OrderlyInv, In
<1>2. In(a, modules)
  BY <1>1, Building
<1>3. \A k \in 1..Len(boards) : In(boards[k].mod, modules)
  BY DEF Inv, OrderlyInv
<1>4. \A k \in 1..Len(boards') : In(boards'[k].mod, modules)
  BY <1>2, <1>3
<1>5. \A k \in 1..Len(pending') : In(pending'[k], modules)
  <2>1. \A b : In(b, pending') => In(b, modules)
    BY <1>1, Building, BuildNextIs
  <2>. QED  BY <2>1 DEF In
<1>. QED  BY <1>4, <1>5 DEF In

\* A board shares the slot of its device, which the counter counts already.
LEMMA ShareSlotStep ==
  ASSUME TypeRest, Inv, ShareSlot
  PROVE  TypeRest' /\ Inv'
<1>. DEFINE a == Head(pending)
            d == DeviceOf[a]
<1>1. /\ phase = "building" /\ BuildNext
      /\ UNCHANGED <<orderly, wiring, modules, detChans, handle, driver>>
  BY DEF ShareSlot, config
<1>2. a \in Modules /\ wiring[a] = J /\ d \in Devices /\ Free \in Nat
      /\ Len(Tail(pending)) = Len(pending) - 1 /\ Len(Tail(pending)) \in Nat
      /\ Free + 1 + Len(Tail(pending)) <= N
      /\ Tail(pending) \in Seq(Modules)
  BY <1>1, Building
<1>3. PICK s \in Matching(J, d) :
          /\ count' = Initialized(J) /\ name' = Names(J) /\ AddBoard(a, J, s)
          /\ ifaces' = ifaces \cup {J}
  BY <1>2 DEF ShareSlot
<1>4. s \in Slots /\ s < Free /\ Names(J)[J][s] = d
  BY <1>3 DEF Matching, Free
<1>5. J \in ifaces /\ Free = count[J]
  BY <1>1, <1>4, Building, SlotsAre
<1>6. count' = count /\ name' = name /\ ifaces' = ifaces /\ name[J][s] = d
  BY <1>1, <1>3, <1>4, <1>5, Building DEF Names
<1>7. J' = J /\ (\A t : Open(t)' <=> Open(t)) /\ \A e \in Devices : Held(e)' = Held(e)
  BY <1>1, <1>6, PortsKept DEF ports
<1>8. Open(s) /\ handle[J][s] = d
  <2>1. name[J][s] = handle[J][s]
    BY <1>1, <1>4, <1>5 DEF Inv, TableInv
  <2>. QED  BY <1>2, <1>6, <2>1, DeviceAssumption DEF Open, PortClosed
<1>9. /\ boards' \in Seq(Board) /\ Len(boards') = Len(boards) + 1
      /\ 1..Len(boards') = 1..Len(boards) \cup {Len(boards) + 1}
      /\ \A k \in 1..Len(boards) : boards'[k] = boards[k]
      /\ boards'[Len(boards) + 1] = [mod |-> a, iface |-> J, ioChan |-> s]
      /\ ListsInv' /\ BoardsInv'
  BY <1>1, <1>3, <1>4, BoardAdded
<1>10. TypeRest'
  BY <1>1, <1>2, <1>6, <1>9, BuildNextIs DEF TypeRest
<1>11. Unused'
  BY <1>1, <1>6, <1>7 DEF Inv, Unused
<1>12. \A k \in 1..Len(boards') :
           /\ boards'[k].ioChan < count[J] /\ Open(boards'[k].ioChan)
           /\ handle[J][boards'[k].ioChan] = DeviceOf[boards'[k].mod]
  <2>1. \A k \in 1..Len(boards) :
           /\ boards[k].ioChan < count[J] /\ Open(boards[k].ioChan)
           /\ handle[J][boards[k].ioChan] = DeviceOf[boards[k].mod]
    BY <1>1 DEF Inv, TableInv
  <2>. QED  BY <1>4, <1>5, <1>8, <1>9, <2>1
<1>13. TableInv'
  <2>1. Cardinality(Reached') <= count'[J']
    BY <1>6, <1>7, <1>10, <1>12, ReachedBelowNext DEF BoardsBelow
  <2>2. Initialized(J)'[J'] + Len(pending') <= N
    <3>1. Initialized(J)' = count /\ pending' = Tail(pending)
      BY <1>1, <1>5, <1>6, <1>7, BuildNextIs DEF Initialized
    <3>. QED  BY <1>2, <1>5, <1>7, <3>1, SlotsAre
  <2>. QED  BY <1>1, <1>5, <1>6, <1>7, <1>12, <2>1, <2>2 DEF Inv, TableInv
<1>14. OrderlyInv'
  <2>. SUFFICES ASSUME orderly PROVE OrderlyInv'
    BY <1>1 DEF OrderlyInv
  <2>1. /\ \A k \in 1..Len(boards') : In(boards'[k].mod, modules')
        /\ \A k \in 1..Len(pending') : In(pending'[k], modules')
    BY <1>1, <1>9, BoardModules
  <2>2. \A t \in Slots : Open(t) => \E k \in 1..Len(boards') : boards'[k].ioChan = t
    BY <1>1, <1>9 DEF Inv, OrderlyInv
  <2>. QED  BY <1>1, <1>5, <1>6, <1>7, <2>1, <2>2, BuildNextIs DEF Inv, OrderlyInv
<1>. QED  BY <1>9, <1>10, <1>11, <1>13, <1>14 DEF Inv

\* The names when the interface is initialized, or was before.
LEMMA NamesAre ==
  ASSUME TypeRest
  PROVE  /\ Names(J) \in [Ifaces -> [Slots -> Devices \cup {None}]]
         /\ \A i \in Ifaces \ {J} : Names(J)[i] = name[i]
         /\ J \in ifaces => Names(J) = name
         /\ \A s \in Slots : \/ Names(J)[J][s] = name[J][s]
                             \/ J = "serial" /\ J \notin ifaces /\ Names(J)[J][s] = None
<1>1. J \in Ifaces /\ name \in [Ifaces -> [Slots -> Devices \cup {None}]]
  BY JIs DEF TypeRest
<1>2. CASE J = "serial" /\ J \notin ifaces
  <2>1. Names(J) = [name EXCEPT ![J] = [s \in Slots |-> None]]
    BY <1>2 DEF Names
  <2>. QED  BY <1>1, <1>2, <2>1
<1>3. CASE ~(J = "serial" /\ J \notin ifaces)
  <2>1. Names(J) = name
    BY <1>3 DEF Names
  <2>. QED  BY <1>1, <2>1
<1>. QED  BY <1>2, <1>3

\* A port is opened: what it leaves alone, and what it changes.
LEMMA OpenSlotPorts ==
  ASSUME TypeRest, Inv, OpenSlot, NEW d, d = DeviceOf[Head(pending)]
  PROVE  /\ count' \in [Ifaces -> 0..N] /\ count'[J] = Free + 1
         /\ handle' \in [Ifaces -> [Slots -> Devices \cup {None}]]
         /\ name' \in [Ifaces -> [Slots -> Devices \cup {None}]]
         /\ driver' \in [Ifaces -> [Devices -> 0..MaxOpen]]
         /\ handle'[J][Free] = d /\ name'[J][Free] = d /\ driver'[J][d] = driver[J][d] + 1
         /\ \A t \in Slots \ {Free} :
                handle'[J][t] = handle[J][t] /\ name'[J][t] = Names(J)[J][t]
         /\ \A e \in Devices \ {d} : driver'[J][e] = driver[J][e]
         /\ \A i \in Ifaces \ {J} : /\ count'[i] = count[i] /\ handle'[i] = handle[i]
                                    /\ name'[i] = name[i] /\ driver'[i] = driver[i]
         /\ Matching(J, d) = {}
         /\ AddBoard(Head(pending), J, Free) /\ ifaces' = ifaces \cup {J}
<1>. DEFINE a == Head(pending)
<1>1. /\ phase = "building" /\ a \in Modules /\ wiring[a] = J /\ d \in Devices
      /\ Free \in Slots /\ Free \in Nat /\ Free + 1 \in 0..N
      /\ J \in ifaces => Free = count[J]
  BY Building DEF OpenSlot
<1>2. /\ Matching(J, d) = {} /\ count' = Claimed(J)
      /\ handle' = [handle EXCEPT ![J][Free] = d]
      /\ name' = [Names(J) EXCEPT ![J][Free] = d]
      /\ driver' = [driver EXCEPT ![J][d] = @ + 1]
      /\ AddBoard(a, J, Free) /\ ifaces' = ifaces \cup {J}
  BY <1>1 DEF OpenSlot, Free
<1>3. J \in Ifaces
  BY JIs
<1>4. count' = [Initialized(J) EXCEPT ![J] = Free + 1]
  BY <1>2 DEF Claimed, Free
<1>5. Initialized(J) \in [Ifaces -> 0..N] /\ \A i \in Ifaces \ {J} : Initialized(J)[i] = count[i]
  BY <1>3, SlotsAre DEF Initialized, TypeRest
<1>6. /\ count' \in [Ifaces -> 0..N] /\ count'[J] = Free + 1
      /\ \A i \in Ifaces \ {J} : count'[i] = count[i]
  BY <1>1, <1>3, <1>4, <1>5
<1>7. /\ handle' \in [Ifaces -> [Slots -> Devices \cup {None}]] /\ handle'[J][Free] = d
      /\ \A t \in Slots \ {Free} : handle'[J][t] = handle[J][t]
      /\ \A i \in Ifaces \ {J} : handle'[i] = handle[i]
  BY <1>1, <1>2, <1>3 DEF TypeRest
<1>8. /\ name' \in [Ifaces -> [Slots -> Devices \cup {None}]] /\ name'[J][Free] = d
      /\ \A t \in Slots \ {Free} : name'[J][t] = Names(J)[J][t]
      /\ \A i \in Ifaces \ {J} : name'[i] = name[i]
  BY <1>1, <1>2, <1>3, NamesAre
<1>9. driver[J][d] \in 0..MaxOpen /\ driver[J][d] < MaxOpen /\ MaxOpen \in Nat
  <2>1. ASSUME J \in ifaces, NEW s \in Slots, s < count[J], name[J][s] = d PROVE FALSE
    <3>1. s \in Matching(J, d)
      BY <1>1, <2>1, NamesAre DEF Matching, Free
    <3>. QED  BY <1>2, <3>1
  <2>. QED  BY <1>1, <2>1, TableTypes, DeviceAssumption DEF Inv, TableInv
<1>10. driver[J][d] + 1 \in 0..MaxOpen
  BY <1>9
<1>11. /\ driver' \in [Ifaces -> [Devices -> 0..MaxOpen]]
       /\ driver'[J][d] = driver[J][d] + 1
       /\ \A e \in Devices \ {d} : driver'[J][e] = driver[J][e]
       /\ \A i \in Ifaces \ {J} : driver'[i] = driver[i]
  BY <1>1, <1>2, <1>3, <1>10 DEF TypeRest
<1>. QED  BY <1>2, <1>6, <1>7, <1>8, <1>11

\* A port takes the free slot, which no other board leads to.
LEMMA OpenSlotStep ==
  ASSUME TypeRest, Inv, OpenSlot, NEW a, a = Head(pending), NEW d, d = DeviceOf[a],
         NEW f, f = Free
  PROVE  TypeRest' /\ Inv'
<1>1. /\ phase = "building" /\ BuildNext
      /\ UNCHANGED <<orderly, wiring, modules, detChans>>
  BY DEF OpenSlot, config
<1>2. /\ a \in Modules /\ wiring[a] = J /\ d \in Devices /\ f \in Nat /\ f \in Slots
      /\ Len(Tail(pending)) = Len(pending) - 1 /\ Len(Tail(pending)) \in Nat
      /\ f + 1 + Len(Tail(pending)) <= N
      /\ Tail(pending) \in Seq(Modules)
      /\ J \in ifaces => f = count[J]
      /\ J \notin ifaces => f = 0 /\ boards = <<>>
  BY <1>1, Building
<1>3. /\ count' \in [Ifaces -> 0..N] /\ count'[J] = f + 1
      /\ handle' \in [Ifaces -> [Slots -> Devices \cup {None}]]
      /\ name' \in [Ifaces -> [Slots -> Devices \cup {None}]]
      /\ driver' \in [Ifaces -> [Devices -> 0..MaxOpen]]
      /\ handle'[J][f] = d /\ name'[J][f] = d /\ driver'[J][d] = driver[J][d] + 1
      /\ \A t \in Slots \ {f} :
             handle'[J][t] = handle[J][t] /\ name'[J][t] = Names(J)[J][t]
      /\ \A e \in Devices \ {d} : driver'[J][e] = driver[J][e]
      /\ \A i \in Ifaces \ {J} : /\ count'[i] = count[i] /\ handle'[i] = handle[i]
                                 /\ name'[i] = name[i] /\ driver'[i] = driver[i]
      /\ Matching(J, d) = {}
      /\ AddBoard(a, J, f) /\ ifaces' = ifaces \cup {J}
  BY OpenSlotPorts
<1>4. J' = J /\ J \in Ifaces
  BY <1>1, JKept, JIs
<1>5. /\ Open(f)'
      /\ \A t \in Slots \ {f} : Open(t)' => Open(t)
      /\ J \in ifaces => \A t \in Slots \ {f} : Open(t)' <=> Open(t)
  BY <1>2, <1>3, <1>4, NamesAre, DeviceAssumption DEF Open, PortClosed, Ifaces
<1>6. /\ boards' \in Seq(Board) /\ Len(boards') = Len(boards) + 1
      /\ 1..Len(boards') = 1..Len(boards) \cup {Len(boards) + 1}
      /\ \A k \in 1..Len(boards) : boards'[k] = boards[k]
      /\ boards'[Len(boards) + 1] = [mod |-> a, iface |-> J, ioChan |-> f]
      /\ ListsInv' /\ BoardsInv'
  BY <1>1, <1>2, <1>3, BoardAdded
<1>7. TypeRest'
  <2>1. pending' \in Seq(Modules) /\ phase' \in {"down", "building", "up", "closing"}
    BY <1>1, <1>2, BuildNextIs
  <2>2. ifaces' \subseteq Ifaces
    BY <1>3, <1>4 DEF TypeRest
  <2>. QED  BY <1>1, <1>3, <1>6, <2>1, <2>2 DEF TypeRest
<1>8. Unused'
  BY <1>3, <1>4, SMTT(30) DEF Inv, Unused
<1>9. /\ Held(d) \in SUBSET Slots /\ Held(d)' \in SUBSET Slots
      /\ Held(d)' \subseteq Held(d) \cup {f}
      /\ \A e \in Devices \ {d} : Held(e) \in SUBSET Slots /\ Held(e)' \in SUBSET Held(e)
  BY <1>2, <1>3, <1>4, <1>5 DEF Held
<1>10. \A k \in 1..Len(boards) : boards[k].ioChan \in Slots /\ boards[k].ioChan < f
  <2>1. \A k \in 1..Len(boards) : boards[k].ioChan < count[J] /\ boards[k].ioChan \in Slots
    BY <1>1, TableTypes DEF Inv, TableInv, Board
  <2>. QED  BY <1>2, <2>1
<1>11. (\A k \in 1..Len(boards) :
            /\ boards[k].ioChan < count[J] /\ Open(boards[k].ioChan)
            /\ handle[J][boards[k].ioChan] = DeviceOf[boards[k].mod])'
  <2>1. ASSUME NEW k \in 1..Len(boards), NEW s, s = boards[k].ioChan
        PROVE  s < count'[J] /\ Open(s)' /\ handle'[J][s] = DeviceOf[boards[k].mod]
    <3>1. Open(s) /\ handle[J][s] = DeviceOf[boards[k].mod]
      BY <1>1, <2>1 DEF Inv, TableInv
    <3>2. s \in Slots \ {f} /\ s < f + 1
      BY <1>2, <1>10, <2>1, SlotsAre
    <3>3. J \in ifaces
      BY <1>2, <2>1
    <3>. QED  BY <1>3, <1>5, <3>1, <3>2, <3>3
  <2>2. f < count'[J] /\ Open(f)' /\ handle'[J][f] = d
    BY <1>2, <1>3, <1>5
  <2>3. ASSUME NEW k \in 1..Len(boards'), NEW s, s = boards'[k].ioChan
        PROVE  s < count'[J] /\ Open(s)' /\ handle'[J][s] = DeviceOf[boards'[k].mod]
    BY <1>2, <1>6, <2>1, <2>2, <2>3
  <2>. QED  BY <1>4, <2>3
<1>12. TableInv'
  <2>1. \A s \in Slots : Open(s)' => handle'[J][s] \in Devices
    <3>. SUFFICES ASSUME NEW s \in Slots, Open(s)' PROVE handle'[J][s] \in Devices
      OBVIOUS
    <3>1. CASE s = f
      BY <1>2, <1>3, <3>1
    <3>2. CASE s # f
      <4>1. Open(s) /\ handle'[J][s] = handle[J][s]
        BY <1>3, <1>5, <3>2
      <4>2. Open(s) => handle[J][s] \in Devices
        BY DEF Inv, TableInv
      <4>. QED  BY <4>1, <4>2
    <3>. QED  BY <3>1, <3>2
  <2>2. ASSUME NEW e \in Devices PROVE Cardinality(Held(e)') <= driver'[J][e]
    <3>1. Cardinality(Held(e)) <= driver[J][e] /\ driver[J][e] \in Nat
      BY TableTypes DEF Inv, TableInv
    <3>2. CASE e = d
      <4>1. Cardinality(Held(e)') <= Cardinality(Held(e)) + 1
        BY <1>2, <1>9, <3>2, OneMore
      <4>2. Cardinality(Held(e)) \in Nat /\ Cardinality(Held(e)') \in Nat
        BY <1>9, <3>2, SlotSets
      <4>. QED  BY <1>3, <3>1, <3>2, <4>1, <4>2
    <3>3. CASE e # d
      <4>1. Cardinality(Held(e)') <= Cardinality(Held(e))
        BY <1>9, <3>3, Fewer
      <4>2. Cardinality(Held(e)) \in Nat /\ Cardinality(Held(e)') \in Nat
        <5>1. Held(e) \in SUBSET Slots /\ Held(e)' \in SUBSET Slots
          BY <1>9, <3>3
        <5>. QED  BY <5>1, SlotSets
      <4>. QED  BY <1>3, <3>1, <3>3, <4>1, <4>2
    <3>. QED  BY <3>2, <3>3
  <2>3. Cardinality(Reached') <= count'[J']
    BY <1>4, <1>7, <1>11, ReachedBelowNext DEF BoardsBelow
  <2>4. Initialized(J)'[J'] + Len(pending') <= N
    <3>1. Initialized(J)' = count' /\ pending' = Tail(pending)
      BY <1>1, <1>3, <1>4, BuildNextIs DEF Initialized
    <3>. QED  BY <1>2, <1>3, <1>4, <3>1, SlotsAre
  <2>5. ASSUME NEW s \in Slots, s < count'[J]
        PROVE  name'[J][s] = handle'[J][s] /\ name'[J][s] \in Devices
    <3>1. CASE s = f
      BY <1>2, <1>3, <3>1
    <3>2. CASE s # f
      <4>1. s < f /\ J \in ifaces /\ f = count[J]
        BY <1>2, <1>3, <2>5, <3>2, SlotsAre
      <4>2. name[J][s] = handle[J][s] /\ name[J][s] \in Devices
        BY <1>1, <4>1 DEF Inv, TableInv
      <4>. QED  BY <1>3, <3>2, <4>1, <4>2, NamesAre
    <3>. QED  BY <3>1, <3>2
  <2>6. ASSUME NEW e \in Devices
        PROVE  driver'[J][e] < MaxOpen \/ \E s \in Slots : s < count'[J] /\ name'[J][s] = e
    <3>1. CASE e = d
      <4>1. f \in Slots /\ f < count'[J] /\ name'[J][f] = e
        BY <1>2, <1>3, <3>1
      <4>. QED  BY <4>1
    <3>2. CASE e # d /\ driver[J][e] < MaxOpen
      BY <1>3, <3>2
    <3>3. CASE e # d /\ J \in ifaces /\ \E s \in Slots : s < count[J] /\ name[J][s] = e
      <4>1. PICK s \in Slots : s < count[J] /\ name[J][s] = e
        BY <3>3
      <4>2. s # f /\ s < f + 1
        <5>1. f = count[J] /\ f \in Nat
          BY <1>2, <3>3
        <5>2. s \in Nat /\ s < f
          BY <4>1, <5>1, SlotsAre
        <5>. QED  BY <5>1, <5>2
      <4>. QED  BY <1>3, <3>3, <4>1, <4>2, NamesAre
    <3>. QED  BY <1>1, <3>1, <3>2, <3>3 DEF Inv, TableInv
  <2>. QED  BY <1>3, <1>4, <1>11, <2>1, <2>2, <2>3, <2>4, <2>5, <2>6 DEF TableInv
<1>13. OrderlyInv'
  <2>. SUFFICES ASSUME orderly PROVE OrderlyInv'
    BY <1>1 DEF OrderlyInv
  <2>1. /\ \A k \in 1..Len(boards') : In(boards'[k].mod, modules')
        /\ \A k \in 1..Len(pending') : In(pending'[k], modules')
    BY <1>1, <1>6, BoardModules
  <2>2. \A s \in Slots : Open(s) => J \in ifaces /\ s < f
    BY <1>1, <1>2 DEF Inv, OrderlyInv
  <2>3. ~Open(f) /\ \A t \in Slots \ {f} : Open(t)' <=> Open(t)
    <3>1. f \in Slots /\ ~(f < f)
      BY <1>2
    <3>2. ~Open(f)
      BY <2>2, <3>1
    <3>3. CASE J \in ifaces
      BY <1>5, <3>2, <3>3
    <3>4. CASE J \notin ifaces
      <4>1. \A t \in Slots : ~Open(t)
        BY <2>2, <3>4
      <4>. QED  BY <1>5, <3>2, <4>1
    <3>. QED  BY <3>2, <3>3, <3>4
  <2>4. \A t \in Slots : name'[J][t] = IF Open(t)' THEN handle'[J][t] ELSE None
    <3>1. \A t \in Slots : name[J][t] = IF Open(t) THEN handle[J][t] ELSE None
      BY DEF Inv, OrderlyInv
    <3>2. \A t \in Slots \ {f} : ~Open(t) => name'[J][t] = None
      BY <1>3, <3>1, NamesAre
    <3>3. \A t \in Slots \ {f} : Open(t) => name'[J][t] = handle'[J][t]
      BY <1>3, <2>2, <3>1, NamesAre
    <3>. QED  BY <1>3, <1>5, <2>3, <3>2, <3>3
  <2>5. ASSUME NEW e \in Devices PROVE Cardinality(Held(e)') = driver'[J][e]
    <3>1. Cardinality(Held(e)) = driver[J][e]
      BY DEF Inv, OrderlyInv
    <3>2. CASE e = d
      <4>1. f \in Slots /\ f \notin Held(d)
        BY <1>2, <2>3 DEF Held
      <4>2. ASSUME NEW t \in Slots PROVE t \in Held(d)' <=> t \in Held(d) \/ t = f
        <5>1. CASE t = f
          BY <1>3, <1>4, <1>5, <5>1 DEF Held
        <5>2. CASE t # f
          BY <1>3, <1>4, <2>3, <5>2 DEF Held
        <5>. QED  BY <5>1, <5>2
      <4>3. Held(d)' = Held(d) \cup {f}
        BY <1>9, <4>1, <4>2
      <4>4. Cardinality(Held(d)') = Cardinality(Held(d)) + 1
        BY <1>9, <4>1, <4>3, OneMore
      <4>. QED  BY <1>3, <3>1, <3>2, <4>4
    <3>3. CASE e # d
      <4>1. \A t \in Slots : t \in Held(e)' <=> t \in Held(e)
        <5>1. \A t \in Slots \ {f} : t \in Held(e)' <=> t \in Held(e)
          BY <1>3, <1>4, <2>3 DEF Held
        <5>2. f \notin Held(e)' /\ f \notin Held(e)
          BY <1>3, <1>4, <2>3, <3>3 DEF Held
        <5>. QED  BY <5>1, <5>2
      <4>2. Held(e)' = Held(e)
        <5>1. Held(e) \in SUBSET Slots /\ Held(e)' \in SUBSET Slots
          BY <1>9, <3>3
        <5>. QED  BY <4>1, <5>1
      <4>. QED  BY <1>3, <3>1, <3>3, <4>2
    <3>. QED  BY <3>2, <3>3
  <2>6. ASSUME NEW s \in Slots, Open(s)' PROVE s < count'[J]
    <3>1. s = f \/ s < f
      BY <2>2, <2>3, <2>6
    <3>2. s \in Nat /\ f \in Nat /\ count'[J] = f + 1
      BY <1>2, <1>3, SlotsAre
    <3>. QED  BY <3>1, <3>2
  <2>7. \A s \in Slots : Open(s)' => \E k \in 1..Len(boards') : boards'[k].ioChan = s
    <3>1. \A s \in Slots : Open(s) => \E k \in 1..Len(boards) : boards[k].ioChan = s
      BY <1>1 DEF Inv, OrderlyInv
    <3>2. boards'[Len(boards) + 1].ioChan = f /\ Len(boards) + 1 \in 1..Len(boards')
      BY <1>6
    <3>. QED  BY <1>6, <2>3, <3>1, <3>2
  <2>. QED  BY <1>1, <1>3, <1>4, <2>1, <2>4, <2>5, <2>6, <2>7, BuildNextIs DEF OrderlyInv
<1>. QED  BY <1>6, <1>7, <1>8, <1>12, <1>13 DEF Inv

\* A port does not open: its slot is counted, and no board leads to it.
LEMMA OpenFailsStep ==
  ASSUME TypeRest, Inv, OpenFails, NEW a, a = Head(pending), NEW f, f = Free
  PROVE  TypeRest' /\ Inv'
<1>1. /\ phase = "building" /\ phase' = "up" /\ pending' = <<>>
      /\ UNCHANGED <<orderly, wiring, modules, detChans, driver>>
  BY DEF OpenFails, config
<1>2. /\ a \in Modules /\ wiring[a] = J /\ f \in Nat /\ f \in Slots /\ f + 1 \in 0..N
      /\ J \in ifaces => f = count[J]
      /\ J \notin ifaces => f = 0 /\ boards = <<>>
  BY <1>1, Building
<1>3. J' = J /\ J \in Ifaces
  BY <1>1, JKept, JIs
<1>4. /\ count' = Claimed(J) /\ name' = Names(J) /\ boards' = boards
      /\ handle' = IF J = "usb2" THEN [handle EXCEPT ![J][f] = None] ELSE handle
      /\ ifaces' = ifaces \cup {J}
  BY <1>2, SameBoards DEF OpenFails, Free, Inv
<1>5. /\ count' \in [Ifaces -> 0..N] /\ count'[J] = f + 1
      /\ \A i \in Ifaces \ {J} : count'[i] = count[i]
  <2>1. Initialized(J) \in [Ifaces -> 0..N] /\ \A i \in Ifaces \ {J} : Initialized(J)[i] = count[i]
    BY <1>3, SlotsAre DEF Initialized, TypeRest
  <2>2. count' = [Initialized(J) EXCEPT ![J] = f + 1]
    BY <1>4 DEF Claimed, Free
  <2>. QED  BY <1>2, <1>3, <2>1, <2>2
<1>6. /\ handle' \in [Ifaces -> [Slots -> Devices \cup {None}]]
      /\ \A t \in Slots : \/ handle'[J][t] = handle[J][t]
                          \/ handle'[J][t] = None /\ t = f /\ J = "usb2"
      /\ J = "usb2" => handle'[J][f] = None
      /\ \A i \in Ifaces \ {J} : handle'[i] = handle[i]
  <2>1. handle \in [Ifaces -> [Slots -> Devices \cup {None}]]
    BY DEF TypeRest
  <2>2. CASE J = "usb2"
    BY <1>2, <1>3, <1>4, <2>1, <2>2
  <2>3. CASE J # "usb2"
    BY <1>4, <2>1, <2>3
  <2>. QED  BY <2>2, <2>3
<1>7. /\ name' \in [Ifaces -> [Slots -> Devices \cup {None}]]
      /\ \A i \in Ifaces \ {J} : name'[i] = name[i]
      /\ J \in ifaces => name' = name
      /\ \A t \in Slots : \/ name'[J][t] = name[J][t]
                          \/ name'[J][t] = None /\ J = "serial" /\ J \notin ifaces
  BY <1>4, NamesAre
<1>8. /\ \A t \in Slots : Open(t)' => Open(t) /\ handle'[J][t] = handle[J][t]
      /\ J \in ifaces => \A t \in Slots \ {f} : Open(t)' <=> Open(t)
  <2>1. CASE J = "usb2"
    <3>1. \A t : /\ Open(t) <=> handle[J][t] # None
                 /\ Open(t)' <=> handle'[J][t] # None
      BY <1>3, <2>1 DEF Open, PortClosed
    <3>. QED  BY <1>6, <3>1
  <2>2. CASE J # "usb2"
    <3>1. \A t : /\ Open(t) <=> name[J][t] # None
                 /\ Open(t)' <=> name'[J][t] # None
      BY <1>3, <2>2 DEF Open, PortClosed
    <3>. QED  BY <1>6, <1>7, <2>2, <3>1
  <2>. QED  BY <2>1, <2>2
<1>9. TypeRest'
  <2>1. boards' = boards /\ ifaces' \subseteq Ifaces /\ pending' \in Seq(Modules)
    BY <1>1, <1>3, <1>4, EmptySeq DEF TypeRest
  <2>. QED  BY <1>1, <1>5, <1>6, <1>7, <2>1 DEF TypeRest
<1>10. ListsInv' /\ Unused'
  <2>1. ListsInv'
    BY <1>1 DEF Inv, ListsInv, Distinct
  <2>2. \A i \in Ifaces \ {J} : /\ count'[i] = count[i] /\ handle'[i] = handle[i]
                                /\ name'[i] = name[i] /\ driver'[i] = driver[i]
    BY <1>1, <1>5, <1>6, <1>7
  <2>3. Unused'
    BY <1>3, <2>2 DEF Inv, Unused
  <2>. QED  BY <2>1, <2>3
<1>11. BoardsInv'
  BY <1>1, <1>3, <1>4 DEF Inv, BoardsInv
<1>12. \A e \in Devices : Held(e) \in SUBSET Slots /\ Held(e)' \in SUBSET Held(e)
  BY <1>3, <1>8 DEF Held
<1>13. (\A k \in 1..Len(boards) :
            /\ boards[k].ioChan < count[J] /\ Open(boards[k].ioChan)
            /\ handle[J][boards[k].ioChan] = DeviceOf[boards[k].mod])'
  <2>1. ASSUME NEW k \in 1..Len(boards), NEW s, s = boards[k].ioChan
        PROVE  s < count'[J] /\ Open(s)' /\ handle'[J][s] = DeviceOf[boards[k].mod]
    <3>1. Open(s) /\ handle[J][s] = DeviceOf[boards[k].mod] /\ s < count[J] /\ s \in Slots
      BY <1>1, <2>1, TableTypes DEF Inv, TableInv, Board
    <3>2. J \in ifaces /\ f = count[J]
      BY <1>2, <2>1
    <3>3. s \in Slots \ {f} /\ s < f + 1
      BY <1>2, <3>1, <3>2, SlotsAre
    <3>. QED  BY <1>5, <1>8, <3>1, <3>2, <3>3
  <2>. QED  BY <1>3, <1>4, <2>1
<1>14. TableInv'
  <2>1. \A s \in Slots : Open(s)' => handle'[J][s] \in Devices
    BY <1>8 DEF Inv, TableInv
  <2>2. ASSUME NEW e \in Devices PROVE Cardinality(Held(e)') <= driver'[J][e]
    <3>1. Cardinality(Held(e)) <= driver[J][e] /\ driver[J][e] \in Nat
      BY TableTypes DEF Inv, TableInv
    <3>2. Cardinality(Held(e)') <= Cardinality(Held(e))
      BY <1>12, Fewer
    <3>3. Cardinality(Held(e)) \in Nat /\ Cardinality(Held(e)') \in Nat
      <4>1. Held(e) \in SUBSET Slots /\ Held(e)' \in SUBSET Slots
        BY <1>12
      <4>. QED  BY <4>1, SlotSets
    <3>. QED  BY <1>1, <3>1, <3>2, <3>3
  <2>3. Cardinality(Reached') <= count'[J']
    BY <1>3, <1>9, <1>13, ReachedBelowNext DEF BoardsBelow
  <2>. QED  BY <1>1, <1>3, <1>13, <2>1, <2>2, <2>3 DEF TableInv
<1>15. OrderlyInv'
  <2>. SUFFICES ASSUME orderly PROVE OrderlyInv'
    BY <1>1 DEF OrderlyInv
  <2>1. \A s \in Slots : Open(s) => J \in ifaces /\ s # f
    <3>1. \A s \in Slots : Open(s) => J \in ifaces /\ s < count[J]
      BY <1>1 DEF Inv, OrderlyInv
    <3>. QED  BY <1>2, <3>1, SlotsAre
  <2>2. \A t \in Slots : Open(t)' <=> Open(t)
    <3>1. CASE J \in ifaces
      BY <1>8, <2>1, <3>1
    <3>2. CASE J \notin ifaces
      BY <1>8, <2>1, <3>2
    <3>. QED  BY <3>1, <3>2
  <2>3. \A t \in Slots : name'[J][t] = IF Open(t)' THEN handle'[J][t] ELSE None
    <3>1. \A t \in Slots : name[J][t] = IF Open(t) THEN handle[J][t] ELSE None
      BY DEF Inv, OrderlyInv
    <3>2. \A t \in Slots : ~Open(t) => name'[J][t] = None
      BY <1>7, <3>1
    <3>3. \A t \in Slots : Open(t) => name'[J][t] = handle'[J][t]
      BY <1>7, <1>8, <2>1, <2>2, <3>1
    <3>. QED  BY <2>2, <3>2, <3>3
  <2>4. \A e \in Devices : Cardinality(Held(e)') = driver'[J][e]
    <3>1. \A e \in Devices : Held(e)' = Held(e)
      BY <1>3, <1>8, <2>2 DEF Held
    <3>. QED  BY <1>1, <3>1 DEF Inv, OrderlyInv
  <2>5. /\ \A s \in Slots : Open(s) => \E k \in 1..Len(boards) : boards[k].ioChan = s
        /\ \A k \in 1..Len(boards) : In(boards[k].mod, modules)
    BY <1>1 DEF Inv, OrderlyInv
  <2>. QED  BY <1>1, <1>3, <1>4, <2>2, <2>3, <2>4, <2>5 DEF OrderlyInv, In
<1>. QED  BY <1>10, <1>11, <1>9, <1>14, <1>15 DEF Inv

\* The loop ends early: every port that is open has its board already.
LEMMA BuildStopsStep ==
  ASSUME TypeRest, Inv, BuildStops
  PROVE  TypeRest' /\ Inv'
<1>. USE DEF Inv
<1>1. /\ phase = "building" /\ phase' = "up" /\ pending' = <<>>
      /\ UNCHANGED <<orderly, wiring, modules, detChans, boards, ifaces, count, name, handle,
                     driver>>
  BY DEF BuildStops, config, ports
<1>2. J' = J /\ (\A s : Open(s)' <=> Open(s)) /\ Reached' = Reached
      /\ \A d \in Devices : Held(d)' = Held(d)
  BY <1>1, PortsKept DEF ports
<1>3. TypeRest'
  BY <1>1 DEF TypeRest
<1>4. ListsInv' /\ BoardsInv' /\ Unused' /\ TableInv'
  BY <1>1, <1>2 DEF ListsInv, BoardsInv, Unused, TableInv, Distinct
<1>5. OrderlyInv'
  BY <1>1, <1>2 DEF OrderlyInv
<1>. QED  BY <1>3, <1>4, <1>5

-----------------------------------------------------------------------------
(* The closing loop. *)

\* What every step of the loop keeps.
LEMMA Closing ==
  ASSUME TypeRest, Inv, UnHookOne, NEW a, a = Head(pending)
  PROVE  /\ phase = "closing" /\ phase' = phase /\ pending' = Tail(pending) /\ a \in Modules
         /\ UNCHANGED <<orderly, wiring, modules, detChans, boards, ifaces>>
         /\ J' = J /\ J \in Ifaces
         /\ pending' \in Seq(Modules) /\ ListsInv' /\ BoardsInv'
         /\ \A b : In(b, pending') => In(b, pending)
         /\ \A b : In(b, pending) => In(b, pending') \/ b = a
         /\ orderly => \A k \in 1..Len(pending') : In(pending'[k], modules)
<1>1. /\ phase = "closing" /\ pending # <<>> /\ pending' = Tail(pending)
      /\ UNCHANGED <<orderly, wiring, modules, detChans, boards, ifaces, phase>>
  BY DEF UnHookOne, config
<1>2. /\ a \in Modules /\ pending' \in Seq(Modules) /\ Distinct(pending')
      /\ \A b : In(b, pending') => In(b, pending)
      /\ \A b : In(b, pending) => In(b, pending') \/ b = a
  BY <1>1, TailIs DEF TypeRest, Inv, ListsInv
<1>3. J' = J /\ J \in Ifaces
  BY <1>1, JKept, JIs
<1>4. ListsInv' /\ BoardsInv'
  BY <1>1, <1>2, <1>3 DEF Inv, ListsInv, BoardsInv
<1>5. orderly => \A k \in 1..Len(pending') : In(pending'[k], modules)
  <2>1. orderly => \A b : In(b, pending) => In(b, modules)
    BY <1>1 DEF Inv, OrderlyInv, In
  <2>. QED  BY <1>2, <2>1 DEF In
<1>. QED  BY <1>1, <1>2, <1>3, <1>4, <1>5

\* A detChan whose board is gone, whose port is closed or does not close.
LEMMA UnHookKeeps ==
  ASSUME TypeRest, Inv, UnHookOne, UNCHANGED ports, NEW a, a = Head(pending),
         \/ BoardsOf(a) = {}
         \/ \E k \in BoardsOf(a) : PortClosed(boards[k].iface, boards[k].ioChan)
         \/ ~orderly
  PROVE  TypeRest' /\ Inv'
<1>1. /\ phase = "closing" /\ phase' = phase /\ pending' = Tail(pending) /\ a \in Modules
      /\ UNCHANGED <<orderly, wiring, modules, detChans, boards, ifaces>>
      /\ J' = J /\ J \in Ifaces
      /\ pending' \in Seq(Modules) /\ ListsInv' /\ BoardsInv'
      /\ \A b : In(b, pending') => In(b, pending)
      /\ \A b : In(b, pending) => In(b, pending') \/ b = a
      /\ orderly => \A k \in 1..Len(pending') : In(pending'[k], modules)
  BY Closing
<1>2. /\ UNCHANGED <<count, name, handle, driver>> /\ Reached' = Reached
      /\ \A s : Open(s)' <=> Open(s)
      /\ \A d \in Devices : Held(d)' = Held(d)
  BY <1>1, PortsKept DEF ports
<1>3. TypeRest'
  BY <1>1, <1>2 DEF TypeRest
<1>4. Unused' /\ TableInv'
  BY <1>1, <1>2 DEF Inv, Unused, TableInv
<1>5. OrderlyInv'
  <2>. SUFFICES ASSUME orderly PROVE OrderlyInv'
    BY <1>1 DEF OrderlyInv
  <2>1. ASSUME NEW s \in Slots, Open(s)
        PROVE  \E k \in 1..Len(boards) : boards[k].ioChan = s /\ In(boards[k].mod, pending')
    <3>1. PICK k \in 1..Len(boards) : boards[k].ioChan = s /\ In(boards[k].mod, pending)
      BY <1>1, <2>1 DEF Inv, OrderlyInv
    <3>2. boards[k].mod # a
      <4>. SUFFICES ASSUME boards[k].mod = a PROVE FALSE
        OBVIOUS
      <4>1. k \in BoardsOf(a) /\ \A l \in BoardsOf(a) : l = k
        BY DEF BoardsOf, Inv, BoardsInv
      <4>2. PortClosed(boards[k].iface, boards[k].ioChan)
        BY <4>1
      <4>3. boards[k].iface = J
        BY DEF Inv, BoardsInv
      <4>. QED  BY <2>1, <3>1, <4>2, <4>3 DEF Open
    <3>. QED  BY <1>1, <3>1, <3>2
  <2>2. \A k \in 1..Len(pending') : In(pending'[k], modules)
    BY <1>1
  <2>. QED  BY <1>1, <1>2, <2>1, <2>2 DEF Inv, OrderlyInv
<1>. QED  BY <1>1, <1>3, <1>4, <1>5 DEF Inv

\* The tables once the port of slot s is closed.
LEMMA ClosePortIs ==
  ASSUME TypeRest, Inv, NEW s \in Slots, ClosePort(J, s), s \in Reached, NEW d, d = handle[J][s],
         J' = J
  PROVE  /\ Open(s) /\ d \in Devices /\ ~Open(s)'
         /\ \A t \in Slots \ {s} : Open(t)' <=> Open(t)
         /\ count' \in [Ifaces -> 0..N] /\ count'[J] = count[J] - 1
         /\ name' \in [Ifaces -> [Slots -> Devices \cup {None}]] /\ name'[J][s] = None
         /\ handle' \in [Ifaces -> [Slots -> Devices \cup {None}]]
         /\ driver' \in [Ifaces -> [Devices -> 0..MaxOpen]] /\ driver'[J][d] = driver[J][d] - 1
         /\ \A t \in Slots \ {s} : handle'[J][t] = handle[J][t] /\ name'[J][t] = name[J][t]
         /\ \A e \in Devices \ {d} : driver'[J][e] = driver[J][e]
         /\ \A i \in Ifaces \ {J} : /\ count'[i] = count[i] /\ handle'[i] = handle[i]
                                    /\ name'[i] = name[i] /\ driver'[i] = driver[i]
         /\ Cardinality(Reached) <= count[J] /\ Cardinality(Held(d)) <= driver[J][d]
<1>1. J \in Ifaces
  BY JIs
<1>2. Open(s) /\ d \in Devices
  BY DEF ClosePort, Open, Inv, TableInv
<1>3. s \in Held(d) /\ Held(d) \in SUBSET Slots /\ Reached \in SUBSET Slots
  BY <1>2 DEF Held, Reached
<1>4. Cardinality(Held(d)) > 0 /\ Cardinality(Held(d)) <= driver[J][d]
      /\ Cardinality(Reached) > 0 /\ Cardinality(Reached) <= count[J]
  BY <1>2, <1>3, OneLess DEF Inv, TableInv
<1>5. count[J] - 1 \in 0..N /\ driver[J][d] - 1 \in 0..MaxOpen
  <2>1. Cardinality(Held(d)) \in Nat /\ Cardinality(Reached) \in Nat
    BY <1>3, SlotSets
  <2>2. count[J] \in 0..N /\ count[J] > 0 /\ driver[J][d] \in 0..MaxOpen /\ driver[J][d] > 0
    BY <1>2, <1>4, <2>1, TableTypes
  <2>. QED  BY <2>2, SlotsAre, DeviceAssumption
<1>6. /\ count' \in [Ifaces -> 0..N] /\ count'[J] = count[J] - 1
      /\ \A i \in Ifaces \ {J} : count'[i] = count[i]
  BY <1>1, <1>5 DEF ClosePort, TypeRest
<1>7. /\ driver' \in [Ifaces -> [Devices -> 0..MaxOpen]] /\ driver'[J][d] = driver[J][d] - 1
      /\ \A e \in Devices \ {d} : driver'[J][e] = driver[J][e]
      /\ \A i \in Ifaces \ {J} : driver'[i] = driver[i]
  BY <1>1, <1>2, <1>5 DEF ClosePort, TypeRest
<1>8. /\ name' \in [Ifaces -> [Slots -> Devices \cup {None}]] /\ name'[J][s] = None
      /\ \A t \in Slots \ {s} : name'[J][t] = name[J][t]
      /\ \A i \in Ifaces \ {J} : name'[i] = name[i]
  BY <1>1 DEF ClosePort, NamesReleased, TypeRest
<1>9. /\ handle' \in [Ifaces -> [Slots -> Devices \cup {None}]]
      /\ J = "usb2" => handle'[J][s] = None
      /\ \A t \in Slots \ {s} : handle'[J][t] = handle[J][t]
      /\ \A i \in Ifaces \ {J} : handle'[i] = handle[i]
  <2>1. handle \in [Ifaces -> [Slots -> Devices \cup {None}]]
    BY DEF TypeRest
  <2>2. CASE J = "usb2"
    <3>1. handle' = [handle EXCEPT ![J][s] = None]
      BY <2>2 DEF ClosePort, Released
    <3>. QED  BY <1>1, <2>1, <3>1
  <2>3. CASE J # "usb2"
    <3>1. handle' = handle
      BY <2>3 DEF ClosePort, Released
    <3>. QED  BY <2>1, <2>3, <3>1
  <2>. QED  BY <2>2, <2>3
<1>10. ~Open(s)' /\ \A t \in Slots \ {s} : Open(t)' <=> Open(t)
  BY <1>8, <1>9 DEF Open, PortClosed
<1>. QED  BY <1>2, <1>4, <1>6, <1>7, <1>8, <1>9, <1>10

\* A detChan whose port is closed.
LEMMA UnHookCloses ==
  ASSUME TypeRest, Inv, UnHookOne, NEW a, a = Head(pending),
         NEW k \in BoardsOf(a), NEW s, s = boards[k].ioChan, ClosePort(boards[k].iface, s),
         NEW d, d = handle[J][s]
  PROVE  TypeRest' /\ Inv'
<1>1. /\ phase = "closing" /\ phase' = phase /\ pending' = Tail(pending) /\ a \in Modules
      /\ UNCHANGED <<orderly, wiring, modules, detChans, boards, ifaces>>
      /\ J' = J /\ J \in Ifaces
      /\ pending' \in Seq(Modules) /\ ListsInv' /\ BoardsInv'
      /\ \A b : In(b, pending') => In(b, pending)
      /\ \A b : In(b, pending) => In(b, pending') \/ b = a
      /\ orderly => \A l \in 1..Len(pending') : In(pending'[l], modules)
  BY Closing
<1>2. k \in 1..Len(boards) /\ boards[k].mod = a /\ boards[k].iface = J /\ s \in Slots
  <2>1. k \in 1..Len(boards) /\ boards[k].mod = a
    BY DEF BoardsOf
  <2>2. boards[k].iface = J /\ boards[k] \in Board
    BY <2>1, TableTypes DEF Inv, BoardsInv
  <2>. QED  BY <2>1, <2>2 DEF Board
<1>3. ClosePort(J, s) /\ s \in Reached
  BY <1>2 DEF ClosePort, Reached, Open
<1>4. /\ Open(s) /\ d \in Devices /\ ~Open(s)'
      /\ \A t \in Slots \ {s} : Open(t)' <=> Open(t)
      /\ count' \in [Ifaces -> 0..N] /\ count'[J] = count[J] - 1
      /\ name' \in [Ifaces -> [Slots -> Devices \cup {None}]] /\ name'[J][s] = None
      /\ handle' \in [Ifaces -> [Slots -> Devices \cup {None}]]
      /\ driver' \in [Ifaces -> [Devices -> 0..MaxOpen]] /\ driver'[J][d] = driver[J][d] - 1
      /\ \A t \in Slots \ {s} : handle'[J][t] = handle[J][t] /\ name'[J][t] = name[J][t]
      /\ \A e \in Devices \ {d} : driver'[J][e] = driver[J][e]
      /\ \A i \in Ifaces \ {J} : /\ count'[i] = count[i] /\ handle'[i] = handle[i]
                                 /\ name'[i] = name[i] /\ driver'[i] = driver[i]
      /\ Cardinality(Reached) <= count[J] /\ Cardinality(Held(d)) <= driver[J][d]
  BY <1>1, <1>2, <1>3, ClosePortIs
<1>5. TypeRest'
  BY <1>1, <1>4 DEF TypeRest
<1>6. Unused'
  <2>1. \A i \in Ifaces \ {J} : /\ count'[i] = count[i] /\ handle'[i] = handle[i]
                                /\ name'[i] = name[i] /\ driver'[i] = driver[i]
    BY <1>4
  <2>. QED  BY <1>1, <2>1 DEF Inv, Unused
<1>7. /\ Held(d) \in SUBSET Slots /\ s \in Held(d) /\ Held(d)' = Held(d) \ {s}
      /\ \A e \in Devices \ {d} : Held(e)' = Held(e)
  <2>1. \A e \in Devices : \A t \in Slots \ {s} : t \in Held(e)' <=> t \in Held(e)
    BY <1>1, <1>4 DEF Held
  <2>2. \A e \in Devices : s \notin Held(e)'
    BY <1>4 DEF Held
  <2>3. s \in Held(d) /\ \A e \in Devices \ {d} : s \notin Held(e)
    BY <1>2, <1>4 DEF Held
  <2>4. \A e \in Devices : Held(e) \in SUBSET Slots /\ Held(e)' \in SUBSET Slots
    BY DEF Held
  <2>5. Held(d)' = Held(d) \ {s}
    BY <1>4, <2>1, <2>2, <2>4
  <2>6. ASSUME NEW e \in Devices \ {d} PROVE Held(e)' = Held(e)
    <3>1. Held(e) \in SUBSET Slots /\ Held(e)' \in SUBSET Slots
      BY <2>4
    <3>2. \A t \in Slots : t \in Held(e)' <=> t \in Held(e)
      BY <2>1, <2>2, <2>3
    <3>. QED  BY <3>1, <3>2
  <2>. QED  BY <1>4, <2>3, <2>4, <2>5, <2>6
<1>8. Cardinality(Held(d)') = Cardinality(Held(d)) - 1
  BY <1>7, OneLess
<1>9. Reached \in SUBSET Slots /\ Reached' = Reached \ {s}
  BY <1>1, <1>4 DEF Reached
<1>10. Cardinality(Reached') = Cardinality(Reached) - 1
  BY <1>3, <1>9, OneLess
<1>11. TableInv'
  <2>1. \A t \in Slots : Open(t)' => handle'[J][t] \in Devices
    BY <1>4 DEF Inv, TableInv
  <2>2. ASSUME NEW e \in Devices PROVE Cardinality(Held(e)') <= driver'[J][e]
    <3>1. CASE e = d
      <4>1. Cardinality(Held(d)) \in Nat /\ driver[J][d] \in Nat
        BY <1>4, <1>7, SlotSets, TableTypes
      <4>2. driver'[J][d] = driver[J][d] - 1 /\ Cardinality(Held(d)) <= driver[J][d]
        BY <1>4
      <4>. QED  BY <1>8, <3>1, <4>1, <4>2, SMTT(30)
    <3>2. CASE e # d
      BY <1>4, <1>7, <3>2 DEF Inv, TableInv
    <3>. QED  BY <3>1, <3>2
  <2>3. Cardinality(Reached') <= count'[J]
    <3>1. Cardinality(Reached) \in Nat /\ count[J] \in Nat
      BY <1>9, SlotSets, TableTypes
    <3>. QED  BY <1>4, <1>10, <3>1
  <2>. QED  BY <1>1, <2>1, <2>2, <2>3 DEF TableInv
<1>12. OrderlyInv'
  <2>. SUFFICES ASSUME orderly PROVE OrderlyInv'
    BY <1>1 DEF OrderlyInv
  <2>1. \A t \in Slots : name'[J][t] = IF Open(t)' THEN handle'[J][t] ELSE None
    <3>1. \A t \in Slots : name[J][t] = IF Open(t) THEN handle[J][t] ELSE None
      BY DEF Inv, OrderlyInv
    <3>. QED  BY <1>4, <3>1, SMTT(30)
  <2>2. ASSUME NEW e \in Devices PROVE Cardinality(Held(e)') = driver'[J][e]
    <3>1. Cardinality(Held(e)) = driver[J][e]
      BY DEF Inv, OrderlyInv
    <3>2. CASE e = d
      BY <1>4, <1>8, <3>1, <3>2
    <3>3. CASE e # d
      BY <1>4, <1>7, <3>1, <3>3
    <3>. QED  BY <3>2, <3>3
  <2>3. ASSUME NEW t \in Slots, Open(t)'
        PROVE  \E l \in 1..Len(boards) : boards[l].ioChan = t /\ In(boards[l].mod, pending')
    <3>1. t # s /\ Open(t)
      BY <1>2, <1>4, <2>3
    <3>2. PICK l \in 1..Len(boards) : boards[l].ioChan = t /\ In(boards[l].mod, pending)
      BY <1>1, <3>1 DEF Inv, OrderlyInv
    <3>3. boards[l].mod # a
      BY <1>2, <3>1, <3>2 DEF Inv, BoardsInv
    <3>. QED  BY <1>1, <3>2, <3>3
  <2>4. \A l \in 1..Len(pending') : In(pending'[l], modules)
    BY <1>1
  <2>. QED  BY <1>1, <2>1, <2>2, <2>3, <2>4 DEF OrderlyInv
<1>. QED  BY <1>1, <1>5, <1>6, <1>11, <1>12 DEF Inv

\* A step of the walk closes the port of a detChan, or leaves the tables alone.
LEMMA UnHookOneStep ==
  ASSUME TypeRest, Inv, UnHookOne
  PROVE  TypeRest' /\ Inv'
<1>. DEFINE a == Head(pending)
<1>1. CASE BoardsOf(a) = {} /\ UNCHANGED ports
  BY <1>1, UnHookKeeps
<1>2. ASSUME NEW k \in BoardsOf(a),
             \/ KeepPorts(boards[k].iface, boards[k].ioChan)
             \/ ~orderly /\ UNCHANGED ports
      PROVE  TypeRest' /\ Inv'
  BY <1>2, UnHookKeeps DEF KeepPorts
<1>3. ASSUME NEW k \in BoardsOf(a), ClosePort(boards[k].iface, boards[k].ioChan)
      PROVE  TypeRest' /\ Inv'
  BY <1>3, UnHookCloses
<1>. QED  BY <1>1, <1>2, <1>3 DEF UnHookOne

-----------------------------------------------------------------------------
(* Systems of several interfaces. *)

\* The slot a board leads to holds its device, whatever its interface says.
Holds(m, s) == handle[wiring[m]][s] = DeviceOf[m] /\ ~PortClosed(wiring[m], s)

\* The types that hold for any wiring; a counter may be below zero.
AnyTypes ==
    /\ wiring \in [Modules -> Ifaces]
    /\ modules \in Seq(Modules) /\ detChans \in Seq(Modules)
    /\ Distinct(modules) /\ Distinct(detChans)
    /\ \A a \in Modules : In(a, modules) => In(a, detChans)
    /\ boards \in Seq(Board)
    /\ ifaces \subseteq Ifaces
    /\ count \in [Ifaces -> Int]
    /\ name \in [Ifaces -> [Slots -> Devices \cup {None}]]
    /\ handle \in [Ifaces -> [Slots -> Devices \cup {None}]]

BuiltInv ==
    /\ AnyTypes
    /\ phase \in {"building", "up"} =>
           \A k \in 1..Len(boards) : Holds(boards[k].mod, boards[k].ioChan)
    /\ phase = "building" =>
           /\ pending \in Seq(Modules) /\ pending # <<>>
           /\ Len(boards) + Len(pending) <= N
           /\ \A i \in ifaces :
                  /\ count[i] \in 0..Len(boards)
                  /\ \A s \in Slots : s < count[i] =>
                         name[i][s] = handle[i][s] /\ name[i][s] \in Devices
           /\ \A k \in 1..Len(boards) :
                  LET i == wiring[boards[k].mod] IN
                  i \in ifaces /\ boards[k].ioChan < count[i]

\* The boards keep their modules and slots when the last one's interface is changed.
LEMMA WithIfaceKeeps ==
  ASSUME AnyTypes, NEW i \in Ifaces, NEW list, list = WithIface(i)
  PROVE  /\ list \in Seq(Board) /\ Len(list) = Len(boards)
         /\ \A k \in 1..Len(boards) :
                list[k].mod = boards[k].mod /\ list[k].ioChan = boards[k].ioChan
<1>1. boards \in Seq(Board)
  BY DEF AnyTypes
<1>2. CASE boards = <<>>
  BY <1>1, <1>2 DEF WithIface
<1>3. CASE boards # <<>>
  <2>. DEFINE n == Len(boards)
              b == [boards[n] EXCEPT !.iface = i]
  <2>1. n \in Nat /\ n \in 1..n /\ \A k \in 1..n : boards[k] \in Board
    BY <1>1, <1>3
  <2>2. b \in Board /\ b.mod = boards[n].mod /\ b.ioChan = boards[n].ioChan
    BY <2>1 DEF Board
  <2>3. list = [boards EXCEPT ![n] = b]
    BY <1>3 DEF WithIface
  <2>. HIDE DEF b, n
  <2>4. list \in Seq(Board) /\ Len(list) = Len(boards)
        /\ \A k \in 1..Len(boards) : list[k] = IF k = n THEN b ELSE boards[k]
    BY <1>1, <2>1, <2>2, <2>3, ExceptSeq DEF n
  <2>. QED  BY <2>2, <2>4 DEF n
<1>. QED  BY <1>2, <1>3

\* Module a, its interface i and the slot f that its port would take.
PortFacts(a, i, f) ==
    /\ a \in Modules /\ i \in Ifaces /\ DeviceOf[a] \in Devices
    /\ Tail(pending) \in Seq(Modules) /\ Len(Tail(pending)) \in Nat
    /\ Len(boards) \in Nat /\ Len(boards) + 1 + Len(Tail(pending)) <= N
    /\ f \in Slots /\ f \in Nat /\ f <= Len(boards)
    /\ i \in ifaces => f = count[i] /\ Initialized(i) = count /\ Names(i) = name
    /\ i \notin ifaces => f = 0 /\ \A k \in 1..Len(boards) : wiring[boards[k].mod] # i
    /\ Initialized(i) \in [Ifaces -> Int]
    /\ Names(i) \in [Ifaces -> [Slots -> Devices \cup {None}]]
    /\ \A j \in Ifaces \ {i} : Initialized(i)[j] = count[j] /\ Names(i)[j] = name[j]

\* The table of the next module's interface, and the slot a port would take.
LEMMA NextPort ==
  ASSUME BuiltInv, phase = "building", NEW a, a = Head(pending), NEW i, i = wiring[a],
         NEW f, f = Initialized(i)[i]
  PROVE  PortFacts(a, i, f)
<1>. USE DEF AnyTypes, PortFacts
<1>1. pending \in Seq(Modules) /\ pending # <<>> /\ boards \in Seq(Board)
  BY DEF BuiltInv
<1>2. /\ a \in Modules /\ Tail(pending) \in Seq(Modules)
      /\ Len(Tail(pending)) = Len(pending) - 1 /\ Len(Tail(pending)) \in Nat
  BY <1>1, TailIs
<1>3. i \in Ifaces /\ DeviceOf[a] \in Devices
  BY <1>2 DEF BuiltInv, Devices
<1>4. Len(boards) \in Nat /\ Len(boards) + 1 + Len(Tail(pending)) <= N
  BY <1>1, <1>2, SlotsAre DEF BuiltInv
<1>5. count \in [Ifaces -> Int] /\ name \in [Ifaces -> [Slots -> Devices \cup {None}]]
  BY DEF BuiltInv
<1>6. CASE i \in ifaces
  <2>1. Initialized(i) = count /\ Names(i) = name
    BY <1>6 DEF Initialized, Names
  <2>2. f \in Nat /\ f <= Len(boards)
    BY <1>4, <1>6, <2>1 DEF BuiltInv
  <2>3. f \in Slots
    BY <1>2, <1>4, <2>2, SlotsAre
  <2>. QED  BY <1>2, <1>3, <1>4, <1>5, <1>6, <2>1, <2>2, <2>3
<1>7. CASE i \notin ifaces
  <2>1. Initialized(i) = [count EXCEPT ![i] = 0]
    BY <1>7 DEF Initialized
  <2>2. f = 0 /\ f \in Nat /\ f \in Slots /\ f <= Len(boards)
    BY <1>2, <1>3, <1>4, <1>5, <2>1, SlotsAre
  <2>3. \A k \in 1..Len(boards) : wiring[boards[k].mod] # i
    BY <1>7 DEF BuiltInv
  <2>4. /\ Names(i) \in [Ifaces -> [Slots -> Devices \cup {None}]]
        /\ \A j \in Ifaces \ {i} : Names(i)[j] = name[j]
    <3>1. CASE i = "serial"
      <4>1. Names(i) = [name EXCEPT ![i] = [s \in Slots |-> None]]
        BY <1>7, <3>1 DEF Names
      <4>2. [s \in Slots |-> None] \in [Slots -> Devices \cup {None}]
        OBVIOUS
      <4>. QED  BY <1>5, <4>1, <4>2
    <3>2. CASE i # "serial"
      BY <1>5, <3>2 DEF Names
    <3>. QED  BY <3>1, <3>2
  <2>. QED  BY <1>2, <1>3, <1>4, <1>5, <1>7, <2>1, <2>2, <2>3, <2>4
<1>. QED  BY <1>6, <1>7

\* A board is added for the module whose port is open.
LEMMA BoardGrown ==
  ASSUME BuiltInv, phase = "building", NEW a, a = Head(pending), NEW i, i = wiring[a],
         NEW s \in Slots, AddBoard(a, i, s)
  PROVE  /\ boards' \in Seq(Board) /\ Len(boards') = Len(boards) + 1
         /\ 1..Len(boards') = 1..Len(boards) \cup {Len(boards) + 1}
         /\ \A k \in 1..Len(boards) :
                boards'[k].mod = boards[k].mod /\ boards'[k].ioChan = boards[k].ioChan
         /\ boards'[Len(boards) + 1].mod = a /\ boards'[Len(boards) + 1].ioChan = s
<1>. DEFINE list == WithIface(i)
            b == [mod |-> a, iface |-> i, ioChan |-> s]
<1>1. a \in Modules /\ i \in Ifaces /\ b \in Board /\ b.mod = a /\ b.ioChan = s
  BY NextPort DEF Board, PortFacts
<1>2. /\ list \in Seq(Board) /\ Len(list) = Len(boards)
      /\ \A k \in 1..Len(boards) :
             list[k].mod = boards[k].mod /\ list[k].ioChan = boards[k].ioChan
  BY <1>1, WithIfaceKeeps DEF BuiltInv
<1>3. boards' = Append(list, b)
  BY DEF AddBoard
<1>. HIDE DEF list, b
<1>4. /\ boards' \in Seq(Board) /\ Len(boards') = Len(list) + 1
      /\ \A k \in 1..Len(list) : boards'[k] = list[k]
      /\ boards'[Len(list) + 1] = b
  BY <1>1, <1>2, <1>3, AppendProperties
<1>5. Len(boards) \in Nat
  BY NextPort DEF PortFacts
<1>. QED  BY <1>1, <1>2, <1>4, <1>5

\* The types, where the configuration is left alone.
LEMMA AnyTypesKept ==
  ASSUME AnyTypes, UNCHANGED <<wiring, modules, detChans>>,
         boards' \in Seq(Board), NEW i \in Ifaces, ifaces' = ifaces \cup {i},
         count' \in [Ifaces -> Int],
         name' \in [Ifaces -> [Slots -> Devices \cup {None}]],
         handle' \in [Ifaces -> [Slots -> Devices \cup {None}]]
  PROVE  AnyTypes'
BY DEF AnyTypes, Distinct, In

\* A board shares a slot of its own interface.
LEMMA SharedSlotHolds ==
  ASSUME BuiltInv, ShareSlot, NEW a, a = Head(pending), NEW i, i = wiring[a]
  PROVE  BuiltInv'
<1>1. phase = "building" /\ BuildNext /\ UNCHANGED <<wiring, modules, detChans, handle>>
  BY DEF ShareSlot, config
<1>2. /\ a \in Modules /\ i \in Ifaces /\ DeviceOf[a] \in Devices
      /\ Tail(pending) \in Seq(Modules) /\ Len(Tail(pending)) \in Nat
      /\ Len(boards) \in Nat /\ Len(boards) + 1 + Len(Tail(pending)) <= N
      /\ i \in ifaces => Initialized(i) = count /\ Names(i) = name
      /\ i \notin ifaces => Initialized(i)[i] = 0
  <2>1. PortFacts(a, i, Initialized(i)[i])
    BY <1>1, NextPort
  <2>. QED  BY <2>1 DEF PortFacts
<1>3. PICK s \in Matching(i, DeviceOf[a]) :
          /\ count' = Initialized(i) /\ name' = Names(i) /\ AddBoard(a, i, s)
          /\ ifaces' = ifaces \cup {i}
  BY DEF ShareSlot
<1>4. s \in Slots /\ s \in Nat /\ s < Initialized(i)[i] /\ Names(i)[i][s] = DeviceOf[a]
  BY <1>3, SlotsAre DEF Matching
<1>5. i \in ifaces
  BY <1>2, <1>4
<1>6. /\ count' = count /\ name' = name /\ ifaces' = ifaces
      /\ s < count[i] /\ name[i][s] = DeviceOf[a]
  BY <1>2, <1>3, <1>4, <1>5
<1>7. Holds(a, s)
  <2>1. handle[i][s] = DeviceOf[a]
    BY <1>1, <1>4, <1>5, <1>6 DEF BuiltInv
  <2>. QED  BY <1>2, <1>6, <2>1, DeviceAssumption DEF Holds, PortClosed
<1>8. \A m, t : Holds(m, t)' <=> Holds(m, t)
  BY <1>1, <1>6 DEF Holds, PortClosed
<1>9. /\ boards' \in Seq(Board) /\ Len(boards') = Len(boards) + 1
      /\ 1..Len(boards') = 1..Len(boards) \cup {Len(boards) + 1}
      /\ \A k \in 1..Len(boards) :
             boards'[k].mod = boards[k].mod /\ boards'[k].ioChan = boards[k].ioChan
      /\ boards'[Len(boards) + 1].mod = a /\ boards'[Len(boards) + 1].ioChan = s
  BY <1>1, <1>3, <1>4, BoardGrown
<1>10. AnyTypes'
  BY <1>1, <1>6, <1>9 DEF BuiltInv, AnyTypes, Distinct, In
<1>11. \A k \in 1..Len(boards') : /\ Holds(boards'[k].mod, boards'[k].ioChan)
                                  /\ wiring[boards'[k].mod] \in ifaces
                                  /\ boards'[k].ioChan < count[wiring[boards'[k].mod]]
  <2>1. \A k \in 1..Len(boards) : /\ Holds(boards[k].mod, boards[k].ioChan)
                                  /\ wiring[boards[k].mod] \in ifaces
                                  /\ boards[k].ioChan < count[wiring[boards[k].mod]]
    BY <1>1 DEF BuiltInv
  <2>. QED  BY <1>5, <1>6, <1>7, <1>9, <2>1
<1>12. \A k \in 1..Len(boards') : Holds(boards[k].mod, boards[k].ioChan)'
  BY <1>8, <1>11
<1>13. phase' = "building" =>
           /\ pending' \in Seq(Modules) /\ pending' # <<>>
           /\ Len(boards') + Len(pending') <= N
  BY <1>1, <1>2, <1>9 DEF BuildNext
<1>14. \A j \in ifaces : /\ count[j] \in 0..Len(boards')
                         /\ \A t \in Slots : t < count[j] =>
                                name[j][t] = handle[j][t] /\ name[j][t] \in Devices
  BY <1>1, <1>2, <1>9 DEF BuiltInv
<1>. QED  BY <1>1, <1>6, <1>10, <1>11, <1>12, <1>13, <1>14 DEF BuiltInv

\* A port takes a slot of its own interface that no board leads to.
LEMMA OpenedSlotHolds ==
  ASSUME BuiltInv, OpenSlot, NEW a, a = Head(pending), NEW i, i = wiring[a],
         NEW d, d = DeviceOf[a], NEW f, f = Initialized(i)[i]
  PROVE  BuiltInv'
<1>1. phase = "building" /\ BuildNext /\ UNCHANGED <<wiring, modules, detChans>>
  BY DEF OpenSlot, config
<1>2. /\ a \in Modules /\ i \in Ifaces /\ d \in Devices
      /\ Tail(pending) \in Seq(Modules) /\ Len(Tail(pending)) \in Nat
      /\ Len(boards) \in Nat /\ Len(boards) + 1 + Len(Tail(pending)) <= N
      /\ f \in Slots /\ f \in Nat /\ f <= Len(boards)
      /\ i \in ifaces => f = count[i] /\ Names(i) = name
      /\ i \notin ifaces => f = 0 /\ \A k \in 1..Len(boards) : wiring[boards[k].mod] # i
      /\ Initialized(i) \in [Ifaces -> Int]
      /\ Names(i) \in [Ifaces -> [Slots -> Devices \cup {None}]]
      /\ \A j \in Ifaces \ {i} : Initialized(i)[j] = count[j] /\ Names(i)[j] = name[j]
  <2>1. PortFacts(a, i, f)
    BY <1>1, NextPort
  <2>. QED  BY <2>1 DEF PortFacts
<1>3. /\ count' = Claimed(i)
      /\ handle' = [handle EXCEPT ![i][f] = d]
      /\ name' = [Names(i) EXCEPT ![i][f] = d]
      /\ AddBoard(a, i, f) /\ ifaces' = ifaces \cup {i}
  BY DEF OpenSlot
<1>4. /\ count' \in [Ifaces -> Int] /\ count'[i] = f + 1
      /\ \A j \in Ifaces \ {i} : count'[j] = count[j]
  <2>1. count' = [Initialized(i) EXCEPT ![i] = f + 1]
    BY <1>3 DEF Claimed
  <2>. QED  BY <1>2, <2>1
<1>5. /\ handle' \in [Ifaces -> [Slots -> Devices \cup {None}]] /\ handle'[i][f] = d
      /\ \A t \in Slots \ {f} : handle'[i][t] = handle[i][t]
      /\ \A j \in Ifaces \ {i} : handle'[j] = handle[j]
  <2>1. handle \in [Ifaces -> [Slots -> Devices \cup {None}]]
    BY DEF BuiltInv, AnyTypes
  <2>. QED  BY <1>2, <1>3, <2>1
<1>6. /\ name' \in [Ifaces -> [Slots -> Devices \cup {None}]] /\ name'[i][f] = d
      /\ \A t \in Slots \ {f} : name'[i][t] = Names(i)[i][t]
      /\ \A j \in Ifaces \ {i} : name'[j] = name[j]
  BY <1>2, <1>3
<1>7. /\ boards' \in Seq(Board) /\ Len(boards') = Len(boards) + 1
      /\ 1..Len(boards') = 1..Len(boards) \cup {Len(boards) + 1}
      /\ \A k \in 1..Len(boards) :
             boards'[k].mod = boards[k].mod /\ boards'[k].ioChan = boards[k].ioChan
      /\ boards'[Len(boards) + 1].mod = a /\ boards'[Len(boards) + 1].ioChan = f
  <2>1. phase = "building" /\ f \in Slots /\ AddBoard(a, i, f)
    BY <1>1, <1>2, <1>3
  <2>. QED  BY <2>1, BoardGrown
<1>8. AnyTypes'
  BY <1>1, <1>2, <1>3, <1>4, <1>5, <1>6, <1>7, AnyTypesKept DEF BuiltInv
<1>9. Holds(a, f)'
  BY <1>1, <1>2, <1>5, <1>6, DeviceAssumption DEF Holds, PortClosed
<1>10. ASSUME NEW k \in 1..Len(boards), NEW m, m = boards[k].mod, NEW s, s = boards[k].ioChan,
              NEW j, j = wiring[m]
       PROVE  Holds(m, s)' /\ j \in ifaces' /\ s < count'[j]
  <2>0. boards[k] \in Board /\ ifaces \subseteq Ifaces
    BY DEF BuiltInv, AnyTypes
  <2>1. Holds(m, s) /\ j \in ifaces /\ s < count[j]
    BY <1>1, <1>10 DEF BuiltInv
  <2>4. s \in Slots /\ j \in Ifaces
    BY <1>10, <2>0, <2>1, SMTT(30) DEF Board
  <2>2. CASE j # i
    <3>1. handle'[j] = handle[j] /\ name'[j] = name[j] /\ count'[j] = count[j]
      BY <1>4, <1>5, <1>6, <2>2, <2>4
    <3>. QED  BY <1>1, <1>3, <1>10, <2>1, <3>1 DEF Holds, PortClosed
  <2>3. CASE j = i
    <3>1. i \in ifaces /\ f = count[i] /\ Names(i) = name
      BY <1>2, <2>1, <2>3
    <3>2. s \in Nat /\ s < f + 1 /\ s \in Slots \ {f}
      BY <1>2, <2>1, <2>3, <2>4, <3>1, SlotsAre
    <3>3. handle'[i][s] = handle[i][s] /\ name'[i][s] = name[i][s]
      BY <1>5, <1>6, <3>1, <3>2
    <3>4. Holds(m, s)'
      BY <1>1, <1>10, <2>1, <2>3, <3>3 DEF Holds, PortClosed
    <3>. QED  BY <1>3, <1>4, <2>1, <2>3, <3>2, <3>4
  <2>. QED  BY <2>2, <2>3
<1>11. ASSUME NEW k \in 1..Len(boards')
       PROVE  /\ Holds(boards[k].mod, boards[k].ioChan)'
              /\ wiring[boards'[k].mod] \in ifaces'
              /\ boards'[k].ioChan < count'[wiring[boards'[k].mod]]
  <2>1. CASE k \in 1..Len(boards)
    BY <1>7, <1>10, <2>1
  <2>2. CASE k = Len(boards) + 1
    BY <1>2, <1>3, <1>4, <1>7, <1>9, <2>2
  <2>. QED  BY <1>7, <2>1, <2>2
<1>12. phase' = "building" =>
           /\ pending' \in Seq(Modules) /\ pending' # <<>>
           /\ Len(boards') + Len(pending') <= N
  BY <1>1, <1>2, <1>7 DEF BuildNext
<1>13. ASSUME NEW j \in ifaces'
       PROVE  /\ count'[j] \in 0..Len(boards')
              /\ \A t \in Slots : t < count'[j] =>
                     name'[j][t] = handle'[j][t] /\ name'[j][t] \in Devices
  <2>1. CASE j # i
    <3>1. j \in ifaces /\ j \in Ifaces \ {i}
      BY <1>3, <2>1 DEF BuiltInv, AnyTypes
    <3>2. handle'[j] = handle[j] /\ name'[j] = name[j] /\ count'[j] = count[j]
      BY <1>4, <1>5, <1>6, <3>1
    <3>. QED  BY <1>1, <1>2, <1>7, <3>1, <3>2 DEF BuiltInv
  <2>2. CASE j = i
    <3>1. f + 1 \in 0..Len(boards')
      BY <1>2, <1>7
    <3>2. ASSUME NEW t \in Slots, t < f + 1
          PROVE  name'[i][t] = handle'[i][t] /\ name'[i][t] \in Devices
      <4>1. CASE t = f
        <5>1. handle'[i][f] = d /\ name'[i][f] = d /\ d \in Devices
          BY <1>2, <1>5, <1>6
        <5>. QED  BY <4>1, <5>1
      <4>2. CASE t # f
        <5>0. t \in Nat /\ f \in Nat
          BY <1>2, SlotsAre
        <5>1. t \in Nat /\ t < f
          BY <3>2, <4>2, <5>0
        <5>2. i \in ifaces /\ f = count[i] /\ Names(i) = name
          BY <1>2, <5>1
        <5>3. name[i][t] = handle[i][t] /\ name[i][t] \in Devices
          BY <1>1, <5>1, <5>2 DEF BuiltInv
        <5>. QED  BY <1>5, <1>6, <4>2, <5>2, <5>3
      <4>. QED  BY <4>1, <4>2
    <3>. QED  BY <1>4, <2>2, <3>1, <3>2
  <2>. QED  BY <2>1, <2>2
<1>. QED  BY <1>1, <1>8, <1>11, <1>12, <1>13 DEF BuiltInv

\* A port that does not open takes a slot that no board leads to.
LEMMA FailedSlotHolds ==
  ASSUME BuiltInv, OpenFails, NEW a, a = Head(pending), NEW i, i = wiring[a],
         NEW f, f = Initialized(i)[i]
  PROVE  BuiltInv'
<1>1. phase = "building" /\ phase' = "up" /\ UNCHANGED <<wiring, modules, detChans>>
  BY DEF OpenFails, config
<1>2. /\ i \in Ifaces /\ f \in Slots /\ f \in Nat
      /\ i \in ifaces => f = count[i] /\ Names(i) = name
      /\ i \notin ifaces => \A k \in 1..Len(boards) : wiring[boards[k].mod] # i
      /\ Initialized(i) \in [Ifaces -> Int]
      /\ Names(i) \in [Ifaces -> [Slots -> Devices \cup {None}]]
      /\ \A j \in Ifaces \ {i} : Names(i)[j] = name[j]
  <2>1. PortFacts(a, i, f)
    BY <1>1, NextPort
  <2>. QED  BY <2>1 DEF PortFacts
<1>3. /\ count' = Claimed(i) /\ name' = Names(i) /\ boards' = WithIface(i)
      /\ handle' = IF i = "usb2" THEN [handle EXCEPT ![i][f] = None] ELSE handle
      /\ ifaces' = ifaces \cup {i}
  BY DEF OpenFails
<1>4. count' \in [Ifaces -> Int]
  <2>1. count' = [Initialized(i) EXCEPT ![i] = f + 1]
    BY <1>3 DEF Claimed
  <2>. QED  BY <1>2, <2>1
<1>5. /\ handle' \in [Ifaces -> [Slots -> Devices \cup {None}]]
      /\ \A t \in Slots \ {f} : handle'[i][t] = handle[i][t]
      /\ \A j \in Ifaces \ {i} : handle'[j] = handle[j]
  <2>1. handle \in [Ifaces -> [Slots -> Devices \cup {None}]]
    BY DEF BuiltInv, AnyTypes
  <2>2. CASE i = "usb2"
    BY <1>2, <1>3, <2>1, <2>2
  <2>3. CASE i # "usb2"
    BY <1>3, <2>1, <2>3
  <2>. QED  BY <2>2, <2>3
<1>6. /\ boards' \in Seq(Board) /\ Len(boards') = Len(boards)
      /\ \A k \in 1..Len(boards) :
             boards'[k].mod = boards[k].mod /\ boards'[k].ioChan = boards[k].ioChan
  BY <1>2, <1>3, WithIfaceKeeps DEF BuiltInv
<1>7. AnyTypes'
  BY <1>1, <1>2, <1>3, <1>4, <1>5, <1>6, AnyTypesKept DEF BuiltInv
<1>8. ASSUME NEW k \in 1..Len(boards), NEW m, m = boards[k].mod, NEW s, s = boards[k].ioChan,
             NEW j, j = wiring[m]
      PROVE  Holds(m, s)'
  <2>0. boards[k] \in Board /\ ifaces \subseteq Ifaces
    BY DEF BuiltInv, AnyTypes
  <2>1. Holds(m, s) /\ j \in ifaces /\ s < count[j] /\ s \in Slots /\ j \in Ifaces
    BY <1>1, <1>8, <2>0, SMTT(30) DEF BuiltInv, Board
  <2>2. CASE j # i
    <3>1. handle'[j] = handle[j] /\ name'[j] = name[j]
      BY <1>2, <1>3, <1>5, <2>1, <2>2
    <3>. QED  BY <1>1, <1>8, <2>1, <3>1 DEF Holds, PortClosed
  <2>3. CASE j = i
    <3>1. i \in ifaces /\ f = count[i] /\ Names(i) = name
      BY <1>2, <2>1, <2>3
    <3>2. s \in Slots \ {f}
      BY <1>2, <2>1, <2>3, <3>1, SlotsAre
    <3>3. handle'[i][s] = handle[i][s] /\ name'[i][s] = name[i][s]
      BY <1>3, <1>5, <3>1, <3>2
    <3>. QED  BY <1>1, <1>8, <2>1, <2>3, <3>3 DEF Holds, PortClosed
  <2>. QED  BY <2>2, <2>3
<1>. QED  BY <1>1, <1>6, <1>7, <1>8 DEF BuiltInv

\* The lists change, and nothing else.
LEMMA BuiltListsChange ==
  ASSUME BuiltInv, modules' \in Seq(Modules), detChans' \in Seq(Modules),
         Distinct(modules'), Distinct(detChans'),
         \A a \in Modules : In(a, modules') => In(a, detChans'),
         UNCHANGED <<orderly, wiring, boards, ifaces, ports, phase, pending>>
  PROVE  BuiltInv'
<1>1. \A m, s : Holds(m, s)' <=> Holds(m, s)
  BY DEF Holds, PortClosed, ports
<1>2. AnyTypes'
  BY DEF BuiltInv, AnyTypes, ports, Distinct, In
<1>. QED  BY <1>1, <1>2 DEF BuiltInv, ports

\* The configuration is changed.
LEMMA BuiltConfigured ==
  ASSUME BuiltInv, NEW a \in Modules, AddModule(a) \/ RemoveModule(a) \/ OrphanDetChan(a)
  PROVE  BuiltInv'
<1>1. /\ modules \in Seq(Modules) /\ detChans \in Seq(Modules)
      /\ Distinct(modules) /\ Distinct(detChans)
      /\ \A b \in Modules : In(b, modules) => In(b, detChans)
  BY DEF BuiltInv, AnyTypes
<1>2. UNCHANGED <<orderly, wiring, boards, ifaces, ports, phase, pending>>
  BY DEF AddModule, RemoveModule, OrphanDetChan
<1>3. CASE AddModule(a)
  <2>1. ~In(a, modules) /\ ~In(a, detChans)
    BY <1>1, <1>3, ToSetIn DEF AddModule
  <2>2. /\ modules' \in Seq(Modules) /\ Distinct(modules')
        /\ \A b : In(b, modules') <=> In(b, modules) \/ b = a
    BY <1>1, <1>3, <2>1, Appended DEF AddModule
  <2>3. /\ detChans' \in Seq(Modules) /\ Distinct(detChans')
        /\ \A b : In(b, detChans') <=> In(b, detChans) \/ b = a
    BY <1>1, <1>3, <2>1, Appended DEF AddModule
  <2>. QED  BY <1>1, <1>2, <2>2, <2>3, BuiltListsChange
<1>4. CASE RemoveModule(a) \/ OrphanDetChan(a)
  <2>1. In(a, modules) /\ In(a, detChans)
    BY <1>1, <1>4, ToSetIn DEF RemoveModule, OrphanDetChan
  <2>2. /\ modules' \in Seq(Modules) /\ Distinct(modules')
        /\ \A b : In(b, modules') <=> In(b, modules) /\ b # a
    BY <1>1, <1>4, <2>1, UnlinkedIs DEF RemoveModule, OrphanDetChan
  <2>3. CASE RemoveModule(a)
    <3>1. /\ detChans' \in Seq(Modules) /\ Distinct(detChans')
          /\ \A b : In(b, detChans') <=> In(b, detChans) /\ b # a
      BY <1>1, <2>1, <2>3, UnlinkedIs DEF RemoveModule
    <3>. QED  BY <1>1, <1>2, <2>2, <3>1, BuiltListsChange
  <2>4. CASE OrphanDetChan(a)
    <3>1. detChans' = detChans
      BY <2>4 DEF OrphanDetChan
    <3>. QED  BY <1>1, <1>2, <2>2, <3>1, BuiltListsChange
  <2>. QED  BY <1>4, <2>3, <2>4
<1>. QED  BY <1>3, <1>4

\* A start begins with no boards and with as many modules as there are slots.
LEMMA BuiltStart ==
  ASSUME BuiltInv, Start
  PROVE  BuiltInv'
<1>1. /\ boards' = <<>> /\ ifaces' = {} /\ phase' = "building" /\ pending' = modules
      /\ UNCHANGED <<wiring, modules, detChans, count, name, handle>>
  BY DEF Start, config, ports
<1>2. /\ modules \in Seq(Modules) /\ detChans \in Seq(Modules) /\ Distinct(modules)
  BY DEF BuiltInv, AnyTypes
<1>3. AnyTypes'
  BY <1>1 DEF BuiltInv, AnyTypes, Distinct, In
<1>4. modules # <<>>
  <2>1. In(detChans[1], detChans) /\ detChans[1] \in Modules
    BY <1>2 DEF Start, In
  <2>2. In(detChans[1], modules)
    BY <1>2, <2>1, ToSetIn DEF Start
  <2>. QED  BY <1>2, <2>2 DEF In
<1>5. Len(boards') + Len(pending') <= N /\ 1..Len(boards') = {}
  BY <1>1, <1>2, ShortList
<1>. QED  BY <1>1, <1>2, <1>3, <1>4, <1>5 DEF BuiltInv

\* Nothing the ports are built from is touched until the walk begins; while it
\* goes on only the types count.
LEMMA BuiltRest ==
  ASSUME BuiltInv, \/ BuildStops \/ StartClosing \/ UnHookOne \/ UnHookStops \/ Closed
                   \/ UNCHANGED vars
  PROVE  BuiltInv'
<1>1. CASE BuildStops \/ UNCHANGED vars
  <2>1. UNCHANGED <<config, boards, ifaces, ports>>
    BY <1>1 DEF BuildStops, vars
  <2>2. \A m, s : Holds(m, s)' <=> Holds(m, s)
    BY <2>1 DEF Holds, PortClosed, ports, config
  <2>3. AnyTypes'
    BY <2>1 DEF BuiltInv, AnyTypes, config, ports, Distinct, In
  <2>4. CASE BuildStops
    BY <2>1, <2>2, <2>3, <2>4 DEF BuiltInv, BuildStops
  <2>5. CASE UNCHANGED vars
    BY <2>2, <2>3, <2>5 DEF BuiltInv, vars, config, ports
  <2>. QED  BY <1>1, <2>4, <2>5
<1>2. CASE StartClosing \/ UnHookStops
  <2>1. phase' = "closing" /\ UNCHANGED <<config, boards, ifaces, ports>>
    BY <1>2 DEF StartClosing, UnHookStops
  <2>. QED  BY <2>1 DEF BuiltInv, AnyTypes, config, ports, Distinct, In
<1>3. CASE UnHookOne
  <2>1. phase' = "closing" /\ UNCHANGED <<config, boards, ifaces>>
    BY <1>3 DEF UnHookOne
  <2>2. /\ count \in [Ifaces -> Int]
        /\ name \in [Ifaces -> [Slots -> Devices \cup {None}]]
        /\ handle \in [Ifaces -> [Slots -> Devices \cup {None}]]
    BY DEF BuiltInv, AnyTypes
  <2>3. /\ count' \in [Ifaces -> Int]
        /\ name' \in [Ifaces -> [Slots -> Devices \cup {None}]]
        /\ handle' \in [Ifaces -> [Slots -> Devices \cup {None}]]
    <3>1. CASE UNCHANGED ports
      BY <2>2, <3>1 DEF ports
    <3>2. ASSUME NEW i, NEW s, ClosePort(i, s), NEW b \in Board, i = b.iface
          PROVE  /\ count' \in [Ifaces -> Int]
                 /\ name' \in [Ifaces -> [Slots -> Devices \cup {None}]]
                 /\ handle' \in [Ifaces -> [Slots -> Devices \cup {None}]]
      <4>0. i \in Ifaces
        BY <3>2 DEF Board
      <4>1. count' \in [Ifaces -> Int]
        BY <2>2, <3>2, <4>0 DEF ClosePort
      <4>2. name' \in [Ifaces -> [Slots -> Devices \cup {None}]]
        BY <2>2, <3>2, <4>0 DEF ClosePort, NamesReleased
      <4>3. handle' \in [Ifaces -> [Slots -> Devices \cup {None}]]
        BY <2>2, <3>2, <4>0 DEF ClosePort, Released
      <4>. QED  BY <4>1, <4>2, <4>3
    <3>3. \A k \in BoardsOf(Head(pending)) : boards[k] \in Board
      BY DEF BoardsOf, BuiltInv, AnyTypes
    <3>. QED  BY <1>3, <3>1, <3>2, <3>3 DEF UnHookOne, KeepPorts
  <2>. QED  BY <2>1, <2>3 DEF BuiltInv, AnyTypes, config, Distinct, In
<1>4. CASE Closed
  <2>1. /\ phase' = "down" /\ modules' = <<>> /\ detChans' = <<>>
        /\ boards' \in Seq(Board) /\ ifaces' \subseteq Ifaces
        /\ UNCHANGED <<wiring, ports>>
    BY <1>4, EmptySeq DEF Closed, BuiltInv, AnyTypes
  <2>. QED  BY <2>1, EmptySeq DEF BuiltInv, AnyTypes, ports, Distinct, In
<1>. QED  BY <1>1, <1>2, <1>3, <1>4

\* What a start has built is sound in every system, until it is closed.
LEMMA AnyWiring == Spec => []BuiltInv
<1>1. Init => BuiltInv
  <2>. SUFFICES ASSUME Init PROVE BuiltInv
    OBVIOUS
  <2>1. wiring \in [Modules -> Ifaces]
    BY WiringAssumption DEF Init
  <2>2. AnyTypes
    BY <2>1 DEF Init, AnyTypes, Distinct, In
  <2>. QED  BY <2>2 DEF Init, BuiltInv
<1>2. BuiltInv /\ [Next]_vars => BuiltInv'
  <2>. SUFFICES ASSUME BuiltInv, [Next]_vars PROVE BuiltInv'
    OBVIOUS
  <2>1. CASE \E a \in Modules : AddModule(a) \/ RemoveModule(a) \/ OrphanDetChan(a)
    BY <2>1, BuiltConfigured
  <2>2. CASE Start
    BY <2>2, BuiltStart
  <2>3. CASE ShareSlot
    BY <2>3, SharedSlotHolds
  <2>4. CASE OpenSlot
    BY <2>4, OpenedSlotHolds
  <2>5. CASE OpenFails
    BY <2>5, FailedSlotHolds
  <2>6. CASE BuildStops \/ StartClosing \/ UnHookOne \/ UnHookStops \/ Closed \/ UNCHANGED vars
    BY <2>6, BuiltRest
  <2>. QED  BY <2>1, <2>2, <2>3, <2>4, <2>5, <2>6 DEF Next
<1>. QED  BY <1>1, <1>2, PTL DEF Spec

-----------------------------------------------------------------------------
(* The theorems. *)

\* Every step keeps the types and the invariant.
LEMMA InvStep ==
  ASSUME TypeRest, Inv, [Next]_vars
  PROVE  TypeRest' /\ Inv'
<1>1. ASSUME NEW a \in Modules, AddModule(a) \/ RemoveModule(a) \/ OrphanDetChan(a)
      PROVE  TypeRest' /\ Inv'
  BY <1>1, AddModuleStep, RemoveModuleStep, OrphanDetChanStep
<1>2. CASE Start
  BY <1>2, StartStep
<1>3. CASE ShareSlot
  BY <1>3, ShareSlotStep
<1>4. CASE OpenSlot
  BY <1>4, OpenSlotStep
<1>5. CASE OpenFails
  BY <1>5, OpenFailsStep
<1>11. CASE BuildStops
  BY <1>11, BuildStopsStep
<1>6. CASE StartClosing
  BY <1>6, StartClosingStep
<1>7. CASE UnHookOne
  BY <1>7, UnHookOneStep
<1>8. CASE UnHookStops
  BY <1>8, UnHookStopsStep
<1>9. CASE Closed
  BY <1>9, ClosedStep
<1>10. CASE UNCHANGED vars
  <2>1. /\ modules' = modules /\ detChans' = detChans /\ ListsInv'
        /\ UNCHANGED <<orderly, wiring, boards, ifaces, ports, phase, pending>>
    BY <1>10 DEF vars, config, Inv, ListsInv, Distinct, In
  <2>. QED  BY <2>1, ListsChange DEF TypeRest
<1>. QED
  BY <1>1, <1>2, <1>3, <1>4, <1>5, <1>6, <1>7, <1>8, <1>9, <1>10, <1>11 DEF Next

\* How the application behaves and the wiring never change.
LEMMA SystemKept ==
  ASSUME [Next]_vars
  PROVE  UNCHANGED <<orderly, wiring>>
BY DEF Next, vars, config, AddModule, RemoveModule, OrphanDetChan, Start, ShareSlot,
   OpenSlot, OpenFails, BuildStops, StartClosing, UnHookOne, UnHookStops, Closed

\* The types and the invariant hold in every state of a system of one interface.
Uses ==
    /\ orderly \in BOOLEAN /\ wiring \in Wirings
    /\ orderly => OneInterface
    /\ OneInterface => TypeRest /\ Inv

LEMMA Invariance == Spec => []Uses
<1>1. Init => Uses
  BY InitTypes, InitInv DEF Init, Uses
<1>2. Uses /\ [Next]_vars => Uses'
  <2>. SUFFICES ASSUME Uses, [Next]_vars PROVE Uses'
    OBVIOUS
  <2>1. UNCHANGED <<orderly, wiring>>
    BY SystemKept
  <2>2. OneInterface' <=> OneInterface
    BY <2>1 DEF OneInterface
  <2>3. OneInterface => TypeRest' /\ Inv'
    BY InvStep DEF Uses
  <2>. QED  BY <2>1, <2>2, <2>3 DEF Uses
<1>. QED  BY <1>1, <1>2, PTL DEF Spec

\* In a system of one interface every variable keeps its type: no counter of a
\* table grows beyond its slots, or falls below zero, and no device is closed
\* more often than it was opened (dxp_md_usb2_open, dxp_md_usb2_close and the
\* serial lines' routines).
THEOREM TypeCorrect == Spec => [](OneInterface => TypeOK)
<1>1. Uses => (OneInterface => TypeOK)
  <2>1. 0..N \subseteq (-N)..N
    BY SlotsAre
  <2>. QED  BY <2>1 DEF Uses, TypeRest, TypeOK, N
<1>. QED  BY Invariance, <1>1, PTL

\* While a system of one interface is up or being built every board reaches the
\* device of its module through an open port, whatever the application does and
\* however often it starts without an exit (dxp_add_board_item, dxp_md_usb2_open).
THEOREM OneInterfaceIsReached == Spec => []OneInterfaceReaches
<1>1. TypeRest /\ Inv => BoardsReachTheirDevice
  <2>. SUFFICES ASSUME TypeRest, Inv, phase \in {"building", "up"},
                       NEW k \in 1..Len(boards)
                PROVE  /\ boards[k].iface = wiring[boards[k].mod]
                       /\ handle[boards[k].iface][boards[k].ioChan] = DeviceOf[boards[k].mod]
                       /\ ~PortClosed(boards[k].iface, boards[k].ioChan)
    BY DEF BoardsReachTheirDevice
  <2>1. boards[k].iface = J /\ boards[k].mod \in Modules
    BY TableTypes DEF Inv, BoardsInv, Board
  <2>. QED  BY <2>1, JIs DEF Inv, TableInv, Open
<1>2. Uses => OneInterfaceReaches
  BY <1>1 DEF Uses, OneInterfaceReaches
<1>. QED  BY Invariance, <1>2, PTL

\* In a system of any interfaces, each board that a start has built leads to the
\* slot of its own module's device in the table of its module's interface, through
\* an open port, until the walk of xiaExit begins (dxp_add_board_item,
\* dxp_md_usb2_open, dxp_md_serial_open): where the board talks to another device
\* its slot is right and the interface it was given with it is not, which takes
\* modules of two interfaces.
THEOREM SlotsAreRight == Spec => []SlotsHoldTheirDevice
<1>1. BuiltInv /\ OneInterfaceReaches => SlotsHoldTheirDevice
  <2>. SUFFICES ASSUME BuiltInv, OneInterfaceReaches, phase \in {"building", "up"},
                       NEW k \in 1..Len(boards)
                PROVE  /\ handle[wiring[boards[k].mod]][boards[k].ioChan]
                              = DeviceOf[boards[k].mod]
                       /\ ~PortClosed(wiring[boards[k].mod], boards[k].ioChan)
                       /\ OneInterface => boards[k].iface = wiring[boards[k].mod]
    BY DEF SlotsHoldTheirDevice
  <2>1. OneInterface => boards[k].iface = wiring[boards[k].mod]
    BY DEF OneInterfaceReaches, BoardsReachTheirDevice
  <2>. QED  BY <2>1 DEF BuiltInv, Holds
<1>. QED  BY AnyWiring, OneInterfaceIsReached, <1>1, PTL

\* An application that exits before it starts again loses no handle, and none
\* is kept in a table that was closed (xiaUnHook, dxp_exit).
THEOREM NoHandleIsLost == Spec => []HandlesAccounted
<1>1. TypeRest /\ Inv => HandlesAccounted
  <2>. SUFFICES ASSUME TypeRest, Inv, orderly, NEW i \in Ifaces, NEW d \in Devices
                PROVE  driver[i][d] =
                         Cardinality({s \in Slots : handle[i][s] = d /\ ~PortClosed(i, s)})
    BY DEF HandlesAccounted
  <2>1. CASE i = J
    BY <2>1 DEF Inv, OrderlyInv, Held, Open
  <2>2. CASE i # J
    <3>1. driver[i][d] = 0 /\ \A s \in Slots : handle[i][s] # d
      BY <2>2, DeviceAssumption DEF Inv, Unused
    <3>2. {s \in Slots : handle[i][s] = d /\ ~PortClosed(i, s)} = {}
      BY <3>1
    <3>. QED  BY <3>1, <3>2, FS_EmptySet
  <2>. QED  BY <2>1, <2>2
<1>2. Uses => HandlesAccounted
  BY <1>1 DEF Uses, HandlesAccounted
<1>. QED  BY Invariance, <1>2, PTL

\* After xiaExit or xiaInit an orderly application has no device open.
THEOREM ExitClosesAll == Spec => []ExitDisconnects
<1>1. TypeRest /\ Inv => ExitDisconnects
  <2>. SUFFICES ASSUME TypeRest, Inv, orderly, phase = "down",
                       NEW i \in Ifaces, NEW d \in Devices
                PROVE  driver[i][d] = 0
    BY DEF ExitDisconnects
  <2>1. CASE i = J
    <3>1. Held(d) = {}
      BY DEF Inv, OrderlyInv, Held
    <3>. QED  BY <2>1, <3>1, FS_EmptySet DEF Inv, OrderlyInv
  <2>2. CASE i # J
    BY <2>2 DEF Inv, Unused
  <2>. QED  BY <2>1, <2>2
<1>2. Uses => ExitDisconnects
  BY <1>1 DEF Uses, ExitDisconnects
<1>. QED  BY Invariance, <1>2, PTL

\* The counter of a table separates the slots in use from the free ones: the
\* names below it are set, and in an orderly use the slot a port is about to
\* take is free, as dxp_md_usb2_open and dxp_md_serial_open assert.
THEOREM SlotsAreSeparated == Spec => []CounterSeparates
<1>1. TypeRest /\ Inv /\ orderly /\ phase = "building" =>
        LET i == wiring[Head(pending)] IN Names(i)[i][Initialized(i)[i]] = None
  <2>. SUFFICES ASSUME TypeRest, Inv, orderly, phase = "building", NEW a, a = Head(pending)
                PROVE  Names(wiring[a])[wiring[a]][Initialized(wiring[a])[wiring[a]]] = None
    OBVIOUS
  <2>1. /\ wiring[a] = J /\ Free \in Slots /\ Free \in Nat
        /\ J \in ifaces => Free = count[J]
    BY Building
  <2>2. ~Open(Free)
    BY <2>1 DEF Inv, OrderlyInv
  <2>3. name[J][Free] = None
    BY <2>1, <2>2 DEF Inv, OrderlyInv
  <2>. QED  BY <2>1, <2>3, NamesAre DEF Free
<1>2. BuiltInv /\ phase = "building" =>
        \A i \in ifaces : \A s \in Slots : s < count[i] => name[i][s] # None
  BY DeviceAssumption DEF BuiltInv
<1>3. Uses /\ BuiltInv => CounterSeparates
  <2>. SUFFICES ASSUME Uses, BuiltInv, phase = "building" PROVE CounterSeparates
    BY DEF CounterSeparates
  <2>. QED  BY <1>1, <1>2 DEF Uses, CounterSeparates
<1>. QED  BY Invariance, AnyWiring, <1>3, PTL
=============================================================================
