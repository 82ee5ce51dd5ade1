------------------------- MODULE HandelConfig_proofs -------------------------
(***************************************************************************)
(* Machine-checked proofs about HandelConfig for any aliases, detChan ids, *)
(* acquisition values and module size.                                     *)
(*                                                                         *)
(* IInv is the inductive invariant.  What it adds to the properties the    *)
(* runs check is DeadModulesEmpty (an alias that names no module has no    *)
(* channels, so that a module created anew starts with none) and           *)
(* CallInOrder (what xiaSetDefaults has in its two lists at each step).    *)
(***************************************************************************)
EXTENDS HandelConfig, TLAPS

DeadModulesEmpty == \A a \in Aliases \ live : nChans[a] = 0

\* The temporary list exists from the copy to the end of the write back, beside
\* the channel's own list, which has the PSL's values once it is filled.
CallInOrder ==
    /\ temporary # NoDefault <=> setting # NoCall /\ setting.step # "copy"
    /\ setting # NoCall /\ setting.step # "copy" =>
         defaults[setting.mod][setting.chan] # NoDefault
    /\ setting # NoCall /\ setting.step = "fill" =>
         DOMAIN defaults[setting.mod][setting.chan] \subseteq DOMAIN temporary
    /\ setting # NoCall /\ setting.step = "restore" =>
         PslItems \subseteq DOMAIN defaults[setting.mod][setting.chan]

IInv == /\ TypeOK
        /\ DeadModulesEmpty
        /\ CallInOrder
        /\ ChannelsOwned
        /\ OneChannelPerDetChan
        /\ LiveDefaultsExist
        /\ MasterHasEveryDetChan
        /\ ListsNeverDangle

-----------------------------------------------------------------------------
(* Helpers. *)

\* A detChan that no element of the list maps is named by no channel.
LEMMA FreeIsUnused ==
    ASSUME TypeOK, ChannelsOwned, NEW d \in DetChans, IsFree(d)
    PROVE  \A a \in live : \A c \in ModChans(a) : channels[a][c] # d
  BY AliasAssumption, DetChanAssumption DEF TypeOK, ChannelsOwned, IsFree

\* Unmapping leaves the other detChans with their owner.
LEMMA UnmappedType ==
    ASSUME TypeOK, NEW S
    PROVE  /\ Unmapped(S) \in [DetChans -> Aliases \cup {NoAlias}]
           /\ \A d \in DetChans : Unmapped(S)[d] # NoAlias =>
                 d \notin S /\ Unmapped(S)[d] = owner[d]
           /\ \A d \in DetChans \ S : Unmapped(S)[d] = owner[d]
  BY DEF TypeOK, Unmapped

\* Writing the entries of one list into another keeps every name of both, and
\* the values of the list written last.
LEMMA AddEntriesIs ==
    ASSUME NEW l \in List, NEW m \in List
    PROVE  /\ AddEntries(l, m) \in List
           /\ DOMAIN AddEntries(l, m) = DOMAIN l \cup DOMAIN m
           /\ \A i \in DOMAIN m : AddEntries(l, m)[i] = m[i]
           /\ \A i \in DOMAIN l \ DOMAIN m : AddEntries(l, m)[i] = l[i]
<1>1. /\ l \in [DOMAIN l -> Value] /\ DOMAIN l \subseteq Items
      /\ m \in [DOMAIN m -> Value] /\ DOMAIN m \subseteq Items
  BY DEF List
<1> DEFINE D == DOMAIN l \cup DOMAIN m
<1>2. AddEntries(l, m) = [i \in D |-> IF i \in DOMAIN m THEN m[i] ELSE l[i]]
  BY DEF AddEntries
<1>3. AddEntries(l, m) \in [D -> Value]
  BY <1>1, <1>2
<1>4. D \in SUBSET Items
  BY <1>1
<1>5. AddEntries(l, m) \in List
  BY <1>3, <1>4 DEF List
<1> QED
  BY <1>2, <1>5

\* The lists the code starts from.
LEMMA ListsAre ==
    /\ NoEntries \in List /\ PslEntries \in List
    /\ DOMAIN NoEntries = {} /\ DOMAIN PslEntries = PslItems
    /\ \A S \in SUBSET Items, v \in UserValues : [i \in S |-> v] \in List
<1>1. NoEntries \in [{} -> Value] /\ PslEntries \in [PslItems -> Value]
  BY DEF NoEntries, PslEntries, Value
<1>2. {} \in SUBSET Items /\ PslItems \in SUBSET Items
  BY ItemAssumption
<1>3. ASSUME NEW S \in SUBSET Items, NEW v \in UserValues
      PROVE  [i \in S |-> v] \in List
  <2>1. [i \in S |-> v] \in [S -> Value]
    BY DEF Value
  <2> QED
    BY <2>1 DEF List
<1> QED
  BY <1>1, <1>2, <1>3 DEF List, NoEntries, PslEntries

\* Where xiaSetDefaults is at work, and what it finds.
LEMMA CallIs ==
    ASSUME TypeOK, setting # NoCall
    PROVE  /\ setting \in Setting
           /\ setting.mod \in live /\ setting.mod \in Aliases
           /\ setting.chan \in Chan /\ setting.chan \in Nat
           /\ setting.chan < nChans[setting.mod]
           /\ setting.step \in {"copy", "fill", "restore"}
           /\ Found \in List
           /\ defaults[setting.mod][setting.chan] # NoDefault =>
                Found = defaults[setting.mod][setting.chan]
<1>1. setting \in Setting
  BY DEF TypeOK
<1>2. Found \in List
  BY <1>1, ListsAre DEF Found, TypeOK, Setting
<1> QED
  BY <1>1, <1>2 DEF TypeOK, Setting, Chan, Found

\* A record of Setting is never NoCall.
LEMMA CallIsNotNoCall == \A q \in Setting : q # NoCall
  BY AliasAssumption DEF Setting, NoCall

\* Appending to the member list of detChan -1 keeps its members.
LEMMA MasterWithMembers ==
    ASSUME TypeOK, NEW d \in DetChans
    PROVE  /\ MasterWith(d) \in Seq(DetChans)
           /\ \E k \in 1..Len(MasterWith(d)) : MasterWith(d)[k] = d
           /\ \A e \in DetChans :
                (\E k \in 1..Len(masterSet) : masterSet[k] = e)
                  => \E k \in 1..Len(MasterWith(d)) : MasterWith(d)[k] = e
<1> masterSet \in Seq(DetChans)
  BY DEF TypeOK
<1>1. /\ MasterWith(d) \in Seq(DetChans)
      /\ Len(MasterWith(d)) = Len(masterSet) + 1
      /\ MasterWith(d)[Len(masterSet) + 1] = d
      /\ \A k \in 1..Len(masterSet) : MasterWith(d)[k] = masterSet[k]
  BY DEF MasterWith
<1>2. Len(masterSet) \in Nat /\ 1..Len(masterSet) \subseteq 1..(Len(masterSet) + 1)
      /\ Len(masterSet) + 1 \in 1..(Len(masterSet) + 1)
  OBVIOUS
<1> QED
  BY <1>1, <1>2

-----------------------------------------------------------------------------
(* Init and the steps that touch only modules or only defaults. *)

\* The empty lists satisfy the invariant.
LEMMA InitIInv == Init => IInv
<1> SUFFICES ASSUME Init PROVE IInv
  OBVIOUS
<1> USE DEF Init
<1>1. TypeOK
  BY BoundAssumption DEF TypeOK, NoChannels, NoDefaults, NoCall
<1>2. MasterHasEveryDetChan
  BY DEF MasterHasEveryDetChan, IsFree
<1> QED
  BY <1>1, <1>2 DEF IInv, DeadModulesEmpty, CallInOrder, ChannelsOwned,
     OneChannelPerDetChan, LiveDefaultsExist, ListsNeverDangle

\* A module that is added has no channels yet.
LEMMA NewModuleIInv ==
    ASSUME IInv, NEW a \in Aliases, NewModule(a) PROVE IInv'
<1> USE DEF IInv, NewModule, Ready, listVars
<1>1. TypeOK'
  BY DEF TypeOK
<1>2. nChans[a] = 0 /\ ModChans(a) = {}
  BY DEF DeadModulesEmpty, ModChans, Chan
<1>3. \A b \in live' : ModChans(b)' = ModChans(b) /\ (ModChans(b) # {} => b \in live)
  BY <1>2 DEF ModChans
<1>4. ChannelsOwned' /\ OneChannelPerDetChan' /\ LiveDefaultsExist'
  BY <1>3 DEF ChannelsOwned, OneChannelPerDetChan, LiveDefaultsExist
<1>5. DeadModulesEmpty' /\ CallInOrder' /\ MasterHasEveryDetChan' /\ ListsNeverDangle'
  BY DEF DeadModulesEmpty, CallInOrder, MasterHasEveryDetChan, ListsNeverDangle, IsFree
<1> QED
  BY <1>1, <1>4, <1>5

\* Setting a module's type touches no list.
LEMMA AddModuleTypeIInv ==
    ASSUME IInv, NEW a \in Aliases, AddModuleType(a) PROVE IInv'
  BY DEF IInv, AddModuleType, Ready, listVars, TypeOK, DeadModulesEmpty, CallInOrder,
     ChannelsOwned, OneChannelPerDetChan, LiveDefaultsExist, MasterHasEveryDetChan,
     ListsNeverDangle, ModChans, IsFree

\* Declaring channels gives them no detChan; their defaults lists come next.
LEMMA AddNumChansIInv ==
    ASSUME IInv, NEW a \in Aliases, NEW n \in 1..MaxChans, AddNumChans(a, n)
    PROVE  IInv'
<1> USE DEF IInv, AddNumChans, Ready
<1>0. n \in 0..MaxChans /\ n > 0 /\ a \in live /\ 0 \in Chan
  BY BoundAssumption DEF TypeOK, Chan
<1>1. setting' \in Setting /\ setting' # NoCall
  BY <1>0, CallIsNotNoCall DEF Setting
<1>2. TypeOK'
  BY <1>0, <1>1 DEF TypeOK, NoChannels
<1>3. /\ \A c \in Chan : channels'[a][c] = -1
      /\ \A b \in Aliases \ {a} : channels'[b] = channels[b] /\ nChans'[b] = nChans[b]
                                   /\ ModChans(b)' = ModChans(b)
      /\ ModChans(a)' = {c \in Chan : c < n}
      /\ \A b \in live : ModChans(b)' \subseteq Chan
  BY DEF TypeOK, NoChannels, ModChans
<1>4. ChannelsOwned'
  BY <1>3 DEF ChannelsOwned, TypeOK
<1>5. OneChannelPerDetChan'
  BY <1>3 DEF OneChannelPerDetChan, TypeOK
<1>6. LiveDefaultsExist'
  <2> SUFFICES ASSUME NEW b \in live, NEW c \in ModChans(b)', b = a => c < 0
               PROVE  defaults[b][c] # NoDefault /\ PslItems \subseteq DOMAIN defaults[b][c]
    BY <1>1 DEF LiveDefaultsExist
  <2>1. b # a /\ b \in Aliases
    BY <1>3 DEF Chan, TypeOK
  <2> QED
    BY <2>1, <1>3 DEF LiveDefaultsExist, TypeOK
<1>7. CallInOrder'
  BY <1>1 DEF CallInOrder
<1>8. DeadModulesEmpty' /\ MasterHasEveryDetChan' /\ ListsNeverDangle'
  BY <1>0, <1>3 DEF DeadModulesEmpty, MasterHasEveryDetChan, ListsNeverDangle, IsFree
<1> QED
  BY <1>2, <1>4, <1>5, <1>6, <1>7, <1>8

\* A step of xiaSetDefaults changes one list and nothing of the modules.
LEMMA SetListIs ==
    ASSUME TypeOK, setting # NoCall, NEW l \in List, SetList(l)
    PROVE  /\ defaults' \in [Aliases -> [Chan -> List \cup {NoDefault}]]
           /\ defaults'[setting.mod][setting.chan] = l
           /\ \A b \in Aliases, e \in Chan :
                <<b, e>> # <<setting.mod, setting.chan>> =>
                    defaults'[b][e] = defaults[b][e]
  BY CallIs DEF TypeOK, SetList

\* What the steps of xiaSetDefaults leave alone.
LEMMA ModulesKept ==
    ASSUME IInv, UNCHANGED <<modVars, listsOk>>
    PROVE  /\ DeadModulesEmpty' /\ ChannelsOwned' /\ OneChannelPerDetChan'
           /\ MasterHasEveryDetChan' /\ ListsNeverDangle'
           /\ \A b : ModChans(b)' = ModChans(b)
  BY DEF modVars, IInv, DeadModulesEmpty, ChannelsOwned, OneChannelPerDetChan,
     MasterHasEveryDetChan, ListsNeverDangle, ModChans, IsFree

\* The copy: the temporary list is never there already.
LEMMA CopyDefaultsIInv == ASSUME IInv, CopyDefaults PROVE IInv'
<1> USE DEF IInv, CopyDefaults
<1>1. temporary = NoDefault
  BY DEF CallInOrder
<1>2. /\ AddEntries(NoEntries, Found) \in List
      /\ temporary' \in List /\ temporary' # NoDefault
  <2>1. Found \in List /\ NoEntries \in List /\ temporary' = AddEntries(NoEntries, Found)
    BY <1>1, ListsAre, CallIs
  <2>2. AddEntries(NoEntries, Found) \in List
    BY ONLY <2>1, AddEntriesIs
  <2> QED
    BY <2>1, <2>2, ListAssumption
<1>7. DOMAIN Found \subseteq DOMAIN temporary'
  <2>1. Found \in List /\ NoEntries \in List /\ temporary' = AddEntries(NoEntries, Found)
    BY <1>1, ListsAre, CallIs
  <2>2. DOMAIN AddEntries(NoEntries, Found) = DOMAIN NoEntries \cup DOMAIN Found
    BY ONLY <2>1, AddEntriesIs
  <2> QED
    BY ONLY <2>1, <2>2
<1>3. /\ setting' \in Setting /\ setting'.mod = setting.mod
      /\ setting'.chan = setting.chan /\ setting'.step = "fill" /\ setting' # NoCall
  BY <1>1, CallIs, CallIsNotNoCall DEF Setting
<1>4. TypeOK'
  BY <1>2, <1>3, CallIs, SetListIs DEF TypeOK, modVars
<1>5. LiveDefaultsExist'
  <2> SUFFICES ASSUME NEW b \in live, NEW c \in ModChans(b),
                      b = setting.mod => c < setting.chan
               PROVE  defaults'[b][c] # NoDefault /\ PslItems \subseteq DOMAIN defaults'[b][c]
    BY <1>3, ModulesKept DEF LiveDefaultsExist, modVars
  <2>1. b \in Aliases /\ c \in Chan /\ <<b, c>> # <<setting.mod, setting.chan>>
    BY CallIs DEF TypeOK, ModChans, Chan
  <2> QED
    BY <2>1, CallIs, SetListIs DEF LiveDefaultsExist
<1>6. CallInOrder'
  <2>1. defaults'[setting.mod][setting.chan] = Found /\ Found # NoDefault
    BY CallIs, SetListIs, ListAssumption
  <2> QED
    BY <1>2, <1>3, <1>7, <2>1 DEF CallInOrder
<1> QED
  BY <1>4, <1>5, <1>6, ModulesKept

\* The fill.
LEMMA FillDefaultsIInv == ASSUME IInv, FillDefaults PROVE IInv'
<1> USE DEF IInv, FillDefaults
<1>1. /\ AddEntries(Found, PslEntries) \in List
      /\ PslItems \subseteq DOMAIN AddEntries(Found, PslEntries)
  <2>1. Found \in List /\ PslEntries \in List /\ DOMAIN PslEntries = PslItems
    BY ListsAre, CallIs
  <2> QED
    BY ONLY <2>1, AddEntriesIs
<1>2. /\ setting' \in Setting /\ setting'.mod = setting.mod
      /\ setting'.chan = setting.chan /\ setting'.step = "restore" /\ setting' # NoCall
  BY CallIs, CallIsNotNoCall DEF Setting
<1>3. TypeOK'
  BY <1>1, <1>2, CallIs, SetListIs DEF TypeOK, modVars
<1>4. LiveDefaultsExist'
  <2> SUFFICES ASSUME NEW b \in live, NEW c \in ModChans(b),
                      b = setting.mod => c < setting.chan
               PROVE  defaults'[b][c] # NoDefault /\ PslItems \subseteq DOMAIN defaults'[b][c]
    BY <1>2, ModulesKept DEF LiveDefaultsExist, modVars
  <2>1. b \in Aliases /\ c \in Chan /\ <<b, c>> # <<setting.mod, setting.chan>>
    BY CallIs DEF TypeOK, ModChans, Chan
  <2> QED
    BY <2>1, <1>1, CallIs, SetListIs DEF LiveDefaultsExist
<1>5. CallInOrder'
  BY <1>1, <1>2, CallIs, SetListIs, ListAssumption DEF CallInOrder
<1> QED
  BY <1>3, <1>4, <1>5, ModulesKept

\* The write back: the channel's list has the PSL's values and those copied.
LEMMA RestoreDefaultsIInv == ASSUME IInv, RestoreDefaults PROVE IInv'
<1> USE DEF IInv, RestoreDefaults
<1>1. /\ temporary \in List /\ defaults[setting.mod][setting.chan] # NoDefault
      /\ Found = defaults[setting.mod][setting.chan]
      /\ PslItems \subseteq DOMAIN Found
  BY CallIs DEF CallInOrder, TypeOK
<1>2. /\ AddEntries(Found, temporary) \in List
      /\ PslItems \subseteq DOMAIN AddEntries(Found, temporary)
  <2>1. Found \in List /\ temporary \in List
    BY <1>1, CallIs
  <2>2. /\ AddEntries(Found, temporary) \in List
        /\ DOMAIN AddEntries(Found, temporary) = DOMAIN Found \cup DOMAIN temporary
    BY ONLY <2>1, AddEntriesIs
  <2> QED
    BY ONLY <1>1, <2>2
<1>3. CASE setting.chan + 1 < nChans[setting.mod]
  <2>1. setting.chan + 1 \in Chan
    BY <1>3, CallIs, BoundAssumption DEF TypeOK, Chan
  <2>2. /\ setting' \in Setting /\ setting'.mod = setting.mod
        /\ setting'.chan = setting.chan + 1 /\ setting'.step = "copy" /\ setting' # NoCall
    BY <1>3, <2>1, CallIs, CallIsNotNoCall DEF NextChannel, Setting
  <2>3. TypeOK'
    BY <1>2, <1>3, <2>2, CallIs, SetListIs DEF TypeOK, modVars
  <2>4. LiveDefaultsExist'
    <3> SUFFICES ASSUME NEW b \in live, NEW c \in ModChans(b),
                        b = setting.mod => c < setting.chan + 1
                 PROVE  /\ defaults'[b][c] # NoDefault
                        /\ PslItems \subseteq DOMAIN defaults'[b][c]
      BY <2>2, ModulesKept DEF LiveDefaultsExist, modVars
    <3>1. b \in Aliases /\ c \in Chan /\ c \in Int
      BY DEF TypeOK, ModChans, Chan
    <3>2. CASE <<b, c>> = <<setting.mod, setting.chan>>
      BY <3>2, <1>2, CallIs, SetListIs, ListAssumption
    <3>3. CASE <<b, c>> # <<setting.mod, setting.chan>>
      <4>1. b = setting.mod => c < setting.chan
        BY <3>1, <3>3, CallIs
      <4> QED
        BY <3>1, <3>3, <4>1, <1>2, CallIs, SetListIs DEF LiveDefaultsExist
    <3> QED
      BY <3>2, <3>3
  <2>5. CallInOrder'
    BY <2>2 DEF CallInOrder
  <2> QED
    BY <2>3, <2>4, <2>5, ModulesKept
<1>4. CASE ~(setting.chan + 1 < nChans[setting.mod])
  <2>1. setting' = NoCall
    BY <1>4 DEF NextChannel
  <2>2. TypeOK'
    BY <1>2, <2>1, CallIs, SetListIs DEF TypeOK, modVars
  <2>3. LiveDefaultsExist'
    <3> SUFFICES ASSUME NEW b \in live, NEW c \in ModChans(b)
                 PROVE  /\ defaults'[b][c] # NoDefault
                        /\ PslItems \subseteq DOMAIN defaults'[b][c]
      BY ModulesKept DEF LiveDefaultsExist, modVars
    <3>1. b \in Aliases /\ c \in Chan /\ c \in Int /\ c < nChans[b]
      BY DEF TypeOK, ModChans, Chan
    <3>2. CASE <<b, c>> = <<setting.mod, setting.chan>>
      BY <3>2, <1>2, CallIs, SetListIs, ListAssumption
    <3>3. CASE <<b, c>> # <<setting.mod, setting.chan>>
      <4>1. b = setting.mod => c < setting.chan
        BY <3>1, <3>3, <1>4, CallIs DEF TypeOK
      <4> QED
        BY <3>1, <3>3, <4>1, <1>2, CallIs, SetListIs DEF LiveDefaultsExist
    <3> QED
      BY <3>2, <3>3
  <2>4. CallInOrder'
    BY <2>1 DEF CallInOrder
  <2> QED
    BY <2>2, <2>3, <2>4, ModulesKept
<1> QED
  BY <1>3, <1>4

\* Values from an ini file go into a list of their own.
LEMMA LoadDefaultsIInv ==
    ASSUME IInv, NEW a \in Aliases, NEW c \in Chan, NEW S \in SUBSET Items,
           NEW v \in UserValues, LoadDefaults(a, c, S, v)
    PROVE  IInv'
<1> USE DEF IInv, LoadDefaults, Ready
<1>1. TypeOK'
  BY ListsAre DEF TypeOK, modVars
<1>2. \A b \in Aliases, e \in Chan : defaults[b][e] # NoDefault =>
         defaults'[b][e] = defaults[b][e]
  BY DEF TypeOK
<1>3. LiveDefaultsExist'
  BY <1>2, ModulesKept DEF LiveDefaultsExist, TypeOK, ModChans, modVars
<1>4. CallInOrder'
  BY DEF CallInOrder
<1> QED
  BY <1>1, <1>3, <1>4, ModulesKept

\* Merging a list into others keeps every entry name of both.
LEMMA ProcessDefaultIInv ==
    ASSUME IInv, NEW a \in Aliases, NEW cs, NEW b \in Aliases, NEW e \in Chan,
           ProcessDefault(a, cs, b, e)
    PROVE  IInv'
<1> USE DEF IInv, ProcessDefault, Ready
<1>1. /\ defaults[b][e] \in List
      /\ \A c \in cs : c \in Chan /\ defaults[a][c] \in List
  BY DEF TypeOK, ModChans
<1>2. \A c \in cs : /\ AddEntries(defaults[a][c], defaults[b][e]) \in List
                    /\ DOMAIN defaults[a][c] \subseteq
                         DOMAIN AddEntries(defaults[a][c], defaults[b][e])
  <2> SUFFICES ASSUME NEW c \in cs
               PROVE  /\ AddEntries(defaults[a][c], defaults[b][e]) \in List
                      /\ DOMAIN defaults[a][c] \subseteq
                           DOMAIN AddEntries(defaults[a][c], defaults[b][e])
    OBVIOUS
  <2> DEFINE l == defaults[a][c]
             m == defaults[b][e]
  <2>1. l \in List /\ m \in List
    BY <1>1
  <2> HIDE DEF l, m
  <2>2. AddEntries(l, m) \in List /\ DOMAIN AddEntries(l, m) = DOMAIN l \cup DOMAIN m
    BY ONLY <2>1, AddEntriesIs
  <2>3. AddEntries(l, m) \in List /\ DOMAIN l \subseteq DOMAIN AddEntries(l, m)
    BY ONLY <2>2
  <2> QED
    BY <2>3 DEF l, m
<1>3. defaults' \in [Aliases -> [Chan -> List \cup {NoDefault}]]
  BY <1>2 DEF TypeOK
<1>4. TypeOK'
  BY <1>3 DEF TypeOK, modVars
<1>5. \A f \in Aliases, c \in Chan :
         defaults[f][c] # NoDefault /\ PslItems \subseteq DOMAIN defaults[f][c] =>
           defaults'[f][c] # NoDefault /\ PslItems \subseteq DOMAIN defaults'[f][c]
  BY <1>2, ListAssumption DEF TypeOK
<1>6. LiveDefaultsExist'
  BY <1>5, ModulesKept DEF LiveDefaultsExist, TypeOK, ModChans, modVars
<1>7. CallInOrder'
  BY DEF CallInOrder
<1> QED
  BY <1>4, <1>6, <1>7, ModulesKept

-----------------------------------------------------------------------------
(* The steps that change which detChan belongs to which channel. *)

\* Taking a detChan from a channel frees the id.
LEMMA ClearAliasIInv ==
    ASSUME IInv, NEW a \in Aliases, NEW c \in Chan, ClearAlias(a, c) PROVE IInv'
<1> USE DEF IInv, ClearAlias, Ready, listVars
<1>1. TypeOK'
  BY DEF TypeOK
<1>2. /\ channels'[a][c] = -1
      /\ \A b \in Aliases, e \in Chan :
           <<b, e>> # <<a, c>> => channels'[b][e] = channels[b][e]
      /\ \A b : ModChans(b)' = ModChans(b)
  BY DEF TypeOK, ModChans
<1>3. ChannelsOwned'
  BY <1>2 DEF ChannelsOwned, TypeOK, ModChans
<1>4. OneChannelPerDetChan'
  BY <1>2 DEF OneChannelPerDetChan, TypeOK, ModChans
<1> QED
  BY <1>1, <1>3, <1>4 DEF DeadModulesEmpty, CallInOrder, LiveDefaultsExist,
     MasterHasEveryDetChan, ListsNeverDangle, ModChans, IsFree

\* Either outcome of _addAlias: no channel but (a, c) may hold the detChan it
\* displaces or the one it adds.
LEMMA AddAliasIInv ==
    ASSUME IInv, NEW a \in Aliases, NEW c \in Chan, NEW d \in DetChans,
           AddAlias(a, c, d)
    PROVE  IInv'
<1> DEFINE old == Displaced(a, c)
<1> USE DEF IInv
<1>1. /\ a \in live /\ a \in typed /\ c \in ModChans(a)
      /\ UNCHANGED <<live, typed, nChans, listVars>>
      /\ setting = NoCall
      /\ \A b : ModChans(b)' = ModChans(b)
  BY DEF AddAlias, Ready, TypeOK, ModChans
<1>2. old \subseteq DetChans /\ \A x \in old : x = channels[a][c] /\ x # -1
  BY DEF Displaced
<1>3. \A b \in live : \A e \in ModChans(b) :
         <<b, e>> # <<a, c>> => channels[b][e] \notin old
  BY <1>1, <1>2 DEF OneChannelPerDetChan
<1>4. CASE /\ IsFree(d) \/ d \in old
           /\ channels' = [channels EXCEPT ![a][c] = d]
           /\ owner' = [Unmapped(old) EXCEPT ![d] = a]
           /\ masterSet' = MasterWith(d)
  <2>1. TypeOK'
    <3>1. owner' \in [DetChans -> Aliases \cup {NoAlias}]
      BY <1>4, UnmappedType
    <3>2. masterSet' \in Seq(DetChans)
      BY <1>4, MasterWithMembers
    <3>3. channels' \in [Aliases -> [Chan -> DetChans \cup {-1}]]
      BY <1>4 DEF TypeOK
    <3> QED
      BY <1>1, <3>1, <3>2, <3>3 DEF TypeOK, listVars
  <2>2. \A b \in live : \A e \in ModChans(b) :
           <<b, e>> # <<a, c>> =>
               channels'[b][e] = channels[b][e] /\ channels'[b][e] # d
    <3> SUFFICES ASSUME NEW b \in live, NEW e \in ModChans(b), <<b, e>> # <<a, c>>
                 PROVE  channels'[b][e] = channels[b][e] /\ channels[b][e] # d
      OBVIOUS
    <3>1. channels'[b][e] = channels[b][e]
      BY <1>1, <1>4 DEF TypeOK, ModChans
    <3>2. channels[b][e] # d
      BY <1>3, <1>4, FreeIsUnused
    <3> QED
      BY <3>1, <3>2
  <2>3. channels'[a][c] = d
    BY <1>1, <1>4 DEF TypeOK
  <2>4. owner'[d] = a
    BY <1>4, UnmappedType
  <2>5. \A x \in DetChans \ (old \cup {d}) : owner'[x] = owner[x]
    BY <1>4, UnmappedType
  <2>6. ChannelsOwned'
    <3> SUFFICES ASSUME NEW b \in live, NEW e \in ModChans(b), channels'[b][e] # -1
                 PROVE  owner'[channels'[b][e]] = b
      BY <1>1 DEF ChannelsOwned
    <3>1. CASE <<b, e>> = <<a, c>>
      BY <3>1, <2>3, <2>4
    <3>2. CASE <<b, e>> # <<a, c>>
      <4>1. channels'[b][e] = channels[b][e] /\ channels[b][e] \notin old \cup {d}
        BY <3>2, <2>2, <1>3
      <4>2. channels[b][e] \in DetChans
        BY <4>1 DEF TypeOK, ModChans
      <4> QED
        BY <4>1, <4>2, <2>5 DEF ChannelsOwned
    <3> QED
      BY <3>1, <3>2
  <2>7. OneChannelPerDetChan'
    BY <1>1, <2>2, <2>3 DEF OneChannelPerDetChan
  <2>8. MasterHasEveryDetChan'
    <3>1. \A x \in DetChans : owner'[x] # NoAlias => owner[x] # NoAlias \/ x = d
      BY <1>4, UnmappedType
    <3>2. ASSUME NEW x \in DetChans, owner'[x] # NoAlias
          PROVE  \E k \in 1..Len(masterSet') : masterSet'[k] = x
      <4>1. CASE x = d
        BY <4>1, <1>4, MasterWithMembers
      <4>2. CASE x # d
        <5>1. \E k \in 1..Len(masterSet) : masterSet[k] = x
          BY <4>2, <3>1, <3>2 DEF MasterHasEveryDetChan, IsFree
        <5> QED
          BY <5>1, <1>4, MasterWithMembers
      <4> QED
        BY <4>1, <4>2
    <3> QED
      BY <3>2 DEF MasterHasEveryDetChan, IsFree
  <2> QED
    BY <1>1, <2>1, <2>6, <2>7, <2>8 DEF DeadModulesEmpty, CallInOrder,
       LiveDefaultsExist, ListsNeverDangle, listVars
<1>5. CASE /\ channels' = ChannelReset(a, c)
           /\ owner' = Unmapped(old)
           /\ UNCHANGED masterSet
  <2>1. TypeOK'
    <3>1. owner' \in [DetChans -> Aliases \cup {NoAlias}]
      BY <1>5, UnmappedType
    <3>2. channels' \in [Aliases -> [Chan -> DetChans \cup {-1}]]
      BY <1>5 DEF TypeOK, ChannelReset
    <3> QED
      BY <1>1, <1>5, <3>1, <3>2 DEF TypeOK, listVars
  <2>2. /\ channels'[a][c] = -1
        /\ \A b \in live : \A e \in ModChans(b) :
             <<b, e>> # <<a, c>> => channels'[b][e] = channels[b][e]
    BY <1>1, <1>5 DEF TypeOK, ModChans, ChannelReset
  <2>3. ChannelsOwned'
    <3> SUFFICES ASSUME NEW b \in live, NEW e \in ModChans(b), channels'[b][e] # -1
                 PROVE  owner'[channels'[b][e]] = b
      BY <1>1 DEF ChannelsOwned
    <3>1. channels'[b][e] = channels[b][e] /\ channels[b][e] \notin old
      BY <2>2, <1>3
    <3>2. channels[b][e] \in DetChans
      BY <3>1 DEF TypeOK, ModChans
    <3> QED
      BY <3>1, <3>2, <1>5, UnmappedType DEF ChannelsOwned
  <2>4. OneChannelPerDetChan'
    BY <1>1, <2>2 DEF OneChannelPerDetChan
  <2>5. MasterHasEveryDetChan'
    BY <1>5, UnmappedType DEF MasterHasEveryDetChan, IsFree
  <2> QED
    BY <1>1, <2>1, <2>3, <2>4, <2>5 DEF DeadModulesEmpty, CallInOrder,
       LiveDefaultsExist, ListsNeverDangle, listVars
<1> QED
  BY <1>4, <1>5 DEF AddAlias

\* Removing a module leaves no channel of it, also when its freeing returned early.
LEMMA RemoveModuleIInv ==
    ASSUME IInv, NEW a \in Aliases, RemoveModule(a) PROVE IInv'
<1> DEFINE gone == DetChansOf(a)
<1> USE DEF IInv, RemoveModule, Ready
<1>1. TypeOK'
  BY UnmappedType, BoundAssumption DEF TypeOK, NoChannels, WithoutDefaults
<1>2. \A b \in live' : /\ b \in live /\ b # a
                       /\ ModChans(b)' = ModChans(b)
                       /\ channels'[b] = channels[b]
                       /\ defaults'[b] = defaults[b]
  BY DEF TypeOK, ModChans
<1>3. \A b \in live' : \A e \in ModChans(b) : channels[b][e] \notin gone
  BY <1>2 DEF OneChannelPerDetChan, DetChansOf
<1>4. ChannelsOwned'
  <2> SUFFICES ASSUME NEW b \in live', NEW e \in ModChans(b), channels[b][e] # -1
               PROVE  owner'[channels[b][e]] = b
    BY <1>2 DEF ChannelsOwned
  <2>1. channels[b][e] \in DetChans \ gone
    BY <1>2, <1>3 DEF TypeOK, ModChans
  <2> QED
    BY <1>2, <2>1, UnmappedType DEF ChannelsOwned
<1>5. OneChannelPerDetChan' /\ LiveDefaultsExist'
  BY <1>2 DEF OneChannelPerDetChan, LiveDefaultsExist
<1>6. MasterHasEveryDetChan'
  BY UnmappedType DEF MasterHasEveryDetChan, IsFree
<1>7. DeadModulesEmpty' /\ CallInOrder' /\ ListsNeverDangle'
  BY DEF DeadModulesEmpty, CallInOrder, ListsNeverDangle, TypeOK
<1> QED
  BY <1>1, <1>4, <1>5, <1>6, <1>7

\* In a state of the invariant, no module's freeing returns early.
LEMMA EveryModuleFreesLemma == IInv /\ Ready => EveryModuleFrees
<1> SUFFICES ASSUME IInv, Ready, NEW a \in live, NEW c \in ModChans(a)
             PROVE  /\ defaults[a][c] # NoDefault
                    /\ channels[a][c] # -1 =>
                         /\ ~IsFree(channels[a][c])
                         /\ \A b \in live : \A e \in ModChans(b) :
                              channels[b][e] = channels[a][c] => a = b /\ c = e
  BY DEF EveryModuleFrees
<1>1. channels[a][c] # -1 => ~IsFree(channels[a][c])
  BY AliasAssumption DEF IInv, TypeOK, ChannelsOwned, IsFree
<1> QED
  BY <1>1 DEF IInv, Ready, LiveDefaultsExist, OneChannelPerDetChan

\* xiaInitMemory comes to its end, where the lists are empty.
LEMMA InitMemoryIInv == ASSUME IInv, InitMemory PROVE IInv'
<1>1. Init'
  BY EveryModuleFreesLemma DEF InitMemory, Init, Ready, IInv, CallInOrder
<1> QED
  BY <1>1, InitIInv, PTL
-----------------------------------------------------------------------------
(* The theorems. *)

\* IInv is preserved by every step.
LEMMA NextIInv == IInv /\ [Next]_vars => IInv'
<1> SUFFICES ASSUME IInv, [Next]_vars PROVE IInv'
  OBVIOUS
<1>1. CASE UNCHANGED vars
  BY <1>1 DEF vars, IInv, TypeOK, DeadModulesEmpty, CallInOrder, ChannelsOwned,
     OneChannelPerDetChan, LiveDefaultsExist, MasterHasEveryDetChan,
     ListsNeverDangle, ModChans, IsFree
<1>2. CASE InitMemory
  BY <1>2, InitMemoryIInv
<1>3. ASSUME NEW a \in Aliases, NewModule(a) \/ AddModuleType(a) \/ RemoveModule(a)
      PROVE  IInv'
  BY <1>3, NewModuleIInv, AddModuleTypeIInv, RemoveModuleIInv
<1>4. ASSUME NEW a \in Aliases, NEW n \in 1..MaxChans, AddNumChans(a, n) PROVE IInv'
  BY <1>4, AddNumChansIInv
<1>5. ASSUME NEW a \in Aliases, NEW c \in Chan,
             \/ ClearAlias(a, c)
             \/ \E d \in DetChans : AddAlias(a, c, d)
             \/ \E S \in SUBSET Items, v \in UserValues : LoadDefaults(a, c, S, v)
      PROVE  IInv'
  BY <1>5, ClearAliasIInv, AddAliasIInv, LoadDefaultsIInv
<1>6. ASSUME NEW a \in Aliases, NEW b \in Aliases, NEW e \in Chan,
             \/ \E c \in Chan : ProcessDefault(a, {c}, b, e)
             \/ ProcessDefault(a, ModChans(a), b, e)
      PROVE  IInv'
  BY <1>6, ProcessDefaultIInv
<1>7. CASE CopyDefaults \/ FillDefaults \/ RestoreDefaults
  BY <1>7, CopyDefaultsIInv, FillDefaultsIInv, RestoreDefaultsIInv
<1> QED
  BY <1>1, <1>2, <1>3, <1>4, <1>5, <1>6, <1>7 DEF Next

\* Whatever sequence of calls builds the configuration, IInv holds.
THEOREM Invariance == Spec => []IInv
<1>1. Init => IInv
  BY InitIInv
<1>2. IInv /\ [Next]_vars => IInv'
  BY NextIInv
<1> QED
  BY <1>1, <1>2, PTL DEF Spec

\* Type correctness.
THEOREM TypeCorrect == Spec => []TypeOK
  BY Invariance, PTL DEF IInv

\* A detChan named by a channel is mapped to the channel's module, and no two
\* channels share one.
THEOREM DetChansHaveOneChannel == Spec => [](ChannelsOwned /\ OneChannelPerDetChan)
  BY Invariance, PTL DEF IInv

\* xiaInitMemory, and so xiaInit and xiaExit, never leaves a list head that
\* points at freed elements.
THEOREM MemoryAlwaysFreed == Spec => []ListsNeverDangle
  BY Invariance, PTL DEF IInv

\* The defaults of every module exist, with every value the PSL works with, and
\* detChan -1 reaches every mapped detChan.
THEOREM LookupsSucceed == Spec => [](LiveDefaultsExist /\ MasterHasEveryDetChan)
  BY Invariance, PTL DEF IInv

\* No step of xiaSetDefaults loses or replaces a value the configuration holds:
\* while the list is overwritten with the PSL's values, the copy has its own.
THEOREM DefaultsSurvive == Spec => DefaultsSurviveAddNumChans
<1> DEFINE Kept == setting # NoCall \/ setting' # NoCall =>
                     \A a \in Aliases : \A c \in Chan : defaults[a][c] # NoDefault =>
                       \A i \in DOMAIN Held(a, c) :
                         i \in DOMAIN Held(a, c)' /\ Held(a, c)'[i] = Held(a, c)[i]
<1>1. IInv /\ [Next]_vars => [Kept]_vars
  <2> SUFFICES ASSUME IInv, Next, setting # NoCall \/ setting' # NoCall,
                      NEW a \in Aliases, NEW c \in Chan, defaults[a][c] # NoDefault,
                      NEW i \in DOMAIN Held(a, c)
               PROVE  i \in DOMAIN Held(a, c)' /\ Held(a, c)'[i] = Held(a, c)[i]
    OBVIOUS
  <2> DEFINE k == setting.mod
             e == setting.chan
             l == defaults[k][e]
  <2>1. TypeOK /\ CallInOrder /\ defaults[a][c] \in List
    BY DEF IInv, TypeOK
  <2>2. ASSUME NEW b \in Aliases, NEW n \in 1..MaxChans, AddNumChans(b, n)
        PROVE  Held(a, c)' = Held(a, c)
    BY <2>2 DEF AddNumChans, Ready, Held
  <2>3. CASE CopyDefaults
    <3>1. /\ setting # NoCall /\ setting.step = "copy" /\ temporary = NoDefault
          /\ temporary' = AddEntries(NoEntries, Found)
          /\ setting' = [setting EXCEPT !.step = "fill"] /\ SetList(Found)
          /\ Found \in List
      BY <2>1, <2>3, CallIs DEF CopyDefaults, CallInOrder
    <3>2. /\ setting'.mod = k /\ setting'.chan = e /\ setting'.step = "fill"
          /\ setting' # NoCall
      BY <2>1, <3>1, CallIs, CallIsNotNoCall DEF Setting
    <3>3. Held(a, c) = defaults[a][c]
      BY <3>1 DEF Held
    <3>4. CASE a = k /\ c = e
      <4>1. Found = defaults[a][c] /\ defaults'[a][c] = Found
        BY <2>1, <3>1, <3>4, CallIs, SetListIs
      <4>2. Held(a, c)' = AddEntries(Found, temporary')
        BY <3>2, <3>4, <4>1 DEF Held, AddEntries
      <4>3. /\ Found \in List /\ Held(a, c) = Found /\ i \in DOMAIN Found
            /\ NoEntries \in List /\ DOMAIN NoEntries = {}
            /\ temporary' = AddEntries(NoEntries, Found)
        BY <3>1, <3>3, <4>1, ListsAre
      <4>4. /\ temporary' \in List /\ temporary'[i] = Found[i]
            /\ DOMAIN temporary' = DOMAIN NoEntries \cup DOMAIN Found
        BY ONLY <4>3, AddEntriesIs
      <4> DEFINE t == temporary'
      <4>5. t \in List /\ i \in DOMAIN t /\ Found \in List
        BY ONLY <4>3, <4>4
      <4> HIDE DEF t
      <4>6. /\ DOMAIN AddEntries(Found, t) = DOMAIN Found \cup DOMAIN t
            /\ AddEntries(Found, t)[i] = t[i]
        BY ONLY <4>5, AddEntriesIs
      <4>7. t[i] = Found[i]
        BY <4>4 DEF t
      <4>8. i \in DOMAIN AddEntries(Found, t) /\ AddEntries(Found, t)[i] = Found[i]
        BY ONLY <4>3, <4>6, <4>7
      <4>9. Held(a, c)' = AddEntries(Found, t)
        BY <4>2 DEF t
      <4>10. DOMAIN Held(a, c)' = DOMAIN AddEntries(Found, t)
        BY ONLY <4>9
      <4>11. Held(a, c)'[i] = Held(a, c)[i]
        BY ONLY <4>3, <4>8, <4>9
      <4> QED
        BY ONLY <4>8, <4>10, <4>11
    <3>5. CASE ~(a = k /\ c = e)
      BY <2>1, <3>1, <3>2, <3>3, <3>5, SetListIs DEF Held
    <3> QED
      BY <3>4, <3>5
  <2>4. CASE FillDefaults
    <3>1. /\ setting # NoCall /\ setting.step = "fill" /\ UNCHANGED temporary
          /\ setting' = [setting EXCEPT !.step = "restore"]
          /\ SetList(AddEntries(Found, PslEntries))
          /\ temporary \in List /\ Found \in List /\ Found = l
          /\ AddEntries(Found, PslEntries) \in List
      BY <2>1, <2>4, CallIs, AddEntriesIs, ListsAre DEF FillDefaults, CallInOrder, TypeOK
    <3>2. /\ setting'.mod = k /\ setting'.chan = e /\ setting'.step = "restore"
          /\ setting' # NoCall
      BY <2>1, <3>1, CallIs, CallIsNotNoCall DEF Setting
    <3>3. CASE a = k /\ c = e
      <4>1. Held(a, c) = AddEntries(Found, temporary)
        BY <3>1, <3>3 DEF Held
      <4>2. Held(a, c)' = AddEntries(AddEntries(Found, PslEntries), temporary)
        BY <2>1, <3>1, <3>2, <3>3, SetListIs DEF Held, AddEntries
      <4> DEFINE g == AddEntries(Found, PslEntries)
      <4>3. g \in List /\ Found \in List /\ temporary \in List
        BY <3>1
      <4>4. DOMAIN Found \subseteq DOMAIN temporary /\ i \in DOMAIN AddEntries(Found, temporary)
        BY <2>1, <3>1, <4>1 DEF CallInOrder
      <4> HIDE DEF g
      <4>5. /\ DOMAIN AddEntries(Found, temporary) = DOMAIN Found \cup DOMAIN temporary
            /\ \A j \in DOMAIN temporary : AddEntries(Found, temporary)[j] = temporary[j]
        BY ONLY <4>3, AddEntriesIs
      <4>6. /\ DOMAIN AddEntries(g, temporary) = DOMAIN g \cup DOMAIN temporary
            /\ \A j \in DOMAIN temporary : AddEntries(g, temporary)[j] = temporary[j]
        BY ONLY <4>3, AddEntriesIs
      <4>7. i \in DOMAIN temporary
        BY ONLY <4>4, <4>5
      <4> QED
        BY <4>1, <4>2, <4>5, <4>6, <4>7 DEF g
    <3>4. CASE ~(a = k /\ c = e)
      <4>1. Held(a, c) = defaults[a][c] /\ Held(a, c)' = defaults'[a][c]
        BY <3>2, <3>4 DEF Held
      <4> QED
        BY <2>1, <3>1, <3>4, <4>1, SetListIs
    <3> QED
      BY <3>3, <3>4
  <2>5. CASE RestoreDefaults
    <3>1. /\ setting # NoCall /\ setting.step = "restore"
          /\ SetList(AddEntries(Found, temporary)) /\ setting' = NextChannel
          /\ temporary \in List /\ Found \in List /\ Found = l
          /\ AddEntries(Found, temporary) \in List
      BY <2>1, <2>5, CallIs, AddEntriesIs DEF RestoreDefaults, CallInOrder, TypeOK
    <3>2. setting' = NoCall \/ setting'.step = "copy"
      BY <2>1, <3>1, CallIs DEF NextChannel, Setting
    <3>3. Held(a, c)' = defaults'[a][c]
      BY <3>2 DEF Held
    <3>4. CASE a = k /\ c = e
      BY <2>1, <3>1, <3>3, <3>4, SetListIs DEF Held
    <3>5. CASE ~(a = k /\ c = e)
      BY <2>1, <3>1, <3>3, <3>5, SetListIs DEF Held
    <3> QED
      BY <3>4, <3>5
  <2>6. \/ \E b \in Aliases, n \in 1..MaxChans : AddNumChans(b, n)
        \/ CopyDefaults \/ FillDefaults \/ RestoreDefaults
    BY DEF Next, NewModule, AddModuleType, RemoveModule, ClearAlias, AddAlias,
       LoadDefaults, ProcessDefault, InitMemory, Ready, listVars
  <2> QED
    BY <2>2, <2>3, <2>4, <2>5, <2>6
<1> QED
  BY <1>1, Invariance, PTL DEF Spec, DefaultsSurviveAddNumChans
=============================================================================
