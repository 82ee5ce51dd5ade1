---------------------------- MODULE HandelConfig ----------------------------
(***************************************************************************)
(* Handel's dynamic configuration (handel_dyn_module.c, handel_detchan.c,  *)
(* handel_dyn_default.c and the list initialisation of handel.c): the      *)
(* modules, the detector channel ids ("detChans") the application gives    *)
(* their channels, the master detChan -1 that stands for every channel,    *)
(* and the defaults lists that hold each channel's acquisition values.     *)
(*                                                                         *)
(* The three linked lists are kept consistent by convention only: a        *)
(* channel and the detChan list each hold half of the same relation, and a *)
(* module finds its defaults by a name built from its alias.               *)
(*                                                                         *)
(* Abstractions.  A linked list searched for the first match is a function *)
(* from the key, since xiaNewModule, xiaIsDetChanFree and xiaNewDefault    *)
(* refuse a key in use; only the member list of detChan -1 keeps its order *)
(* and its duplicates.  A defaults list is a function from the names of its *)
(* entries to their values: xiaAddDefaultItem refuses no name and keeps    *)
(* one entry for each.  Aliases are lower case (xiaFindModule lowers the   *)
(* key it looks for), no file names a list "temporary_defaults", and every *)
(* allocation succeeds.                                                    *)
(***************************************************************************)
EXTENDS Integers, Sequences

CONSTANTS Aliases,     \* module aliases
          NoAlias,     \* the owner of a detChan that is free
          DetChans,    \* the detChan ids an application may choose
          MaxChans,    \* channels of the largest module
          Items,       \* names of acquisition values
          PslItems,    \* those the PSL's getDefaultAlias reports
          UserValues,  \* acquisition values given by the user
          PslValue,    \* the value the PSL's getDefaultAlias reports
          NoDefault,   \* the defaults list does not exist
          MaxMaster    \* bound: members detChan -1 may accumulate

ASSUME AliasAssumption == NoAlias \notin Aliases
ASSUME DetChanAssumption == DetChans \subseteq Int \ {-1}
ASSUME BoundAssumption == MaxChans \in Nat /\ MaxMaster \in Nat
ASSUME ItemAssumption == PslItems \subseteq Items

Chan == 0..(MaxChans - 1)
Value == UserValues \cup {PslValue}
List == UNION {[S -> Value] : S \in SUBSET Items}

ASSUME ListAssumption == NoDefault \notin List

VARIABLES live,       \* aliases of the modules in xiaModuleHead's list
          typed,      \* those whose module_type is set
          nChans,     \* Module.number_of_channels
          channels,   \* Module.channels[]: the detChan of a channel, or -1
          owner,      \* DetChanElement.modAlias of a SINGLE, or NoAlias
          masterSet,  \* member list of the SET detChan -1 (empty: no such SET)
          defaults,   \* the list "defaults_<alias>_<chan>"
          temporary,  \* the list "temporary_defaults"
          setting,    \* where xiaSetDefaults is, or NoCall
          listsOk     \* FALSE once a list head points at freed elements

vars == <<live, typed, nChans, channels, owner, masterSet, defaults, temporary,
          setting, listsOk>>

NoCall == [mod |-> NoAlias, chan |-> 0, step |-> "copy"]
Setting == [mod : Aliases, chan : Chan, step : {"copy", "fill", "restore"}]

TypeOK ==
    /\ live \subseteq Aliases
    /\ typed \subseteq live
    /\ nChans \in [Aliases -> 0..MaxChans]
    /\ channels \in [Aliases -> [Chan -> DetChans \cup {-1}]]
    /\ owner \in [DetChans -> Aliases \cup {NoAlias}]
    /\ masterSet \in Seq(DetChans)
    /\ defaults \in [Aliases -> [Chan -> List \cup {NoDefault}]]
    /\ temporary \in List \cup {NoDefault}
    /\ setting \in Setting \cup {NoCall}
    /\ setting # NoCall => setting.mod \in live /\ setting.chan < nChans[setting.mod]
    /\ listsOk \in BOOLEAN

listVars == <<defaults, temporary, setting, listsOk>>
modVars == <<live, typed, nChans, channels, owner, masterSet>>

-----------------------------------------------------------------------------
(* What the lists say of one module. *)

\* The channels module a has; channels[a] is -1 beyond them.
ModChans(a) == {c \in Chan : c < nChans[a]}

\* The detChans its channels[] array names.
DetChansOf(a) == {channels[a][c] : c \in ModChans(a)} \ {-1}

\* Mutant: negative ids are always free.
MutIsFree(d) == owner[d] = NoAlias \/ d < -1

\* xiaIsDetChanFree.
IsFree(d) == owner[d] = NoAlias

\* xiaAddDetChan puts d at the tail of detChan -1, which it creates if need be.
MasterWith(d) == Append(masterSet, d)

\* xiaRemoveDetChan for each detChan of ids; detChan -1 keeps its members.
Unmapped(ids) == [d \in DetChans |-> IF d \in ids THEN NoAlias ELSE owner[d]]

NoChannels == [c \in Chan |-> -1]
NoDefaults == [c \in Chan |-> NoDefault]

\* The list is empty: xiaNewDefault.
NoEntries == [i \in {} |-> PslValue]

\* What the PSL's getDefaultAlias reports.
PslEntries == [i \in PslItems |-> PslValue]

\* xiaAddDefaultItem for every entry of list m: an entry of that name in list l
\* is modified, any other is added.
AddEntries(l, m) ==
    [i \in DOMAIN l \cup DOMAIN m |-> IF i \in DOMAIN m THEN m[i] ELSE l[i]]

\* xiaFreeModule takes the defaults lists of module a's channels away.
WithoutDefaults(a) ==
    [c \in Chan |-> IF c \in ModChans(a) THEN NoDefault ELSE defaults[a][c]]

-----------------------------------------------------------------------------
Init ==
    /\ live = {} /\ typed = {}
    /\ nChans = [a \in Aliases |-> 0]
    /\ channels = [a \in Aliases |-> NoChannels]
    /\ owner = [d \in DetChans |-> NoAlias]
    /\ masterSet = <<>>
    /\ defaults = [a \in Aliases |-> NoDefaults]
    /\ temporary = NoDefault
    /\ setting = NoCall
    /\ listsOk = TRUE

\* The library is between two calls of the application.
Ready == listsOk /\ setting = NoCall

\* xiaNewModule: an alias in use is refused.
NewModule(a) ==
    /\ Ready
    /\ a \notin live
    /\ live' = live \cup {a}
    /\ UNCHANGED <<typed, nChans, channels, owner, masterSet, listVars>>

\* Mutant: the alias is not looked up first.
MutAddModuleType(a) ==
    /\ Ready
    /\ a \notin typed
    /\ typed' = typed \cup {a}
    /\ UNCHANGED <<live, nChans, channels, owner, masterSet, listVars>>

\* xiaAddModuleItem "module_type": set once.
AddModuleType(a) ==
    /\ Ready
    /\ a \in live \ typed
    /\ typed' = typed \cup {a}
    /\ UNCHANGED <<live, nChans, channels, owner, masterSet, listVars>>

\* xiaAddModuleItem "number_of_channels".  It may be called again: the arrays
\* are then allocated anew and the detChans of the old ones stay in the list.
AddNumChans(a, n) ==
    /\ Ready
    /\ a \in typed
    /\ nChans' = [nChans EXCEPT ![a] = n]
    /\ channels' = [channels EXCEPT ![a] = NoChannels]
    /\ setting' = [mod |-> a, chan |-> 0, step |-> "copy"]
    /\ UNCHANGED <<live, typed, owner, masterSet, defaults, temporary, listsOk>>

\* The list xiaSetDefaults is at, created if it does not exist.
Found == IF defaults[setting.mod][setting.chan] = NoDefault
           THEN NoEntries ELSE defaults[setting.mod][setting.chan]

\* That list becomes l.
SetList(l) == defaults' = [defaults EXCEPT ![setting.mod][setting.chan] = l]

\* Mutant: the copy is taken when the PSL's values are already in the list.
MutCopyDefaults ==
    /\ setting # NoCall /\ setting.step = "copy"
    /\ SetList(AddEntries(Found, PslEntries))
    /\ temporary' = AddEntries(NoEntries, AddEntries(Found, PslEntries))
    /\ setting' = [setting EXCEPT !.step = "fill"]
    /\ UNCHANGED <<modVars, listsOk>>

\* xiaSetDefaults, for each channel: copy the list into a new temporary one.
\* When that one exists already the call ends with XIA_ALIAS_EXISTS.
CopyDefaults ==
    /\ setting # NoCall /\ setting.step = "copy"
    /\ SetList(Found)
    /\ IF temporary = NoDefault
         THEN /\ temporary' = AddEntries(NoEntries, Found)
              /\ setting' = [setting EXCEPT !.step = "fill"]
         ELSE setting' = NoCall /\ UNCHANGED temporary
    /\ UNCHANGED <<modVars, listsOk>>

\* Then fill the list with the PSL's values,
FillDefaults ==
    /\ setting # NoCall /\ setting.step = "fill"
    /\ SetList(AddEntries(Found, PslEntries))
    /\ setting' = [setting EXCEPT !.step = "restore"]
    /\ UNCHANGED <<modVars, temporary, listsOk>>

\* The channel after the one whose defaults are set, or the end of the call.
NextChannel ==
    IF setting.chan + 1 < nChans[setting.mod]
      THEN [setting EXCEPT !.chan = @ + 1, !.step = "copy"] ELSE NoCall

\* and write the copied values back over them; the temporary list is removed.
RestoreDefaults ==
    /\ setting # NoCall /\ setting.step = "restore"
    /\ SetList(AddEntries(Found, temporary))
    /\ temporary' = NoDefault
    /\ setting' = NextChannel
    /\ UNCHANGED <<modVars, listsOk>>

\* xiaAddModuleItem "channel{c}_alias" with -1 writes channels[] only.
ClearAlias(a, c) ==
    /\ Ready
    /\ a \in typed /\ c \in ModChans(a)
    /\ channels' = [channels EXCEPT ![a][c] = -1]
    /\ UNCHANGED <<live, typed, nChans, owner, masterSet, listVars>>

\* The detChans _addAlias takes out of the list before it adds d: a negative
\* one is left there.
Displaced(a, c) == {channels[a][c]} \cap {d \in DetChans : d > -1}

\* Mutant: the channel keeps the detChan it has lost.
MutChannelReset(a, c) == channels

\* _addAlias forgets the displaced detChan before it looks at the new one.
ChannelReset(a, c) == [channels EXCEPT ![a][c] = -1]

\* xiaAddModuleItem "channel{c}_alias" with any other detChan.
AddAlias(a, c, d) ==
    /\ Ready
    /\ a \in typed /\ c \in ModChans(a)
    /\ LET old == Displaced(a, c) IN
         \/ /\ IsFree(d) \/ d \in old
            /\ Len(masterSet) < MaxMaster
            /\ channels' = [channels EXCEPT ![a][c] = d]
            /\ owner' = [Unmapped(old) EXCEPT ![d] = a]
            /\ masterSet' = MasterWith(d)
         \/ /\ ~IsFree(d) /\ d \notin old     \* XIA_INVALID_DETCHAN
            /\ old # {}
            /\ channels' = ChannelReset(a, c)
            /\ owner' = Unmapped(old)
            /\ UNCHANGED masterSet
    /\ UNCHANGED <<live, typed, nChans, listVars>>

\* xiaLoadDefaults creates a list named in an ini file, with its entries.
LoadDefaults(a, c, S, v) ==
    /\ Ready
    /\ defaults[a][c] = NoDefault
    /\ defaults' = [defaults EXCEPT ![a][c] = [i \in S |-> v]]
    /\ UNCHANGED <<modVars, temporary, setting, listsOk>>

\* xiaProcessDefault merges the list of b's channel e into those of the
\* channels cs of module a ("default_chan{n}" or "default_all").
ProcessDefault(a, cs, b, e) ==
    /\ Ready
    /\ a \in typed /\ cs \subseteq ModChans(a)
    /\ defaults[b][e] # NoDefault
    /\ \A c \in cs : defaults[a][c] # NoDefault
    /\ defaults' = [defaults EXCEPT
                      ![a] = [c \in Chan |->
                                IF c \in cs THEN AddEntries(defaults[a][c], defaults[b][e])
                                            ELSE defaults[a][c]]]
    /\ UNCHANGED <<modVars, temporary, setting, listsOk>>

\* xiaRemoveModule unmaps the detChans and calls xiaFreeModule, which tries to
\* unmap them again: when there are any it stops at that error, before the
\* defaults are removed.  xiaRemoveModule ignores the error.
RemoveModule(a) ==
    /\ Ready
    /\ a \in live
    /\ live' = live \ {a}
    /\ typed' = typed \ {a}
    /\ nChans' = [nChans EXCEPT ![a] = 0]
    /\ channels' = [channels EXCEPT ![a] = NoChannels]
    /\ owner' = Unmapped(DetChansOf(a))
    /\ defaults' = IF DetChansOf(a) = {}
                     THEN [defaults EXCEPT ![a] = WithoutDefaults(a)]
                     ELSE defaults
    /\ UNCHANGED <<masterSet, temporary, setting, listsOk>>

-----------------------------------------------------------------------------
\* xiaInitModuleDS frees every module: each must find its detChans and its
\* defaults lists, and no other module may have taken them away.
EveryModuleFrees ==
    \A a \in live : \A c \in ModChans(a) :
        /\ defaults[a][c] # NoDefault
        /\ channels[a][c] # -1 =>
             /\ ~IsFree(channels[a][c])
             /\ \A b \in live : \A e \in ModChans(b) :
                  channels[b][e] = channels[a][c] => a = b /\ c = e

\* xiaInitMemory, run by xiaInit, xiaInitHandel and xiaExit.  When a module
\* cannot be freed it returns before the list heads are reset.
InitMemory ==
    /\ Ready
    /\ IF EveryModuleFrees
         THEN /\ live' = {} /\ typed' = {}
              /\ nChans' = [a \in Aliases |-> 0]
              /\ channels' = [a \in Aliases |-> NoChannels]
              /\ owner' = [d \in DetChans |-> NoAlias]
              /\ masterSet' = <<>>
              /\ defaults' = [a \in Aliases |-> NoDefaults]
              /\ UNCHANGED listsOk
         ELSE /\ listsOk' = FALSE
              /\ UNCHANGED <<modVars, defaults>>
    /\ UNCHANGED <<temporary, setting>>

Next ==
    \/ \E a \in Aliases :
         \/ NewModule(a) \/ AddModuleType(a) \/ RemoveModule(a)
         \/ \E n \in 1..MaxChans : AddNumChans(a, n)
         \/ \E c \in Chan :
              \/ ClearAlias(a, c)
              \/ \E d \in DetChans : AddAlias(a, c, d)
              \/ \E S \in SUBSET Items, v \in UserValues : LoadDefaults(a, c, S, v)
         \/ \E b \in Aliases, e \in Chan :
              \/ \E c \in Chan : ProcessDefault(a, {c}, b, e)
              \/ ProcessDefault(a, ModChans(a), b, e)
    \/ CopyDefaults \/ FillDefaults \/ RestoreDefaults
    \/ InitMemory

Spec == Init /\ [][Next]_vars

-----------------------------------------------------------------------------
(* Properties. *)

\* A detChan named by a channel of a module is mapped to that module: what
\* xiaRemoveDetChan and xiaGetModChan take for granted of each other.
ChannelsOwned ==
    \A a \in live : \A c \in ModChans(a) :
        channels[a][c] # -1 => owner[channels[a][c]] = a

\* No two channels, of one module or of two, answer to one detChan.
OneChannelPerDetChan ==
    \A a, b \in live : \A c \in ModChans(a), e \in ModChans(b) :
        channels[a][c] = channels[b][e] /\ channels[a][c] # -1
            => a = b /\ c = e

\* The defaults lists that xiaFreeModule and xiaGetDefaultFromDetChan look up
\* for a module exist, with every value the PSL works with, as long as the
\* module does; while xiaSetDefaults runs, those of the channels it is past.
LiveDefaultsExist ==
    \A a \in live : \A c \in ModChans(a) :
        (setting # NoCall /\ a = setting.mod => c < setting.chan)
            => defaults[a][c] # NoDefault /\ PslItems \subseteq DOMAIN defaults[a][c]

\* xiaExit and xiaInit can always free the configuration, whatever sequence of
\* calls built it: no list head is left pointing at freed elements.
ListsNeverDangle == listsOk

\* Every mapped detChan is reached by an operation on detChan -1.
MasterHasEveryDetChan ==
    \A d \in DetChans : ~IsFree(d) => \E k \in 1..Len(masterSet) : masterSet[k] = d

\* What the configuration holds for a channel: the list, and while
\* xiaSetDefaults is at the channel the temporary one over it.
Held(a, c) ==
    IF setting # NoCall /\ a = setting.mod /\ c = setting.chan /\ setting.step # "copy"
      THEN AddEntries(defaults[a][c], temporary) ELSE defaults[a][c]

\* Declaring a module's channels, step by step, fills in what the PSL knows and
\* neither loses nor replaces a value the configuration already has.
DefaultsSurviveAddNumChans ==
    [][setting # NoCall \/ setting' # NoCall =>
         \A a \in Aliases : \A c \in Chan : defaults[a][c] # NoDefault =>
           \A i \in DOMAIN Held(a, c) :
             i \in DOMAIN Held(a, c)' /\ Held(a, c)'[i] = Held(a, c)[i]]_vars

=============================================================================
