--------------------------- MODULE HandelConfigMC ---------------------------
(* Instance of HandelConfig for TLC: two modules of up to two channels and   *)
(* three detChan ids, one of them negative (accepted by _addAlias and never  *)
(* displaced), so that ids are moved between channels and between modules;   *)
(* and two names of values, one of which the PSL knows.                      *)
(*                                                                           *)
(* The lists of detChans and those of values do not depend on each other, so *)
(* a behaviour explores one of the two: once the user has given a value, no  *)
(* detChan is declared.                                                      *)
EXTENDS HandelConfig, TLC

MCDetChans == {0, 1, -2}
MCPermutations == Permutations(Aliases)

\* Bound: the lists hold a value of the user's, or detChans, and not both.
UserGave(l) == l # NoDefault /\ \E i \in DOMAIN l : l[i] # PslValue
Scope == masterSet = <<>> \/ \A a \in Aliases : \A c \in Chan : ~UserGave(defaults[a][c])

MCNext == Next /\ Scope'
MCSpec == Init /\ [][MCNext]_vars
=============================================================================
