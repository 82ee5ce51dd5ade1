---------------------------- MODULE RunControlMC ----------------------------
(* Instance of RunControl for TLC: two modules of two channels at most.  The *)
(* member list of detChan -1 is in the order the channels were added: both   *)
(* channels of the first module and one of the second's, or one of each.     *)
EXTENDS RunControl

CONSTANTS m1, m2

MCDetChans == 0..3
MCModOf == [d \in MCDetChans |-> IF d < 2 THEN m1 ELSE m2]
MCMasterOrders == {<<0, 1, 2>>, <<0, 2>>}
=============================================================================
