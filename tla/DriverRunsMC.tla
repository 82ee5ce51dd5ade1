---------------------------- MODULE DriverRunsMC ----------------------------
(* Instance of DriverRuns for TLC: every product, the xMAP both with one and *)
(* with several channels; the hardware may fail at every site.               *)
EXTENDS DriverRuns
OneChannel == {"xmap", "saturn"}
ManyChannels == {"xmap", "mercury", "stj"}
OnlySaturn == {"saturn"}
NoProduct == {}
AllFaults == {"start", "stop", "task"}
StopFaults == {"stop"}
=============================================================================
