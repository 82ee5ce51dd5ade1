------------------------------ MODULE SessionMC ------------------------------
(* Instance of Session for TLC: three modules, two of them on one device, in *)
(* any order; all on USB 2.0, all on serial lines or mixed.                  *)
EXTENDS Session

CONSTANTS m1, m2, m3

MCDeviceOf == [a \in Modules |-> IF a = m1 THEN "dev0" ELSE "dev1"]
MCWirings == [Modules -> Ifaces]
=============================================================================
