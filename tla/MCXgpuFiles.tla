---------------------------- MODULE MCXgpuFiles ----------------------------
(***************************************************************************)
(* Instances of XgpuFiles for TLC: devices and tables as in MCXgpuMod.     *)
(***************************************************************************)
EXTENDS XgpuFiles

CONSTANTS d1, d2

OneDevice == {d1}
TwoDevices == {d1, d2}
ShortTables == [t \in 0..2 |-> IF t = 0 THEN 2 ELSE 1]
=============================================================================
