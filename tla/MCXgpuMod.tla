----------------------------- MODULE MCXgpuMod -----------------------------
(***************************************************************************)
(* Instances of XgpuMod for TLC: the devices d1 and d2, and short tables   *)
(* of device files.                                                        *)
(***************************************************************************)
EXTENDS XgpuMod

CONSTANTS d1, d2

OneDevice == {d1}
TwoDevices == {d1, d2}

(* Two files of the first type: the second of them is one whose minor is   *)
(* not 0 and whose list is not empty, as are all the files after it.       *)
ShortTables == [t \in 0..2 |-> IF t = 0 THEN 2 ELSE 1]
=============================================================================
