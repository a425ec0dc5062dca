----------------------------- MODULE MCLibXgpu -----------------------------
(***************************************************************************)
(* Instances of LibXgpu for TLC: the BARs of the devices d1 and d2.        *)
(***************************************************************************)
EXTENDS LibXgpuInv

CONSTANTS d1, d2

OneDevice == {d1}
TwoDevices == {d1, d2}
AllModes == 0..3

(* d1 has neither of the regions 2 and 5, so it can be opened again; d2    *)
(* has both, and once they have been requested it can not.                 *)
MixedBars == [d \in Devices |-> IF d = d1 THEN {0, 1} ELSE {1, 2, 5}]

(* A device whose BAR 0 is 64 bits wide: BAR 1 is its upper half.          *)
WideBars == [d \in Devices |-> {0, 2, 5}]
=============================================================================
