--------------------------- MODULE IndexRegistry ---------------------------
(***************************************************************************)
(* What the list of devices in xgpu_drv/libxgpu.c promises its users: a    *)
(* device that is registered has an index, the number in the names of its  *)
(* device files (/dev/xgpu0, /dev/xgpu1, ...), which no other registered   *)
(* device has and which it keeps until it is unregistered.  Which free     *)
(* number a device gets is left open.                                      *)
(***************************************************************************)
EXTENDS Naturals

CONSTANT Devices

VARIABLE index      \* a partial function from Devices to Nat

Init == index = [d \in {} |-> 0]

(* A device appears with a number no registered device has; the numbers of *)
(* the registered devices stay as they are.                                *)
Register(d) ==
  /\ d \notin DOMAIN index
  /\ DOMAIN index' = DOMAIN index \cup {d}
  /\ index'[d] \in Nat
  /\ \A e \in DOMAIN index : index'[e] = index[e] /\ index[e] # index'[d]

Unregister(d) ==
  /\ d \in DOMAIN index
  /\ DOMAIN index' = DOMAIN index \ {d}
  /\ \A e \in DOMAIN index' : index'[e] = index[e]

Next == \E d \in Devices : Register(d) \/ Unregister(d)

Spec == Init /\ [][Next]_index
=============================================================================
