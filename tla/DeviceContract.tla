--------------------------- MODULE DeviceContract ---------------------------
(***************************************************************************)
(* What the device library promises to the PCI driver that calls it: an    *)
(* open ends with the device open, with one kind of interrupt, or closed;  *)
(* a close, and an open that has failed, can only close the device.        *)
(* LibXgpu implements this, and XgpuMod builds on it.                      *)
(***************************************************************************)
EXTENDS Integers

CONSTANTS
  Devices,       \* the PCI devices
  UserMax,       \* the user interrupts asked for
  MsixCapable,   \* the devices with the MSI-X capability
  MsiCapable,    \* the devices with the MSI capability
  HasPin         \* the devices with an interrupt pin

VARIABLE lib     \* what the library makes of each device

(* The kinds of interrupt a device can be opened with.                     *)
Kinds(d) ==
  {k \in {"intx", "msi", "msix"} :
    /\ k = "intx" => d \in HasPin
    /\ k = "msi" => d \in MsiCapable
    /\ k = "msix" => d \in MsixCapable /\ UserMax > 0}

States(d) == {"closed", "opening", "closing"} \cup Kinds(d)

Init == lib = [d \in Devices |-> "closed"]

Becomes(d, from, to) == lib[d] = from /\ lib' = [lib EXCEPT ![d] = to]

CallOpen(d) == Becomes(d, "closed", "opening")
OpenReturns(d) == \E k \in Kinds(d) : Becomes(d, "opening", k)
OpenFails(d) == Becomes(d, "opening", "closing") \/ Becomes(d, "opening", "closed")
CallClose(d) == \E k \in Kinds(d) : Becomes(d, k, "closing")
Closed(d) == Becomes(d, "closing", "closed")

Next ==
  \E d \in Devices :
    CallOpen(d) \/ OpenReturns(d) \/ OpenFails(d) \/ CallClose(d) \/ Closed(d)

Spec == Init /\ [][Next]_lib
=============================================================================
