----------------------------- MODULE LibXgpuInv -----------------------------
(***************************************************************************)
(* The inductive invariant of LibXgpu: what a device holds at every point  *)
(* of xgpu_device_open and xgpu_device_close.  The safety properties of    *)
(* LibXgpu say what holds when a call has returned or a handler runs;      *)
(* this says what makes them true, call by call, and is what               *)
(* LibXgpuProofs proves and the runs check.                                *)
(***************************************************************************)
EXTENDS LibXgpu

(***************************************************************************)
(* The locations, by what the library holds when it is there.              *)
(***************************************************************************)
HandlerLocs ==
  {"request_vec", "undo_vec", "undo_sync", "flush", "open", "teardown", "sync_irq",
   "free_vec", "sync_vec"}
VectorLocs == {"request_vec", "undo_vec", "undo_sync", "free_vec", "sync_vec"}
MappedLocs == {"dma_mask", "quiesce", "msix", "msi", "irq_setup", "err_msix"} \cup HandlerLocs
EnabledLocs ==
  {"region2", "region5", "map", "err_mask", "err_map", "err_regions"} \cup MappedLocs
ListedLocs == {"enable", "err_enable"} \cup EnabledLocs
LiveLocs == {"list_add", "free_xdev"} \cup ListedLocs
PreMapLocs == {"list_add", "enable", "region2", "region5"}
PreMsiLocs == PreMapLocs \cup {"map", "dma_mask", "quiesce", "msix", "msi"}
MsiLocs == {"irq_setup"} \cup HandlerLocs

LiveInv(d) == xdev[d].live <=> pc[d] \in LiveLocs

EnableInv(d) == pci[d].enable_cnt = IF pc[d] \in EnabledLocs THEN 1 ELSE 0

(* The BARs the kernel has mapped are those xdev->bar records.             *)
MapInv(d) ==
  /\ pc[d] \in PreMapLocs => xdev[d].bar = {}
  /\ pc[d] = "map" => xdev[d].bar \subseteq BarPresent[d]
  /\ pc[d] \in MappedLocs => xdev[d].bar = BarPresent[d]
  /\ pci[d].iomaps = IF pc[d] \in {"map", "err_mask"} \cup MappedLocs THEN xdev[d].bar ELSE {}

(* The flags agree with the kernel while handlers may be registered; after *)
(* a failure a flag may be set for a mode the kernel refused.              *)
MsiInv(d) ==
  /\ pc[d] \in PreMsiLocs => ~xdev[d].msix_enabled /\ ~xdev[d].msi_enabled
  /\ ~(xdev[d].msix_enabled /\ xdev[d].msi_enabled)
  /\ pc[d] \in VectorLocs => xdev[d].msix_enabled
  /\ pc[d] = "sync_irq" => ~xdev[d].msix_enabled
  /\ pci[d].msi = "msix" => xdev[d].msix_enabled
  /\ pci[d].msi = "msi" => xdev[d].msi_enabled
  /\ pc[d] \in MsiLocs =>
       /\ xdev[d].msix_enabled => pci[d].msi = "msix"
       /\ xdev[d].msi_enabled => pci[d].msi = "msi"
  /\ pc[d] \notin {"err_msix"} \cup MsiLocs => pci[d].msi = "intx"

(* The lines with a handler, from the location and the loop variable.      *)
Registered(d) ==
  CASE pc[d] \in {"request_vec", "undo_sync"} -> Vectors(0, user_i[d] - 1)
    [] pc[d] = "undo_vec" -> Vectors(0, user_i[d])
    [] pc[d] = "free_vec" -> Vectors(user_i[d], UserMax - 1)
    [] pc[d] = "sync_vec" -> Vectors(user_i[d] + 1, UserMax - 1)
    [] pc[d] \in {"flush", "open", "teardown"} -> HandlersOf(d)
    [] OTHER -> {}

LoopInv(d) ==
  /\ pc[d] \in {"request_vec", "free_vec"} => user_i[d] \in 0..UserMax
  /\ pc[d] \in {"undo_sync", "sync_vec"} => user_i[d] \in 0..(UserMax - 1)
  /\ pc[d] = "undo_vec" => user_i[d] \in -1..(UserMax - 1)

LineOf(d) == IF xdev[d].msi_enabled THEN MsiLine ELSE Intx

IrqInv(d) ==
  /\ pci[d].irqs = Registered(d)
  /\ LoopInv(d)
  /\ pc[d] \in {"flush", "open", "teardown", "sync_irq"} /\ ~xdev[d].msix_enabled =>
       xdev[d].irq_line = LineOf(d)

(* A handler that runs is registered, or free_irq waits for it.            *)
WaitingFor(d) ==
  CASE pc[d] \in {"undo_sync", "sync_vec"} -> {Vector(user_i[d])}
    [] pc[d] = "sync_irq" -> {xdev[d].irq_line}
    [] OTHER -> {}

RunInv(d) == \A l \in Lines : <<d, l>> \in running => l \in pci[d].irqs \cup WaitingFor(d)

DevInv(d) ==
  LiveInv(d) /\ EnableInv(d) /\ MapInv(d) /\ MsiInv(d) /\ IrqInv(d) /\ RunInv(d)

ListInv ==
  /\ \A d \in Devices : d \in Listed <=> pc[d] \in ListedLocs
  /\ ListInOrder

(* The inductive invariant of the library.                                 *)
IInv == TypeOK /\ ListInv /\ \A d \in Devices : DevInv(d)
=============================================================================
