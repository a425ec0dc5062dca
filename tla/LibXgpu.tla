------------------------------ MODULE LibXgpu ------------------------------
(***************************************************************************)
(* The device library of the driver, xgpu_drv/libxgpu.c: opening and       *)
(* closing a device (xgpu_device_open, xgpu_device_close), the list of     *)
(* devices, and the interrupt handlers that run beside them.               *)
(*                                                                         *)
(* Every device has one thread that opens and closes it: the driver core   *)
(* serialises probe and remove of a device, and runs those of different    *)
(* devices concurrently.  The thread's location, pc[d], is the call of     *)
(* xgpu_device_open or xgpu_device_close it makes next; a location that is *)
(* a label of xgpu_device_open has its name, and the end of                *)
(* xgpu_device_close, which makes the same calls in the same order, shares *)
(* it.  A call into the kernel that can fail may fail whenever it is made. *)
(*                                                                         *)
(* The kernel's side of a device (struct pci_dev and the interrupt lines)  *)
(* is external: it is modelled by the contract of the functions called.    *)
(***************************************************************************)
EXTENDS Integers, Sequences, FiniteSets, SequencesExt

CONSTANTS
  Devices,       \* the PCI devices the driver is offered
  UserMax,       \* *user_max, the user interrupts the caller asks for
  MaxIdx,        \* bound: no open starts that could give an index above it
  Modes,         \* the values interrupt_mode is set to
  MsixCapable,   \* the devices with the MSI-X capability
  MsiCapable,    \* the devices with the MSI capability
  HasPin,        \* the devices with an interrupt pin
  BarPresent     \* the BARs of a device that have a length

Bars == 0..5

(* The BAR whose registers the driver uses: map_bars sets it to 1.         *)
ConfigBar == 1

ASSUME DevicesAssumption == IsFiniteSet(Devices)
ASSUME UserMaxAssumption == UserMax \in 0..16 /\ MaxIdx \in Nat
ASSUME ModesAssumption == Modes \subseteq 0..3 /\ 0 \in Modes
ASSUME CapabilityAssumption ==
  MsixCapable \subseteq Devices /\ MsiCapable \subseteq Devices /\ HasPin \subseteq Devices
ASSUME BarAssumption == BarPresent \in [Devices -> SUBSET Bars]

(***************************************************************************)
(* The interrupt numbers of a device: what pdev->irq is with and without   *)
(* MSI, and what pci_irq_vector returns.  NoLine is the 0 of zeroed memory.*)
(***************************************************************************)
Intx == <<"intx", 0>>
MsiLine == <<"msi", 0>>
Vector(j) == <<"msix", j>>
Vectors(m, n) == {Vector(j) : j \in m..n}
NoLine == <<"zero", 0>>
Lines == {Intx, MsiLine} \cup Vectors(0, 15)

VARIABLES
  pc,               \* the next call of the thread that opens and closes a device
  xdev,             \* struct xgpu_dev of a device, with "live" for: not freed
  user_i,           \* the loop variable i of the loops over the user vectors
  xdev_list,        \* the devices on xdev_list, from head to tail
  interrupt_mode,   \* the module parameter, writable while the module runs
  pci,              \* the kernel's state of a device
  running,          \* the pairs <<d, l>> whose interrupt handler is running
  panicked          \* an interrupt handler has crashed the kernel

vars == <<pc, xdev, user_i, xdev_list, interrupt_mode, pci, running, panicked>>

OpenLocs ==
  {"alloc", "list_add", "enable", "region2", "region5", "map", "dma_mask", "quiesce",
   "msix", "msi", "irq_setup", "request_vec", "undo_vec", "undo_sync", "flush"}
CloseLocs == {"teardown", "sync_irq", "free_vec", "sync_vec"}
ExitLocs == {"err_msix", "err_mask", "err_map", "err_regions", "err_enable", "free_xdev"}
Locations == {"idle", "open"} \cup OpenLocs \cup CloseLocs \cup ExitLocs

XgpuDev ==
  [live : BOOLEAN, offline : BOOLEAN, idx : Nat, bar : SUBSET Bars,
   irq_line : Lines \cup {NoLine}, msi_enabled : BOOLEAN, msix_enabled : BOOLEAN]

PciDev ==
  [enable_cnt : Nat, regions : SUBSET {2, 5}, iomaps : SUBSET Bars,
   msi : {"intx", "msi", "msix"}, irqs : SUBSET Lines]

NoXdev ==
  [live |-> FALSE, offline |-> FALSE, idx |-> 0, bar |-> {}, irq_line |-> NoLine,
   msi_enabled |-> FALSE, msix_enabled |-> FALSE]

Init ==
  /\ pc = [d \in Devices |-> "idle"]
  /\ xdev = [d \in Devices |-> NoXdev]
  /\ user_i = [d \in Devices |-> 0]
  /\ xdev_list = <<>>
  /\ interrupt_mode = 0
  /\ pci = [d \in Devices |->
             [enable_cnt |-> 0, regions |-> {}, iomaps |-> {}, msi |-> "intx", irqs |-> {}]]
  /\ running = {}
  /\ panicked = FALSE

Goto(d, from, to) == pc[d] = from /\ pc' = [pc EXCEPT ![d] = to]

Listed == ToSet(xdev_list)

(***************************************************************************)
(* xgpu_device_open, up to the interrupts.                                 *)
(***************************************************************************)

(* The bound keeps the indices finite: the list can outlive any device on  *)
(* it, and then its last index only grows.                                 *)
CallOpen(d) ==
  /\ Goto(d, "idle", "alloc")
  /\ \A e \in Devices : xdev[e].live => xdev[e].idx + Cardinality(Devices) =< MaxIdx
  /\ UNCHANGED <<xdev, user_i, xdev_list, interrupt_mode, pci, running, panicked>>

AllocDev(d) ==
  /\ \/ /\ Goto(d, "alloc", "list_add")
        /\ xdev' = [xdev EXCEPT ![d] = [NoXdev EXCEPT !.live = TRUE, !.offline = TRUE]]
     \/ Goto(d, "alloc", "idle") /\ UNCHANGED xdev
  /\ UNCHANGED <<user_i, xdev_list, interrupt_mode, pci, running, panicked>>

(* Mutant: the index is the number of devices, not one above the last.     *)
NextIdx_Length == Len(xdev_list)

NextIdx == IF xdev_list = <<>> THEN 0 ELSE xdev[Last(xdev_list)].idx + 1

(* Mutant: list_add in place of list_add_tail.                             *)
xdev_list_add_Head(d) ==
  /\ Goto(d, "list_add", "enable")
  /\ xdev' = [xdev EXCEPT ![d].idx = NextIdx]
  /\ xdev_list' = <<d>> \o xdev_list
  /\ UNCHANGED <<user_i, interrupt_mode, pci, running, panicked>>

xdev_list_add(d) ==
  /\ Goto(d, "list_add", "enable")
  /\ xdev' = [xdev EXCEPT ![d].idx = NextIdx]
  /\ xdev_list' = Append(xdev_list, d)
  /\ UNCHANGED <<user_i, interrupt_mode, pci, running, panicked>>

(* Mutant: a failed pci_enable_device unwinds from err_regions.            *)
EnableDevice_WrongLabel(d) ==
  /\ \/ /\ Goto(d, "enable", "region2")
        /\ pci' = [pci EXCEPT ![d].enable_cnt = @ + 1]
     \/ Goto(d, "enable", "err_regions") /\ UNCHANGED pci
  /\ UNCHANGED <<xdev, user_i, xdev_list, interrupt_mode, running, panicked>>

EnableDevice(d) ==
  /\ \/ /\ Goto(d, "enable", "region2")
        /\ pci' = [pci EXCEPT ![d].enable_cnt = @ + 1]
     \/ Goto(d, "enable", "err_enable") /\ UNCHANGED pci
  /\ UNCHANGED <<xdev, user_i, xdev_list, interrupt_mode, running, panicked>>

(* pci_request_region takes a region nobody holds; a BAR without length is *)
(* not there to take, and the call succeeds.                               *)
RequestRegion(d, r, from, to) ==
  /\ \/ /\ Goto(d, from, to)
        /\ r \notin pci[d].regions
        /\ pci' = [pci EXCEPT ![d].regions = @ \cup ({r} \cap BarPresent[d])]
     \/ Goto(d, from, "err_regions") /\ UNCHANGED pci
  /\ UNCHANGED <<xdev, user_i, xdev_list, interrupt_mode, running, panicked>>

request_regions(d) ==
  \/ RequestRegion(d, 2, "region2", "region5")
  \/ RequestRegion(d, 5, "region5", "map")

(* map_bars maps the BARs with a length in turn; when one cannot be mapped *)
(* it unmaps those it has mapped, which is what label err_mask does before *)
(* err_map, where the caller goes on.                                      *)
MapBar(d) ==
  \E i \in BarPresent[d] \ xdev[d].bar :
    /\ \A k \in BarPresent[d] : k < i => k \in xdev[d].bar
    /\ \/ /\ Goto(d, "map", "map")
          /\ xdev' = [xdev EXCEPT ![d].bar = @ \cup {i}]
          /\ pci' = [pci EXCEPT ![d].iomaps = @ \cup {i}]
       \/ Goto(d, "map", "err_mask") /\ UNCHANGED <<xdev, pci>>
    /\ UNCHANGED <<user_i, xdev_list, interrupt_mode, running, panicked>>

BarsMapped(d) ==
  /\ xdev[d].bar = BarPresent[d]
  /\ Goto(d, "map", "dma_mask")
  /\ UNCHANGED <<xdev, user_i, xdev_list, interrupt_mode, pci, running, panicked>>

set_dma_mask(d) ==
  /\ Goto(d, "dma_mask", "quiesce") \/ Goto(d, "dma_mask", "err_mask")
  /\ UNCHANGED <<xdev, user_i, xdev_list, interrupt_mode, pci, running, panicked>>

(* The register writes that mask every interrupt of the device, and the    *)
(* read that flushes them: an access through bar[config_bar_idx].          *)
Quiesce(d) ==
  /\ Goto(d, "quiesce", "msix")
  /\ UNCHANGED <<xdev, user_i, xdev_list, interrupt_mode, pci, running, panicked>>

(***************************************************************************)
(* enable_msi_msix.  It reads interrupt_mode once for each branch, and     *)
(* sets the flag of the branch it takes whether or not the kernel agreed.  *)
(***************************************************************************)
EnableMsix(d) ==
  /\ interrupt_mode \in {0, 3} /\ d \in MsixCapable
  /\ \/ /\ UserMax > 0 /\ pci[d].msi = "intx"
        /\ Goto(d, "msix", "irq_setup")
        /\ pci' = [pci EXCEPT ![d].msi = "msix"]
     \/ Goto(d, "msix", "err_msix") /\ UNCHANGED pci
  /\ xdev' = [xdev EXCEPT ![d].msix_enabled = TRUE]
  /\ UNCHANGED <<user_i, xdev_list, interrupt_mode, running, panicked>>

NoMsix(d) ==
  /\ ~(interrupt_mode \in {0, 3} /\ d \in MsixCapable)
  /\ Goto(d, "msix", "msi")
  /\ UNCHANGED <<xdev, user_i, xdev_list, interrupt_mode, pci, running, panicked>>

(* Mutant: the failure of pci_enable_msi is not returned.                  *)
EnableMsi_IgnoresFailure(d) ==
  /\ interrupt_mode \in {0, 1} /\ d \in MsiCapable
  /\ Goto(d, "msi", "irq_setup")
  /\ \/ pci[d].msi = "intx" /\ pci' = [pci EXCEPT ![d].msi = "msi"]
     \/ UNCHANGED pci
  /\ xdev' = [xdev EXCEPT ![d].msi_enabled = TRUE]
  /\ UNCHANGED <<user_i, xdev_list, interrupt_mode, running, panicked>>

EnableMsi(d) ==
  /\ interrupt_mode \in {0, 1} /\ d \in MsiCapable
  /\ \/ /\ pci[d].msi = "intx"
        /\ Goto(d, "msi", "irq_setup")
        /\ pci' = [pci EXCEPT ![d].msi = "msi"]
     \/ Goto(d, "msi", "err_msix") /\ UNCHANGED pci
  /\ xdev' = [xdev EXCEPT ![d].msi_enabled = TRUE]
  /\ UNCHANGED <<user_i, xdev_list, interrupt_mode, running, panicked>>

NoMsi(d) ==
  /\ ~(interrupt_mode \in {0, 1} /\ d \in MsiCapable)
  /\ Goto(d, "msi", "irq_setup")
  /\ UNCHANGED <<xdev, user_i, xdev_list, interrupt_mode, pci, running, panicked>>

(***************************************************************************)
(* irq_setup: the handler of the line, or one handler for every vector.    *)
(***************************************************************************)
MsixSetup(d) ==
  /\ xdev[d].msix_enabled
  /\ Goto(d, "irq_setup", "request_vec")
  /\ user_i' = [user_i EXCEPT ![d] = 0]
  /\ UNCHANGED <<xdev, xdev_list, interrupt_mode, pci, running, panicked>>

(* irq_line is set before request_irq is known to succeed.                 *)
LineSetup(d, line) ==
  /\ xdev' = [xdev EXCEPT ![d].irq_line = line]
  /\ \/ /\ Goto(d, "irq_setup", "flush")
        /\ pci' = [pci EXCEPT ![d].irqs = @ \cup {line}]
     \/ Goto(d, "irq_setup", "err_msix") /\ UNCHANGED pci
  /\ UNCHANGED <<user_i, xdev_list, interrupt_mode, running, panicked>>

irq_msi_setup(d) ==
  ~xdev[d].msix_enabled /\ xdev[d].msi_enabled /\ LineSetup(d, MsiLine)

(* Mutant: the result of request_irq is not looked at.                     *)
irq_legacy_setup_IgnoresFailure(d) ==
  /\ ~xdev[d].msix_enabled /\ ~xdev[d].msi_enabled
  /\ xdev' = [xdev EXCEPT ![d].irq_line = Intx]
  /\ Goto(d, "irq_setup", "flush")
  /\ \E got \in {{}, {Intx}} : pci' = [pci EXCEPT ![d].irqs = @ \cup got]
  /\ UNCHANGED <<user_i, xdev_list, interrupt_mode, running, panicked>>

irq_legacy_setup(d) ==
  /\ ~xdev[d].msix_enabled /\ ~xdev[d].msi_enabled
  /\ \/ d \in HasPin /\ LineSetup(d, Intx)
     \/ /\ d \notin HasPin
        /\ Goto(d, "irq_setup", "err_msix")
        /\ UNCHANGED <<xdev, user_i, xdev_list, interrupt_mode, pci, running, panicked>>

(* Mutant: the unwinding starts at the vector that failed.                 *)
RequestVector_NoStepBack(d) ==
  /\ user_i[d] < UserMax
  /\ \/ /\ Goto(d, "request_vec", "request_vec")
        /\ pci' = [pci EXCEPT ![d].irqs = @ \cup {Vector(user_i[d])}]
        /\ user_i' = [user_i EXCEPT ![d] = @ + 1]
     \/ Goto(d, "request_vec", "undo_vec") /\ UNCHANGED <<user_i, pci>>
  /\ UNCHANGED <<xdev, xdev_list, interrupt_mode, running, panicked>>

RequestVector(d) ==
  /\ user_i[d] < UserMax
  /\ \/ /\ Goto(d, "request_vec", "request_vec")
        /\ pci' = [pci EXCEPT ![d].irqs = @ \cup {Vector(user_i[d])}]
        /\ user_i' = [user_i EXCEPT ![d] = @ + 1]
     \/ /\ Goto(d, "request_vec", "undo_vec")
        /\ user_i' = [user_i EXCEPT ![d] = @ - 1]
        /\ UNCHANGED pci
  /\ UNCHANGED <<xdev, xdev_list, interrupt_mode, running, panicked>>

(* All handlers are there: prog_irq_msix_user writes the vector table.     *)
VectorsRequested(d) ==
  /\ user_i[d] >= UserMax
  /\ Goto(d, "request_vec", "flush")
  /\ UNCHANGED <<xdev, user_i, xdev_list, interrupt_mode, pci, running, panicked>>

(* free_irq in two steps: it takes the handler off its line, and returns   *)
(* when no call of the handler is left running.                            *)
FreeIrq(d, line, from, to) ==
  /\ Goto(d, from, to)
  /\ pci' = [pci EXCEPT ![d].irqs = @ \ {line}]
  /\ UNCHANGED <<xdev, user_i, xdev_list, interrupt_mode, running, panicked>>

SyncIrq(d, line, from, to, step) ==
  /\ <<d, line>> \notin running
  /\ Goto(d, from, to)
  /\ user_i' = [user_i EXCEPT ![d] = @ + step]
  /\ UNCHANGED <<xdev, xdev_list, interrupt_mode, pci, running, panicked>>

UndoVector(d) ==
  \/ user_i[d] >= 0 /\ FreeIrq(d, Vector(user_i[d]), "undo_vec", "undo_sync")
  \/ SyncIrq(d, Vector(user_i[d]), "undo_sync", "undo_vec", -1)

VectorsUndone(d) ==
  /\ user_i[d] < 0
  /\ Goto(d, "undo_vec", "err_msix")
  /\ UNCHANGED <<xdev, user_i, xdev_list, interrupt_mode, pci, running, panicked>>

(* The last register read, and the device is no longer offline.            *)
FinishOpen(d) ==
  /\ Goto(d, "flush", "open")
  /\ xdev' = [xdev EXCEPT ![d].offline = FALSE]
  /\ UNCHANGED <<user_i, xdev_list, interrupt_mode, pci, running, panicked>>

(***************************************************************************)
(* xgpu_device_close, up to the part it shares with a failed open.         *)
(***************************************************************************)
(* Mutant: the interrupts are not torn down.                               *)
CallClose_NoTeardown(d) ==
  /\ Goto(d, "open", IF d \in Listed THEN "err_msix" ELSE "idle")
  /\ UNCHANGED <<xdev, user_i, xdev_list, interrupt_mode, pci, running, panicked>>

CallClose(d) ==
  /\ Goto(d, "open", IF d \in Listed THEN "teardown" ELSE "idle")
  /\ UNCHANGED <<xdev, user_i, xdev_list, interrupt_mode, pci, running, panicked>>

(* Mutant: with MSI-X only the channels' handlers, of which there are      *)
(* none, are torn down.                                                    *)
irq_teardown_ChannelsOnly(d) ==
  \/ /\ xdev[d].msix_enabled
     /\ Goto(d, "teardown", "err_msix")
     /\ UNCHANGED <<xdev, user_i, xdev_list, interrupt_mode, pci, running, panicked>>
  \/ ~xdev[d].msix_enabled /\ FreeIrq(d, xdev[d].irq_line, "teardown", "sync_irq")
  \/ SyncIrq(d, xdev[d].irq_line, "sync_irq", "err_msix", 0)

irq_teardown(d) ==
  \/ /\ xdev[d].msix_enabled
     /\ Goto(d, "teardown", "free_vec")
     /\ user_i' = [user_i EXCEPT ![d] = 0]
     /\ UNCHANGED <<xdev, xdev_list, interrupt_mode, pci, running, panicked>>
  \/ ~xdev[d].msix_enabled /\ FreeIrq(d, xdev[d].irq_line, "teardown", "sync_irq")
  \/ SyncIrq(d, xdev[d].irq_line, "sync_irq", "err_msix", 0)

(* Mutant: the loop over the vectors ends before the last one.             *)
irq_msix_user_teardown_OneShort(d) ==
  \/ user_i[d] < UserMax - 1 /\ FreeIrq(d, Vector(user_i[d]), "free_vec", "sync_vec")
  \/ SyncIrq(d, Vector(user_i[d]), "sync_vec", "free_vec", 1)
  \/ /\ user_i[d] >= UserMax - 1
     /\ Goto(d, "free_vec", "err_msix")
     /\ UNCHANGED <<xdev, user_i, xdev_list, interrupt_mode, pci, running, panicked>>

irq_msix_user_teardown(d) ==
  \/ user_i[d] < UserMax /\ FreeIrq(d, Vector(user_i[d]), "free_vec", "sync_vec")
  \/ SyncIrq(d, Vector(user_i[d]), "sync_vec", "free_vec", 1)
  \/ /\ user_i[d] >= UserMax
     /\ Goto(d, "free_vec", "err_msix")
     /\ UNCHANGED <<xdev, user_i, xdev_list, interrupt_mode, pci, running, panicked>>

(***************************************************************************)
(* What a failed open and a close have in common, from label err_msix on.  *)
(***************************************************************************)
(* Mutant: only MSI-X is disabled.                                         *)
disable_msi_msix_NoMsi(d) ==
  /\ Goto(d, "err_msix", "err_mask")
  /\ xdev' = [xdev EXCEPT ![d].msix_enabled = FALSE]
  /\ pci' = [pci EXCEPT ![d].msi =
              IF xdev[d].msix_enabled /\ @ = "msix" THEN "intx" ELSE @]
  /\ UNCHANGED <<user_i, xdev_list, interrupt_mode, running, panicked>>

disable_msi_msix(d) ==
  LET Kind == IF xdev[d].msix_enabled THEN "msix"
              ELSE IF xdev[d].msi_enabled THEN "msi" ELSE "none"
  IN
  /\ Goto(d, "err_msix", "err_mask")
  /\ xdev' = [xdev EXCEPT ![d].msix_enabled = FALSE,
                          ![d].msi_enabled = @ /\ Kind # "msi"]
  /\ pci' = [pci EXCEPT ![d].msi = IF @ = Kind THEN "intx" ELSE @]
  /\ UNCHANGED <<user_i, xdev_list, interrupt_mode, running, panicked>>

unmap_bars(d) ==
  /\ \/ \E i \in xdev[d].bar :
          /\ \A k \in xdev[d].bar : i =< k
          /\ Goto(d, "err_mask", "err_mask")
          /\ xdev' = [xdev EXCEPT ![d].bar = @ \ {i}]
          /\ pci' = [pci EXCEPT ![d].iomaps = @ \ {i}]
     \/ xdev[d].bar = {} /\ Goto(d, "err_mask", "err_map") /\ UNCHANGED <<xdev, pci>>
  /\ UNCHANGED <<user_i, xdev_list, interrupt_mode, running, panicked>>

(* Both flags of struct xgpu_dev are zero for good: the only assignments   *)
(* to them, in request_regions, are compiled out.                          *)
got_regions(d) == FALSE
regions_in_use(d) == FALSE

ReleaseRegions(d) ==
  /\ Goto(d, "err_map", "err_regions")
  /\ pci' = [pci EXCEPT ![d].regions = IF got_regions(d) THEN {} ELSE @]
  /\ UNCHANGED <<xdev, user_i, xdev_list, interrupt_mode, running, panicked>>

DisableDevice(d) ==
  /\ Goto(d, "err_regions", "err_enable")
  /\ pci' = [pci EXCEPT ![d].enable_cnt = IF regions_in_use(d) THEN @ ELSE @ - 1]
  /\ UNCHANGED <<xdev, user_i, xdev_list, interrupt_mode, running, panicked>>

(* Mutant: a device is taken off the list from its head only.              *)
xdev_list_remove_AtHead(d) ==
  /\ Goto(d, "err_enable", "free_xdev")
  /\ Head(xdev_list) = d /\ xdev_list' = Tail(xdev_list)
  /\ UNCHANGED <<xdev, user_i, interrupt_mode, pci, running, panicked>>

xdev_list_remove(d) ==
  /\ Goto(d, "err_enable", "free_xdev")
  /\ \E k \in 1..Len(xdev_list) : xdev_list[k] = d /\ xdev_list' = RemoveAt(xdev_list, k)
  /\ UNCHANGED <<xdev, user_i, interrupt_mode, pci, running, panicked>>

FreeXdev(d) ==
  /\ Goto(d, "free_xdev", "idle")
  /\ xdev' = [xdev EXCEPT ![d].live = FALSE]
  /\ UNCHANGED <<user_i, xdev_list, interrupt_mode, pci, running, panicked>>

(***************************************************************************)
(* The ioctl of an open device file may take its device offline and back.  *)
(***************************************************************************)
SetOffline(d, flag) ==
  /\ pc[d] = "open" /\ d \in Listed
  /\ xdev' = [xdev EXCEPT ![d].offline = flag]
  /\ UNCHANGED <<pc, user_i, xdev_list, interrupt_mode, pci, running, panicked>>

(***************************************************************************)
(* Interrupts.  A registered handler may be called at any time: the        *)
(* device raises its line, or another device that shares it does.  Both    *)
(* handlers read the xgpu_dev, and xgpu_isr the device's registers, while  *)
(* they run.  The service of a user interrupt wakes a wait queue that is   *)
(* still the zeroed memory of the allocation.                              *)
(***************************************************************************)
InterruptStarts(d, l) ==
  /\ l \in pci[d].irqs
  /\ <<d, l>> \notin running
  /\ running' = running \cup {<<d, l>>}
  /\ UNCHANGED <<pc, xdev, user_i, xdev_list, interrupt_mode, pci, panicked>>

xgpu_isr(d, l) ==
  /\ l \in {Intx, MsiLine} /\ <<d, l>> \in running
  /\ running' = running \ {<<d, l>>}
  /\ UNCHANGED <<pc, xdev, user_i, xdev_list, interrupt_mode, pci, panicked>>

user_irq_service(d, l) ==
  /\ UserMax > 0 /\ <<d, l>> \in running
  /\ panicked' = TRUE
  /\ UNCHANGED <<pc, xdev, user_i, xdev_list, interrupt_mode, pci, running>>

(* A write to /sys/module/xgpu/parameters/interrupt_mode.                  *)
SetInterruptMode(m) ==
  /\ interrupt_mode' = m /\ m # interrupt_mode
  /\ UNCHANGED <<pc, xdev, user_i, xdev_list, pci, running, panicked>>

(***************************************************************************)
(* The specification.                                                      *)
(***************************************************************************)
OpenStep(d) ==
  \/ AllocDev(d) \/ xdev_list_add(d) \/ EnableDevice(d) \/ request_regions(d)
  \/ MapBar(d) \/ BarsMapped(d) \/ set_dma_mask(d) \/ Quiesce(d)
  \/ EnableMsix(d) \/ NoMsix(d) \/ EnableMsi(d) \/ NoMsi(d)
  \/ MsixSetup(d) \/ irq_msi_setup(d) \/ irq_legacy_setup(d)
  \/ RequestVector(d) \/ VectorsRequested(d) \/ UndoVector(d) \/ VectorsUndone(d)
  \/ FinishOpen(d)

CloseStep(d) == irq_teardown(d) \/ irq_msix_user_teardown(d)

ExitStep(d) ==
  \/ disable_msi_msix(d) \/ unmap_bars(d) \/ ReleaseRegions(d)
  \/ DisableDevice(d) \/ xdev_list_remove(d) \/ FreeXdev(d)

ThreadStep(d) == OpenStep(d) \/ CloseStep(d) \/ ExitStep(d)

Interrupt(d, l) == InterruptStarts(d, l) \/ xgpu_isr(d, l) \/ user_irq_service(d, l)

Next ==
  /\ ~panicked
  /\ \/ \E d \in Devices :
          \/ CallOpen(d) \/ CallClose(d) \/ ThreadStep(d)
          \/ \E flag \in BOOLEAN : SetOffline(d, flag)
          \/ \E l \in Lines : Interrupt(d, l)
     \/ \E m \in Modes : SetInterruptMode(m)

Spec == Init /\ [][Next]_vars

(* A thread inside a call goes on, and so does a handler that runs; nobody *)
(* has to open or close a device, and no interrupt has to come.            *)
HandlerReturns(d, l) == ~panicked /\ xgpu_isr(d, l)

Fairness ==
  \A d \in Devices :
    /\ WF_vars(~panicked /\ ThreadStep(d))
    /\ \A l \in {Intx, MsiLine} : WF_vars(HandlerReturns(d, l))

FairSpec == Spec /\ Fairness

(***************************************************************************)
(* Properties.                                                             *)
(***************************************************************************)

(* The type invariant: every variable stays in its range; the enable count *)
(* of a device, which nobody else takes down here, never drops below zero. *)
TypeOK ==
  /\ pc \in [Devices -> Locations]
  /\ xdev \in [Devices -> XgpuDev]
  /\ user_i \in [Devices -> -1..UserMax]
  /\ xdev_list \in Seq(Devices)
  /\ interrupt_mode \in Modes
  /\ pci \in [Devices -> PciDev]
  /\ running \subseteq Devices \X Lines
  /\ panicked \in BOOLEAN

(* While a handler runs, what it reads is there: the xgpu_dev has not been *)
(* freed, the BARs of the device are mapped where xdev->bar says, and the  *)
(* device decodes its memory.  An interrupt may arrive at any point of an  *)
(* open or a close, also of one that fails half way.                       *)
HandlersSafe ==
  \A d \in Devices, l \in Lines : <<d, l>> \in running =>
    /\ xdev[d].live
    /\ pci[d].enable_cnt > 0
    /\ xdev[d].bar = BarPresent[d] /\ pci[d].iomaps = BarPresent[d]

(* Handlers on message interrupts are registered, or still running, only   *)
(* while the kernel has the vectors allocated: pci_disable_msi and         *)
(* pci_disable_msix stop the machine when one has a handler.               *)
VectorsBacked ==
  \A d \in Devices, l \in Lines :
    (l \in pci[d].irqs \/ <<d, l>> \in running) => pci[d].msi = l[1] \/ l = Intx

(* What a closed device holds: after xgpu_device_close, and after an open  *)
(* that failed at any point, the device is disabled, nothing is mapped, no *)
(* handler is registered or running, MSI is off, the device is off the     *)
(* list and its memory freed.  (Regions are another matter: see            *)
(* RegionsReleased.)                                                       *)
HoldsNothing(d) ==
  /\ pci[d].enable_cnt = 0 /\ pci[d].iomaps = {}
  /\ pci[d].irqs = {} /\ pci[d].msi = "intx"
  /\ \A l \in Lines : <<d, l>> \notin running
  /\ d \notin Listed /\ ~xdev[d].live

ClosedHoldsNothing == \A d \in Devices : pc[d] = "idle" => HoldsNothing(d)

(* What an open device holds, whatever interrupt_mode was when its         *)
(* branches read it: the device is enabled once, every BAR mapped, and it  *)
(* has exactly the handlers of the mode that its flags record.             *)
HandlersOf(d) ==
  IF xdev[d].msix_enabled THEN Vectors(0, UserMax - 1)
  ELSE IF xdev[d].msi_enabled THEN {MsiLine} ELSE {Intx}

HoldsAll(d) ==
  /\ xdev[d].live /\ d \in Listed
  /\ pci[d].enable_cnt = 1 /\ pci[d].iomaps = BarPresent[d]
  /\ pci[d].irqs = HandlersOf(d)
  /\ xdev[d].msix_enabled <=> pci[d].msi = "msix"
  /\ xdev[d].msi_enabled <=> pci[d].msi = "msi"

OpenHoldsAll == \A d \in Devices : pc[d] = "open" => HoldsAll(d)

(* free_irq is only called for a line on which this device has registered  *)
(* its handler: not for the zero of fresh memory, for a line another mode  *)
(* would have used, nor for a vector twice.                                *)
FreesOwnIrq ==
  \A d \in Devices :
    /\ pc[d] = "teardown" /\ ~xdev[d].msix_enabled => xdev[d].irq_line \in pci[d].irqs
    /\ \/ pc[d] = "free_vec" /\ user_i[d] < UserMax
       \/ pc[d] = "undo_vec" /\ user_i[d] >= 0
       => Vector(user_i[d]) \in pci[d].irqs

(* The list is in the order of the indices, so that the last index plus    *)
(* one is new: two devices on the list never share the number in their     *)
(* file names, and none is on the list twice.                              *)
ListInOrder ==
  \A j, k \in 1..Len(xdev_list) :
    j < k => xdev[xdev_list[j]].idx < xdev[xdev_list[k]].idx

(* The library implements the registry: the device numbers users see.      *)
Registry == INSTANCE IndexRegistry WITH index <- [d \in Listed |-> xdev[d].idx]
RegistrySpec == Registry!Spec

(* The library implements its contract with the PCI driver: it is open for *)
(* the caller when it holds all of what its interrupt mode needs, closed   *)
(* when it holds nothing, and in between only during a call.               *)
LibState(d) ==
  CASE pc[d] = "idle" /\ HoldsNothing(d) -> "closed"
    [] pc[d] = "open" /\ HoldsAll(d) -> pci[d].msi
    [] pc[d] \in OpenLocs -> "opening"
    [] pc[d] \in CloseLocs \cup ExitLocs -> "closing"
    [] OTHER -> "broken"

Contract == INSTANCE DeviceContract WITH lib <- [d \in Devices |-> LibState(d)]
ContractSpec == Contract!Spec

(* "The XDMA config BAR must always be present", says map_bars, so that    *)
(* what goes through bar[config_bar_idx] goes to a mapped BAR: accesses of *)
(* the open, which may write the vectors of a line or of MSI-X, those of   *)
(* the close, and those of the handlers.                                   *)
AccessesRegisters(d) ==
  \/ pc[d] \in {"quiesce", "flush"}
  \/ pc[d] = "request_vec" /\ user_i[d] >= UserMax
  \/ pc[d] = "irq_setup" /\ ~xdev[d].msix_enabled /\ ~xdev[d].msi_enabled /\ d \in HasPin
  \/ pc[d] = "teardown" /\ xdev[d].msix_enabled
  \/ \E l \in Lines : <<d, l>> \in running

ConfigBarMapped ==
  \A d \in Devices : AccessesRegisters(d) => ConfigBar \in xdev[d].bar \cap pci[d].iomaps

(* A closed device holds no region: regions obtained are recorded, in      *)
(* "got_regions", and released.                                            *)
RegionsReleased == \A d \in Devices : pc[d] = "idle" => pci[d].regions = {}

(* A call returns: an open ends with the device open or with nothing, and  *)
(* a close ends, though either may have to wait for handlers that run.     *)
CallsReturn ==
  \A d \in Devices : pc[d] \notin {"idle", "open"} ~> pc[d] \in {"idle", "open"}
=============================================================================
