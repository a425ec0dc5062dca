------------------------------ MODULE XgpuMod ------------------------------
(***************************************************************************)
(* The PCI driver, xgpu_drv/xgpu_mod.c, and the character devices it       *)
(* creates for a device, xgpu_drv/xgpu_cdev.c: probe_one and remove_one    *)
(* run for different devices at the same time and meet in the kernel's     *)
(* table of character device regions.  The device library below is its     *)
(* contract, DeviceContract, which LibXgpu implements.                     *)
(*                                                                         *)
(* mpc[d] is the next step of the thread that probes or removes a device;  *)
(* steps that probe_one, its error path and remove_one have in common      *)
(* share a location.  A call into the kernel that can fail may fail        *)
(* whenever it is made.                                                    *)
(***************************************************************************)
EXTENDS Integers, FiniteSets

CONSTANTS
  Devices,       \* the PCI devices the driver is offered
  MsixCapable, MsiCapable, HasPin,
  Majors,        \* the numbers alloc_chrdev_region chooses from
  NodeCount      \* the lengths of config_items, register_items and ifwi_items

Types == 0..2    \* the indices of listHead

ASSUME MajorsAssumption == Majors \subseteq Nat \ {0}
ASSUME NodeCountAssumption == NodeCount \in [Types -> Nat \ {0}]

VARIABLES
  mpc,           \* the next step of the thread of a device
  lib,           \* the device library's state of a device
  xpdev,         \* struct xgpu_pci_dev, with "live" for: not freed
  nodes,         \* nodes[d][t]: the length of xpdev->listHead[t]
  drvdata,       \* the devices whose driver data is set
  msi_on,        \* the devices for which probe_one has enabled MSI
  handler,       \* the devices with xgpu_msi_interrupt registered
  in_handler,    \* the devices whose xgpu_msi_interrupt is running
  region         \* region[d]: the majors alloc_chrdev_region gave to d

vars == <<mpc, lib, xpdev, nodes, drvdata, msi_on, handler, in_handler, region>>
irqVars == <<msi_on, handler, in_handler>>

(* xpdev_alloc zeroes the structure: probe_one asks for no user interrupt. *)
DeviceLib == INSTANCE DeviceContract WITH UserMax <- 0

Locations ==
  {"idle", "alloc", "open", "opening", "enable_msi", "request_irq", "create", "add",
   "unregister", "fail_type", "fail_all", "bound", "free_irq", "sync_irq", "free",
   "close", "closing", "kfree", "oops"}

NoXpdev == [live |-> FALSE, xdev |-> FALSE, major |-> 0]
NoNodes == [t \in Types |-> 0]

Init ==
  /\ mpc = [d \in Devices |-> "idle"]
  /\ DeviceLib!Init
  /\ xpdev = [d \in Devices |-> NoXpdev]
  /\ nodes = [d \in Devices |-> NoNodes]
  /\ drvdata = {} /\ msi_on = {} /\ handler = {} /\ in_handler = {}
  /\ region = [d \in Devices |-> {}]

Goto(d, from, to) == mpc[d] = from /\ mpc' = [mpc EXCEPT ![d] = to]

(***************************************************************************)
(* probe_one: the structure, the library, the interrupt.                   *)
(***************************************************************************)
Probe(d) ==
  /\ Goto(d, "idle", "alloc")
  /\ UNCHANGED <<lib, xpdev, nodes, drvdata, irqVars, region>>

xpdev_alloc(d) ==
  /\ \/ /\ Goto(d, "alloc", "open")
        /\ xpdev' = [xpdev EXCEPT ![d] = [NoXpdev EXCEPT !.live = TRUE]]
        /\ nodes' = [nodes EXCEPT ![d] = NoNodes]
     \/ Goto(d, "alloc", "idle") /\ UNCHANGED <<xpdev, nodes>>
  /\ UNCHANGED <<lib, drvdata, irqVars, region>>

OpenDevice(d) ==
  /\ Goto(d, "open", "opening")
  /\ DeviceLib!CallOpen(d)
  /\ UNCHANGED <<xpdev, nodes, drvdata, irqVars, region>>

(* xdev_find_by_pdev then finds the device that was opened.                *)
DeviceOpened(d) ==
  /\ Goto(d, "opening", "enable_msi")
  /\ DeviceLib!OpenReturns(d)
  /\ xpdev' = [xpdev EXCEPT ![d].xdev = TRUE]
  /\ UNCHANGED <<nodes, drvdata, irqVars, region>>

(* The library cleans up after an open that fails, and then returns.       *)
OpenCleansUp(d) ==
  /\ mpc[d] = "opening" /\ DeviceLib!OpenFails(d) /\ lib'[d] = "closing"
  /\ UNCHANGED <<mpc, xpdev, nodes, drvdata, irqVars, region>>

OpenFailed(d) ==
  /\ Goto(d, "opening", "free")
  /\ DeviceLib!Closed(d) \/ (DeviceLib!OpenFails(d) /\ lib'[d] = "closed")
  /\ UNCHANGED <<xpdev, nodes, drvdata, irqVars, region>>

(* pci_enable_msi refuses a device that has MSI enabled.                   *)
(* Mutant: the error of pci_enable_msi is not returned.                    *)
EnableMsi_IgnoresFailure(d) ==
  /\ Goto(d, "enable_msi", "request_irq")
  /\ \/ lib[d] = "intx" /\ d \in MsiCapable /\ msi_on' = msi_on \cup {d}
     \/ UNCHANGED msi_on
  /\ UNCHANGED <<lib, xpdev, nodes, drvdata, handler, in_handler, region>>

EnableMsi(d) ==
  /\ \/ /\ Goto(d, "enable_msi", "request_irq")
        /\ lib[d] = "intx" /\ d \in MsiCapable
        /\ msi_on' = msi_on \cup {d}
     \/ Goto(d, "enable_msi", "free") /\ UNCHANGED msi_on
  /\ UNCHANGED <<lib, xpdev, nodes, drvdata, handler, in_handler, region>>

(* Mutant: MSI stays enabled when its handler could not be registered.     *)
RequestIrq_KeepsMsi(d) ==
  /\ \/ /\ Goto(d, "request_irq", "create")
        /\ handler' = handler \cup {d}
     \/ Goto(d, "request_irq", "free") /\ UNCHANGED handler
  /\ UNCHANGED <<lib, xpdev, nodes, drvdata, msi_on, in_handler, region>>

RequestIrq(d) ==
  /\ \/ /\ Goto(d, "request_irq", "create")
        /\ handler' = handler \cup {d}
        /\ UNCHANGED msi_on
     \/ /\ Goto(d, "request_irq", "free")
        /\ msi_on' = msi_on \ {d}
        /\ UNCHANGED handler
  /\ UNCHANGED <<lib, xpdev, nodes, drvdata, in_handler, region>>

(***************************************************************************)
(* xpdev_create_interfaces: the device files, one type after the other.    *)
(***************************************************************************)
Created(d) == nodes[d] = NodeCount

(* Mutant: the loop over a table takes one file more than it has.          *)
NextType_OneMore(d) ==
  CHOOSE t \in Types : nodes[d][t] =< NodeCount[t] /\ \A u \in Types : u < t =>
                         nodes[d][u] > NodeCount[u]

(* The type whose files are being created, and the minor of the next one.  *)
NextType(d) ==
  CHOOSE t \in Types : nodes[d][t] < NodeCount[t] /\ \A u \in Types : u < t =>
                         nodes[d][u] = NodeCount[u]
FirstMinor(d) == nodes[d][0] = 0

(* The memory of the file, and for the first file of a device its region.  *)
(* Mutant: the major is not kept, each file allocates a region of its own. *)
NewNode_RegionEach(d) ==
  /\ ~Created(d)
  /\ \/ /\ Goto(d, "create", "add")
        /\ \E m \in Majors \ UNION {region[e] : e \in Devices} :
             /\ xpdev' = [xpdev EXCEPT ![d].major = m]
             /\ region' = [region EXCEPT ![d] = @ \cup {m}]
     \/ Goto(d, "create", "fail_type") /\ UNCHANGED <<xpdev, region>>
  /\ UNCHANGED <<lib, nodes, drvdata, irqVars>>

NewNode(d) ==
  /\ ~Created(d)
  /\ \/ /\ Goto(d, "create", "add")
        /\ \/ xpdev[d].major # 0 /\ UNCHANGED <<xpdev, region>>
           \/ /\ xpdev[d].major = 0
              /\ \E m \in Majors \ UNION {region[e] : e \in Devices} :
                   /\ xpdev' = [xpdev EXCEPT ![d].major = m]
                   /\ region' = [region EXCEPT ![d] = @ \cup {m}]
     \/ Goto(d, "create", "fail_type") /\ UNCHANGED <<xpdev, region>>
  /\ UNCHANGED <<lib, nodes, drvdata, irqVars>>

(* The rest of create_xcdev.  The name of its kobject is set in memory     *)
(* nobody has initialised: kobject_set_name frees the name it finds there, *)
(* which may crash.  device_create never returns the NULL it is tested for.*)
create_xcdev(d) ==
  /\ \/ /\ Goto(d, "add", "create")
        /\ nodes' = [nodes EXCEPT ![d][NextType(d)] = @ + 1]
     \/ Goto(d, "add", "oops") /\ UNCHANGED nodes
     \/ Goto(d, "add", "fail_type") /\ UNCHANGED nodes
     \/ Goto(d, "add", "unregister") /\ UNCHANGED nodes
  /\ UNCHANGED <<lib, xpdev, drvdata, irqVars, region>>

(* unregister_chrdev_region takes the region that starts at the number it  *)
(* is given, whoever has it; a region starts at minor 0.                   *)
Unregister(m) == region' = [e \in Devices |-> region[e] \ {m}]

(* cdev_add has failed: the region that starts at the minor of the file.   *)
UnregisterNode(d) ==
  /\ Goto(d, "unregister", "fail_type")
  /\ \/ FirstMinor(d) /\ Unregister(xpdev[d].major)
     \/ ~FirstMinor(d) /\ UNCHANGED region
  /\ UNCHANGED <<lib, xpdev, nodes, drvdata, irqVars>>

(* file_destroy_interfaces takes the first file off the list and frees it, *)
(* and then reads its successor in what it has freed.                      *)
file_destroy_interfaces(d, t, from) ==
  /\ Goto(d, from, "oops")
  /\ nodes[d][t] > 0
  /\ nodes' = [nodes EXCEPT ![d][t] = @ - 1]
  /\ UNCHANGED <<lib, xpdev, drvdata, irqVars, region>>

FailType(d) ==
  \/ file_destroy_interfaces(d, NextType(d), "fail_type")
  \/ /\ Goto(d, "fail_type", "fail_all")
     /\ nodes[d][NextType(d)] = 0
     /\ UNCHANGED <<lib, xpdev, nodes, drvdata, irqVars, region>>

(* The lists are destroyed from the last type to the first.                *)
xpdev_destroy_interfaces(d, from, to) ==
  \/ \E t \in Types :
       /\ \A u \in Types : u > t => nodes[d][u] = 0
       /\ file_destroy_interfaces(d, t, from)
  \/ /\ nodes[d] = NoNodes
     /\ Goto(d, from, to)
     /\ \/ xpdev[d].major # 0 /\ Unregister(xpdev[d].major)
        \/ xpdev[d].major = 0 /\ UNCHANGED region
     /\ UNCHANGED <<lib, xpdev, nodes, drvdata, irqVars>>

FailAll(d) == xpdev_destroy_interfaces(d, "fail_all", "free_irq")

ProbeReturns(d) ==
  /\ Created(d)
  /\ Goto(d, "create", "bound")
  /\ drvdata' = drvdata \cup {d}
  /\ UNCHANGED <<lib, xpdev, nodes, irqVars, region>>

(***************************************************************************)
(* remove_one, and the error path of probe_one: label err_irq, then        *)
(* err_out, which is xpdev_free.  free_irq waits for a running handler.    *)
(***************************************************************************)
remove_one(d) ==
  /\ d \in drvdata
  /\ Goto(d, "bound", "free_irq")
  /\ UNCHANGED <<lib, xpdev, nodes, drvdata, irqVars, region>>

(* Mutant: the handler stays registered while its calls are waited for.    *)
FreeIrq_KeepsHandler(d) ==
  /\ Goto(d, "free_irq", "sync_irq")
  /\ UNCHANGED <<lib, xpdev, nodes, drvdata, irqVars, region>>

FreeIrq(d) ==
  /\ Goto(d, "free_irq", "sync_irq")
  /\ handler' = handler \ {d}
  /\ UNCHANGED <<lib, xpdev, nodes, drvdata, msi_on, in_handler, region>>

(* Mutant: free_irq does not wait for the handler.                         *)
DisableMsi_NoWait(d) ==
  /\ Goto(d, "sync_irq", "free")
  /\ msi_on' = msi_on \ {d}
  /\ UNCHANGED <<lib, xpdev, nodes, drvdata, handler, in_handler, region>>

DisableMsi(d) ==
  /\ d \notin in_handler
  /\ Goto(d, "sync_irq", "free")
  /\ msi_on' = msi_on \ {d}
  /\ UNCHANGED <<lib, xpdev, nodes, drvdata, handler, in_handler, region>>

(* Mutant: the device files are left when the device is closed.            *)
xpdev_free_KeepsFiles(d) ==
  /\ Goto(d, "free", "close")
  /\ Unregister(xpdev[d].major)
  /\ UNCHANGED <<lib, xpdev, nodes, drvdata, irqVars>>

xpdev_free(d) == xpdev_destroy_interfaces(d, "free", "close")

CloseDevice(d) ==
  /\ \/ /\ xpdev[d].xdev
        /\ Goto(d, "close", "closing")
        /\ DeviceLib!CallClose(d)
     \/ ~xpdev[d].xdev /\ Goto(d, "close", "kfree") /\ UNCHANGED lib
  /\ xpdev' = [xpdev EXCEPT ![d].xdev = FALSE]
  /\ UNCHANGED <<nodes, drvdata, irqVars, region>>

DeviceClosed(d) ==
  /\ Goto(d, "closing", "kfree")
  /\ DeviceLib!Closed(d)
  /\ UNCHANGED <<xpdev, nodes, drvdata, irqVars, region>>

(* The driver core drops the driver data when the driver is unbound.       *)
FreeXpdev(d) ==
  /\ Goto(d, "kfree", "idle")
  /\ xpdev' = [xpdev EXCEPT ![d].live = FALSE]
  /\ drvdata' = drvdata \ {d}
  /\ UNCHANGED <<lib, nodes, irqVars, region>>

(***************************************************************************)
(* The handler reads the device of the xgpu_dev it was registered with.    *)
(***************************************************************************)
InterruptStarts(d) ==
  /\ d \in handler \ in_handler
  /\ in_handler' = in_handler \cup {d}
  /\ UNCHANGED <<mpc, lib, xpdev, nodes, drvdata, msi_on, handler, region>>

xgpu_msi_interrupt(d) ==
  /\ d \in in_handler
  /\ in_handler' = in_handler \ {d}
  /\ UNCHANGED <<mpc, lib, xpdev, nodes, drvdata, msi_on, handler, region>>

(***************************************************************************)
(* The specification.                                                      *)
(***************************************************************************)
ProbeStep(d) ==
  \/ xpdev_alloc(d) \/ OpenDevice(d) \/ DeviceOpened(d) \/ OpenCleansUp(d) \/ OpenFailed(d)
  \/ EnableMsi(d) \/ RequestIrq(d) \/ NewNode(d) \/ create_xcdev(d) \/ UnregisterNode(d)
  \/ FailType(d) \/ FailAll(d) \/ ProbeReturns(d)

RemoveStep(d) ==
  \/ FreeIrq(d) \/ DisableMsi(d) \/ xpdev_free(d) \/ CloseDevice(d) \/ DeviceClosed(d)
  \/ FreeXpdev(d)

ThreadStep(d) == ProbeStep(d) \/ RemoveStep(d)

Next ==
  \E d \in Devices :
    \/ Probe(d) \/ remove_one(d) \/ ThreadStep(d)
    \/ InterruptStarts(d) \/ xgpu_msi_interrupt(d)

Spec == Init /\ [][Next]_vars

(* A thread inside a call goes on, and a handler that runs returns; nobody *)
(* has to bind or unbind a device, and no interrupt has to come.           *)
Fairness ==
  \A d \in Devices : WF_vars(ThreadStep(d)) /\ WF_vars(xgpu_msi_interrupt(d))

FairSpec == Spec /\ Fairness

(***************************************************************************)
(* Properties.                                                             *)
(***************************************************************************)

(* The type invariant; no list is longer than the table it is made from.   *)
TypeOK ==
  /\ mpc \in [Devices -> Locations]
  /\ lib \in [Devices -> {"closed", "opening", "closing", "intx", "msi"}]
  /\ xpdev \in [Devices -> [live : BOOLEAN, xdev : BOOLEAN, major : Majors \cup {0}]]
  /\ nodes \in [Devices -> [Types -> Nat]]
  /\ \A d \in Devices, t \in Types : nodes[d][t] =< NodeCount[t]
  /\ drvdata \subseteq Devices /\ msi_on \subseteq Devices
  /\ handler \subseteq Devices /\ in_handler \subseteq Devices
  /\ region \in [Devices -> SUBSET Majors]

IsOpen(d) == lib[d] \in {"intx", "msi"}

(* Whenever probe_one has failed, at any call, and whenever remove_one has *)
(* returned, nothing is left behind: the library has closed the device,    *)
(* its memory is freed, MSI is off, the handler is neither registered nor  *)
(* running, and no region and no file remain.                              *)
IdleHoldsNothing ==
  \A d \in Devices : mpc[d] = "idle" =>
    /\ lib[d] = "closed" /\ ~xpdev[d].live /\ d \notin drvdata
    /\ d \notin msi_on \cup handler \cup in_handler
    /\ region[d] = {} /\ nodes[d] = NoNodes

(* A bound device has all of it: the library's device, with the interrupt  *)
(* line of its pin, as probe_one takes MSI for itself; the handler; every  *)
(* file of every table; and the structure remove_one needs.                *)
BoundHoldsAll ==
  \A d \in Devices : mpc[d] = "bound" =>
    /\ lib[d] = "intx" /\ xpdev[d].live /\ xpdev[d].xdev /\ d \in drvdata
    /\ d \in msi_on /\ d \in handler
    /\ Created(d) /\ xpdev[d].major # 0

(* xgpu_msi_interrupt reads the xgpu_dev: while it runs, or may run, the   *)
(* library has not freed it, and MSI is on.                                *)
HandlerHasDevice ==
  \A d \in handler \cup in_handler : IsOpen(d) /\ d \in msi_on

(* The operations of a device file read the xgpu_dev: as long as there is  *)
(* a file the library has not freed it.                                    *)
FilesHaveDevice ==
  \A d \in Devices : (\E t \in Types : nodes[d][t] > 0) => IsOpen(d) /\ xpdev[d].live

(* No region is lost: one that is allocated is the one its device will     *)
(* unregister.                                                             *)
RegionKnown ==
  \A d \in Devices : \A m \in region[d] : xpdev[d].live /\ xpdev[d].major = m

(* A device with files keeps the region of their numbers: two boards do    *)
(* not disturb each other.                                                 *)
RegionHeld ==
  \A d \in Devices : (\E t \in Types : nodes[d][t] > 0) => xpdev[d].major \in region[d]

(* MSI is enabled once: probe_one finds MSI off, also when interrupt_mode  *)
(* has let the library enable it.                                          *)
MsiEnabledOnce == \A d \in Devices : mpc[d] = "enable_msi" => lib[d] # "msi"

(* A call of probe_one or remove_one comes to an end, which may be a crash *)
(* of its thread.                                                          *)
CallsEnd ==
  \A d \in Devices : mpc[d] \notin {"idle", "bound"} ~> mpc[d] \in {"idle", "bound", "oops"}

(* Unbinding the driver gives the device back.                             *)
RemoveReturns ==
  \A d \in Devices : mpc[d] = "free_irq" /\ d \in drvdata ~> mpc[d] = "idle"
=============================================================================
