----------------------------- MODULE XgpuDriver -----------------------------
(***************************************************************************)
(* The driver as a whole: loading and unloading the module                 *)
(* (xgpu_mod_init and xgpu_mod_exit of xgpu_drv/xgpu_mod.c, with           *)
(* xgpu_cdev_init and xgpu_cdev_cleanup of xgpu_drv/xgpu_cdev.c), and the  *)
(* PCI error handlers, which the kernel calls for a device that is bound.  *)
(* What probing and removing a device does is XgpuMod's subject: here a    *)
(* probe succeeds or leaves nothing, and removing a device that is bound   *)
(* ends in the crash of the thread, which keeps the lock of the device.    *)
(***************************************************************************)
EXTENDS Integers

CONSTANTS
  Devices,
  MaxLost        \* bound: how far below 0 the enable count may fall

ASSUME MaxLostAssumption == MaxLost \in Nat \ {0}

VARIABLES
  mod,           \* where the thread that loads or unloads the module is
  class, cache,  \* whether the class and the cache exist in the kernel
  dev,           \* what a device is to the driver
  ers,           \* where the error recovery of a device is
  enable_cnt,    \* pdev->enable_cnt
  command,       \* the bits of the command register that are set
  bars_set,      \* the devices whose BARs have their addresses
  saved,         \* what pci_save_state has saved of the BARs, "none" at first
  unreset        \* the devices that were frozen and could not be reset

moduleVars == <<mod, class, cache>>
errorVars == <<ers, enable_cnt, command, bars_set, saved, unreset>>
vars == <<moduleVars, dev, errorVars>>

Locations == {"out", "class", "cache", "register", "live", "exit", "cleanup", "stuck"}

(* The kernel has given each device its addresses.                         *)
Init ==
  /\ mod = "out" /\ class = FALSE /\ cache = FALSE
  /\ dev = [d \in Devices |-> "unbound"]
  /\ ers = [d \in Devices |-> "none"]
  /\ enable_cnt = [d \in Devices |-> 0]
  /\ command = [d \in Devices |-> {}]
  /\ bars_set = Devices /\ saved = [d \in Devices |-> "none"] /\ unreset = {}

Goto(from, to) == mod = from /\ mod' = to

(***************************************************************************)
(* xgpu_mod_init.  A load that fails leaves what it has created: the       *)
(* pointers to it go with the module, and class_create refuses a second    *)
(* class of the same name.                                                 *)
(***************************************************************************)
Load ==
  /\ Goto("out", "class")
  /\ UNCHANGED <<class, cache, dev, errorVars>>

class_create ==
  /\ \/ Goto("class", "cache") /\ ~class /\ class' = TRUE
     \/ Goto("class", "out") /\ UNCHANGED class
  /\ UNCHANGED <<cache, dev, errorVars>>

kmem_cache_create ==
  /\ \/ Goto("cache", "register") /\ cache' = TRUE
     \/ Goto("cache", "out") /\ UNCHANGED cache
  /\ UNCHANGED <<class, dev, errorVars>>

pci_register_driver ==
  /\ Goto("register", "live") \/ Goto("register", "out")
  /\ UNCHANGED <<class, cache, dev, errorVars>>

(***************************************************************************)
(* xgpu_mod_exit.  pci_unregister_driver takes the devices one by one, and *)
(* waits for those that are being probed.                                  *)
(***************************************************************************)
(* Mutant: the class is destroyed before the driver is unregistered.       *)
xgpu_mod_exit_CleansUpFirst ==
  /\ Goto("live", "exit")
  /\ class' = FALSE
  /\ UNCHANGED <<cache, dev, errorVars>>

xgpu_mod_exit ==
  /\ Goto("live", "exit")
  /\ UNCHANGED <<class, cache, dev, errorVars>>

RemoveAtExit(d) ==
  /\ Goto("exit", "stuck")
  /\ dev[d] = "bound"
  /\ dev' = [dev EXCEPT ![d] = "stuck"]
  /\ UNCHANGED <<class, cache, errorVars>>

Unregistered ==
  /\ Goto("exit", "cleanup")
  /\ \A d \in Devices : dev[d] = "unbound"
  /\ UNCHANGED <<class, cache, dev, errorVars>>

xgpu_cdev_cleanup ==
  /\ Goto("cleanup", "out")
  /\ class' = FALSE /\ cache' = FALSE
  /\ UNCHANGED <<dev, errorVars>>

(***************************************************************************)
(* Devices are bound and, through sysfs, unbound while the driver is       *)
(* registered.  A probe that fails has disabled the device again.          *)
(***************************************************************************)
Probe(d) ==
  /\ mod = "live" /\ dev[d] = "unbound"
  /\ dev' = [dev EXCEPT ![d] = "probing"]
  /\ UNCHANGED <<moduleVars, errorVars>>

ProbeFails(d) ==
  /\ dev[d] = "probing"
  /\ dev' = [dev EXCEPT ![d] = "unbound"]
  /\ UNCHANGED <<moduleVars, errorVars>>

ProbeReturns(d) ==
  /\ dev[d] = "probing"
  /\ dev' = [dev EXCEPT ![d] = "bound"]
  /\ enable_cnt' = [enable_cnt EXCEPT ![d] = @ + 1]
  /\ command' = [command EXCEPT ![d] = {"memory", "master"}]
  /\ UNCHANGED <<moduleVars, ers, bars_set, saved, unreset>>

Unbind(d) ==
  /\ mod = "live" /\ dev[d] = "bound"
  /\ dev' = [dev EXCEPT ![d] = "stuck"]
  /\ UNCHANGED <<moduleVars, errorVars>>

(***************************************************************************)
(* The error handlers.  A device that is not reset after it was frozen is  *)
(* given up, which leaves it bound, and may be frozen again.               *)
(***************************************************************************)
Reports(d) == dev[d] = "bound" /\ ers[d] \notin {"frozen", "slot_reset"}

(* States normal and perm_failure: the driver does nothing.                *)
ErrorReported(d) ==
  /\ Reports(d)
  /\ ers' = [ers EXCEPT ![d] = "none"] \/ ers' = [ers EXCEPT ![d] = "given up"]
  /\ UNCHANGED <<moduleVars, dev, enable_cnt, command, bars_set, saved, unreset>>

(* pci_disable_device counts down, and turns bus mastering off at 0.       *)
(* Mutant: the device is not disabled.                                     *)
xgpu_error_detected_KeepsEnabled(d) ==
  /\ Reports(d)
  /\ ers' = [ers EXCEPT ![d] = "frozen"]
  /\ UNCHANGED <<moduleVars, dev, enable_cnt, command, bars_set, saved, unreset>>

xgpu_error_detected(d) ==
  LET n == enable_cnt[d] - 1 IN
  /\ Reports(d) /\ enable_cnt[d] > -MaxLost
  /\ ers' = [ers EXCEPT ![d] = "frozen"]
  /\ enable_cnt' = [enable_cnt EXCEPT ![d] = n]
  /\ command' = [command EXCEPT ![d] = IF n = 0 THEN @ \ {"master"} ELSE @]
  /\ UNCHANGED <<moduleVars, dev, bars_set, saved, unreset>>

(* The kernel resets the link: the registers lose what was written there.  *)
LinkReset(d) ==
  /\ ers[d] = "frozen" /\ dev[d] = "bound"
  /\ \/ /\ ers' = [ers EXCEPT ![d] = "slot_reset"]
        /\ command' = [command EXCEPT ![d] = {}]
        /\ bars_set' = bars_set \ {d}
        /\ UNCHANGED unreset
     \/ /\ ers' = [ers EXCEPT ![d] = "given up"]
        /\ unreset' = unreset \cup {d}
        /\ UNCHANGED <<command, bars_set>>
  /\ UNCHANGED <<moduleVars, dev, enable_cnt, saved>>

(* pci_enable_device_mem counts up, and writes to the device when the      *)
(* count was 0 or less; pci_restore_state restores what has been saved, if *)
(* anything has, and pci_save_state saves the BARs as they are then.       *)
Enabled(d, cnt) == IF cnt[d] > 1 THEN command[d] ELSE command[d] \cup {"memory"}

(* Mutant: bus mastering is not turned on again.                           *)
Recovered_NoMaster(d) == [command EXCEPT ![d] = Enabled(d, enable_cnt')]
Recovered(d) == [command EXCEPT ![d] = Enabled(d, enable_cnt') \cup {"master"}]

xgpu_slot_reset(d) ==
  /\ ers[d] = "slot_reset" /\ dev[d] = "bound"
  /\ \/ /\ ers' = [ers EXCEPT ![d] = "recovered"]
        /\ enable_cnt' = [enable_cnt EXCEPT ![d] = @ + 1]
        /\ command' = Recovered(d)
        /\ bars_set' = IF saved[d] = "set" THEN bars_set \cup {d} ELSE bars_set
        /\ saved' = [saved EXCEPT ![d] = IF d \in bars_set' THEN "set" ELSE "unset"]
        /\ UNCHANGED unreset
     \/ /\ ers' = [ers EXCEPT ![d] = "given up"]
        /\ unreset' = unreset \cup {d}
        /\ UNCHANGED <<enable_cnt, command, bars_set, saved>>
  /\ UNCHANGED <<moduleVars, dev>>

ModuleStep ==
  \/ class_create \/ kmem_cache_create \/ pci_register_driver
  \/ Unregistered \/ xgpu_cdev_cleanup
  \/ \E d \in Devices : RemoveAtExit(d)

DeviceStep(d) == ProbeFails(d) \/ ProbeReturns(d)

RecoveryStep(d) == LinkReset(d) \/ xgpu_slot_reset(d)

Next ==
  \/ Load \/ xgpu_mod_exit \/ ModuleStep
  \/ \E d \in Devices :
       \/ Probe(d) \/ DeviceStep(d) \/ Unbind(d)
       \/ ErrorReported(d) \/ xgpu_error_detected(d) \/ RecoveryStep(d)

Spec == Init /\ [][Next]_vars

(***************************************************************************)
(* Properties.                                                             *)
(***************************************************************************)

(* The type invariant; recovering never enables a device twice.            *)
TypeOK ==
  /\ mod \in Locations /\ class \in BOOLEAN /\ cache \in BOOLEAN
  /\ dev \in [Devices -> {"unbound", "probing", "bound", "stuck"}]
  /\ ers \in [Devices -> {"none", "frozen", "slot_reset", "recovered", "given up"}]
  /\ enable_cnt \in [Devices -> (-MaxLost)..1]
  /\ command \in [Devices -> SUBSET {"memory", "master"}]
  /\ bars_set \subseteq Devices /\ unreset \subseteq Devices
  /\ saved \in [Devices -> {"none", "set", "unset"}]

(* The class is there as long as devices are probed, have files, or are    *)
(* being removed: their files are created and destroyed in it.             *)
ClassWhileUsed ==
  \A d \in Devices : dev[d] # "unbound" => class /\ cache

(* A device that is reported as recovered decodes memory accesses and is   *)
(* bus master again, and is enabled once, for the one pci_disable_device   *)
(* of a close, as long as every reset of it has worked.                    *)
RecoveredEnabled ==
  \A d \in Devices : ers[d] = "recovered" =>
    /\ command[d] = {"memory", "master"}
    /\ d \notin unreset => enable_cnt[d] = 1

(* It also has its configuration back.                                     *)
RecoveredRestored == \A d \in Devices : ers[d] = "recovered" => d \in bars_set

(* Once it is unloaded, or has failed to load, the module has nothing left *)
(* in the kernel, and can be loaded again.                                 *)
UnloadedHoldsNothing == mod = "out" => ~class /\ ~cache
=============================================================================
