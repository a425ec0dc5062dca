-------------------------- MODULE XgpuDriverProofs --------------------------
(***************************************************************************)
(* Proofs about loading and unloading the module and about recovering      *)
(* devices, for any number of devices and any number of lost resets.       *)
(***************************************************************************)
EXTENDS XgpuDriver, TLAPS

(* The class, the cache and the registration come and go in this order.    *)
RegisteredLocs == {"live", "exit", "stuck"}
CacheLocs == {"register", "cleanup"} \cup RegisteredLocs

ModuleInv ==
  /\ mod \in {"cache"} \cup CacheLocs => class
  /\ mod \in CacheLocs => cache

(* Only a registered driver has devices.  The enable count is the 1 of the *)
(* open, less the disabling that a reset has yet to make up for; resets    *)
(* that failed are never made up for.                                      *)
DeviceInv(d) ==
  /\ dev[d] # "unbound" => mod \in RegisteredLocs
  /\ dev[d] \in {"unbound", "probing"} =>
       enable_cnt[d] = 0 /\ ers[d] = "none" /\ d \notin unreset
  /\ ers[d] \in {"frozen", "slot_reset"} => enable_cnt[d] =< 0
  /\ dev[d] \in {"bound", "stuck"} /\ d \notin unreset =>
       enable_cnt[d] = IF ers[d] \in {"frozen", "slot_reset"} THEN 0 ELSE 1
  /\ ers[d] = "recovered" => command[d] = {"memory", "master"}

(* The inductive invariant.                                                *)
IInv == TypeOK /\ ModuleInv /\ \A d \in Devices : DeviceInv(d)

(***************************************************************************)
(* Steps of the module.  They leave the devices alone, and a driver that   *)
(* loads or cleans up has none.                                            *)
(***************************************************************************)
LEMMA ModuleSteps ==
  ASSUME IInv, Load \/ class_create \/ kmem_cache_create \/ pci_register_driver
                 \/ xgpu_mod_exit \/ Unregistered \/ xgpu_cdev_cleanup
  PROVE  IInv'
  <1> USE DEF Load, class_create, kmem_cache_create, pci_register_driver, xgpu_mod_exit,
          Unregistered, xgpu_cdev_cleanup, Goto, errorVars
  <1>1. TypeOK' BY DEF IInv, TypeOK, Locations
  <1>2. ModuleInv' BY DEF IInv, ModuleInv, CacheLocs, RegisteredLocs
  <1>3. ASSUME NEW d \in Devices PROVE DeviceInv(d)'
    <2>1. DeviceInv(d) BY DEF IInv
    <2>2. dev[d] # "unbound" => mod' \in RegisteredLocs
      BY <2>1 DEF DeviceInv, RegisteredLocs
    <2> QED BY <2>1, <2>2 DEF DeviceInv
  <1> QED BY <1>1, <1>2, <1>3 DEF IInv

LEMMA RemoveAtExitKeeps == ASSUME IInv, NEW d \in Devices, RemoveAtExit(d) PROVE IInv'
  <1> USE DEF RemoveAtExit, Goto, errorVars
  <1>1. TypeOK' BY DEF IInv, TypeOK, Locations
  <1>2. ModuleInv' BY DEF IInv, ModuleInv, CacheLocs, RegisteredLocs
  <1>3. ASSUME NEW e \in Devices PROVE DeviceInv(e)'
    <2>1. DeviceInv(e) BY DEF IInv
    <2>2. dev'[e] \in {dev[e]} \/ (dev[e] = "bound" /\ dev'[e] = "stuck")
      BY DEF IInv, TypeOK
    <2>3. mod' \in RegisteredLocs BY DEF RegisteredLocs
    <2> QED BY <2>1, <2>2, <2>3 DEF DeviceInv
  <1> QED BY <1>1, <1>2, <1>3 DEF IInv

(***************************************************************************)
(* Steps of a device.                                                      *)
(***************************************************************************)
Keeps(e) ==
  /\ dev'[e] = dev[e] /\ ers'[e] = ers[e] /\ enable_cnt'[e] = enable_cnt[e]
  /\ command'[e] = command[e]
  /\ e \in unreset' <=> e \in unreset

LEMMA DeviceSteps ==
  ASSUME IInv, NEW d \in Devices, UNCHANGED moduleVars,
         \A e \in Devices \ {d} : Keeps(e), TypeOK', DeviceInv(d)'
  PROVE  IInv'
  <1>1. ModuleInv' BY DEF IInv, ModuleInv, moduleVars
  <1>2. ASSUME NEW e \in Devices PROVE DeviceInv(e)'
    <2>1. CASE e = d BY <2>1
    <2>2. CASE e # d
      <3>1. Keeps(e) /\ DeviceInv(e) BY <2>2 DEF IInv
      <3> QED BY <3>1 DEF Keeps, DeviceInv, moduleVars
    <2> QED BY <2>1, <2>2
  <1> QED BY <1>1, <1>2 DEF IInv

LEMMA CountTyped ==
  ASSUME TypeOK, NEW d \in Devices, NEW n \in (-MaxLost)..1,
         enable_cnt' = [enable_cnt EXCEPT ![d] = n]
  PROVE  enable_cnt' \in [Devices -> (-MaxLost)..1]
  BY DEF TypeOK

LEMMA ProbeReturnsKeeps == ASSUME IInv, NEW d \in Devices, ProbeReturns(d) PROVE IInv'
  <1>1. TypeOK /\ DeviceInv(d) BY DEF IInv
  <1>2. /\ dev[d] = "probing" /\ dev' = [dev EXCEPT ![d] = "bound"]
        /\ enable_cnt' = [enable_cnt EXCEPT ![d] = @ + 1]
        /\ command' = [command EXCEPT ![d] = {"memory", "master"}]
        /\ UNCHANGED <<moduleVars, ers, bars_set, saved, unreset>>
    BY DEF ProbeReturns
  <1>3. enable_cnt[d] = 0 /\ ers[d] = "none" /\ d \notin unreset /\ mod \in RegisteredLocs
    BY <1>1, <1>2 DEF DeviceInv
  <1>4. enable_cnt' = [enable_cnt EXCEPT ![d] = 1] BY <1>2, <1>3
  <1>5. TypeOK'
    <2>1. 1 \in (-MaxLost)..1 BY MaxLostAssumption
    <2>2. enable_cnt' \in [Devices -> (-MaxLost)..1] BY <1>1, <1>4, <2>1, CountTyped
    <2>3. command' \in [Devices -> SUBSET {"memory", "master"}] BY <1>1, <1>2 DEF TypeOK
    <2> QED BY <1>1, <1>2, <2>2, <2>3 DEF TypeOK, moduleVars
  <1>6. \A e \in Devices \ {d} : Keeps(e) BY <1>1, <1>2 DEF TypeOK, Keeps
  <1>7. DeviceInv(d)'
    <2>1. /\ dev'[d] = "bound" /\ ers'[d] = "none" /\ enable_cnt'[d] = 1
          /\ mod' = mod /\ unreset' = unreset
      BY <1>1, <1>2, <1>3, <1>4 DEF TypeOK, moduleVars
    <2> QED BY <1>3, <2>1 DEF DeviceInv
  <1> QED BY <1>2, <1>5, <1>6, <1>7, DeviceSteps

LEMMA BindingKeeps ==
  ASSUME IInv, NEW d \in Devices, Probe(d) \/ ProbeFails(d) \/ Unbind(d)
  PROVE  IInv'
  <1> USE DEF Probe, ProbeFails, Unbind, errorVars, moduleVars
  <1>1. TypeOK /\ DeviceInv(d) BY DEF IInv
  <1>2. TypeOK' BY <1>1 DEF TypeOK
  <1>3. \A e \in Devices \ {d} : Keeps(e) BY <1>1 DEF TypeOK, Keeps
  <1>4. DeviceInv(d)' BY <1>1 DEF TypeOK, DeviceInv, RegisteredLocs
  <1> QED BY <1>2, <1>3, <1>4, DeviceSteps

LEMMA ErrorReportedKeeps == ASSUME IInv, NEW d \in Devices, ErrorReported(d) PROVE IInv'
  <1> USE DEF ErrorReported, Reports, moduleVars
  <1>1. TypeOK /\ DeviceInv(d) BY DEF IInv
  <1>2. TypeOK' BY <1>1 DEF TypeOK
  <1>3. \A e \in Devices \ {d} : Keeps(e) BY <1>1 DEF TypeOK, Keeps
  <1>4. DeviceInv(d)' BY <1>1 DEF TypeOK, DeviceInv, moduleVars
  <1> QED BY <1>2, <1>3, <1>4, DeviceSteps

LEMMA xgpu_error_detectedKeeps ==
  ASSUME IInv, NEW d \in Devices, xgpu_error_detected(d) PROVE IInv'
  <1> DEFINE n == enable_cnt[d] - 1
  <1>1. TypeOK /\ DeviceInv(d) BY DEF IInv
  <1>2. /\ dev[d] = "bound" /\ ers[d] \notin {"frozen", "slot_reset"} /\ enable_cnt[d] > -MaxLost
        /\ ers' = [ers EXCEPT ![d] = "frozen"]
        /\ enable_cnt' = [enable_cnt EXCEPT ![d] = n]
        /\ command' = [command EXCEPT ![d] = IF n = 0 THEN @ \ {"master"} ELSE @]
        /\ UNCHANGED <<moduleVars, dev, bars_set, saved, unreset>>
    BY DEF xgpu_error_detected, Reports
  <1>3. n \in (-MaxLost)..0 /\ enable_cnt[d] \in Int
    <2>1. enable_cnt[d] \in (-MaxLost)..1 BY <1>1 DEF TypeOK
    <2> QED BY <1>2, <2>1, MaxLostAssumption
  <1>4. TypeOK'
    <2>1. n \in (-MaxLost)..1 BY <1>3, MaxLostAssumption
    <2>2. enable_cnt' \in [Devices -> (-MaxLost)..1] BY <1>1, <1>2, <2>1, CountTyped
    <2>3. command' \in [Devices -> SUBSET {"memory", "master"}] BY <1>1, <1>2 DEF TypeOK
    <2>4. ers' \in [Devices -> {"none", "frozen", "slot_reset", "recovered", "given up"}]
      BY <1>1, <1>2 DEF TypeOK
    <2> QED BY <1>1, <1>2, <2>2, <2>3, <2>4 DEF TypeOK, moduleVars
  <1>5. \A e \in Devices \ {d} : Keeps(e) BY <1>1, <1>2 DEF TypeOK, Keeps
  <1>6. DeviceInv(d)'
    <2>1. /\ dev'[d] = "bound" /\ mod' = mod /\ ers'[d] = "frozen"
          /\ enable_cnt'[d] = n /\ unreset' = unreset
      BY <1>1, <1>2 DEF TypeOK, moduleVars
    <2>2. d \notin unreset => n = 0 BY <1>1, <1>2 DEF DeviceInv
    <2>3. n =< 0 BY <1>3, MaxLostAssumption
    <2>4. mod \in RegisteredLocs BY <1>1, <1>2 DEF DeviceInv
    <2> HIDE DEF n
    <2> QED BY <2>1, <2>2, <2>3, <2>4 DEF DeviceInv
  <1> QED BY <1>2, <1>4, <1>5, <1>6, DeviceSteps

LEMMA LinkResetKeeps == ASSUME IInv, NEW d \in Devices, LinkReset(d) PROVE IInv'
  <1> USE DEF LinkReset, moduleVars
  <1>1. TypeOK /\ DeviceInv(d) BY DEF IInv
  <1>2. TypeOK' BY <1>1 DEF TypeOK
  <1>3. \A e \in Devices \ {d} : Keeps(e) BY <1>1 DEF TypeOK, Keeps
  <1>4. DeviceInv(d)' BY <1>1 DEF TypeOK, DeviceInv, moduleVars
  <1> QED BY <1>2, <1>3, <1>4, DeviceSteps

LEMMA xgpu_slot_resetKeeps == ASSUME IInv, NEW d \in Devices, xgpu_slot_reset(d) PROVE IInv'
  <1>1. TypeOK /\ DeviceInv(d) BY DEF IInv
  <1>2. CASE ers' = [ers EXCEPT ![d] = "given up"] /\ unreset' = unreset \cup {d}
             /\ UNCHANGED <<moduleVars, dev, enable_cnt, command, bars_set, saved>>
    <2>1. TypeOK' BY <1>1, <1>2 DEF TypeOK, moduleVars
    <2>2. \A e \in Devices \ {d} : Keeps(e) BY <1>1, <1>2 DEF TypeOK, Keeps
    <2>3. /\ dev[d] = "bound" /\ dev'[d] = "bound" /\ ers'[d] = "given up" /\ d \in unreset'
          /\ mod' = mod
      BY <1>1, <1>2 DEF TypeOK, moduleVars, xgpu_slot_reset
    <2>4. DeviceInv(d)' BY <1>1, <2>3 DEF DeviceInv
    <2> QED BY <1>2, <2>1, <2>2, <2>4, DeviceSteps
  <1>3. CASE ers' = [ers EXCEPT ![d] = "recovered"]
    <2>1. /\ dev[d] = "bound" /\ ers[d] = "slot_reset" /\ UNCHANGED <<moduleVars, dev, unreset>>
          /\ enable_cnt' = [enable_cnt EXCEPT ![d] = @ + 1]
          /\ command' = Recovered(d)
          /\ bars_set' = IF saved[d] = "set" THEN bars_set \cup {d} ELSE bars_set
          /\ saved' = [saved EXCEPT ![d] = IF d \in bars_set' THEN "set" ELSE "unset"]
      BY <1>1, <1>3 DEF xgpu_slot_reset, TypeOK
    <2>2. enable_cnt[d] \in (-MaxLost)..0 /\ enable_cnt'[d] = enable_cnt[d] + 1
      <3>1. enable_cnt[d] \in (-MaxLost)..1 /\ enable_cnt'[d] = enable_cnt[d] + 1
        BY <1>1, <2>1 DEF TypeOK
      <3>2. enable_cnt[d] =< 0 BY <1>1, <2>1 DEF DeviceInv
      <3> QED BY <3>1, <3>2, MaxLostAssumption
    <2>3. command' = [command EXCEPT ![d] = {"memory", "master"}]
      <3>1. enable_cnt'[d] =< 1 BY <2>2, MaxLostAssumption
      <3>2. Enabled(d, enable_cnt') = command[d] \cup {"memory"}
        BY <3>1, <2>2, MaxLostAssumption DEF Enabled
      <3>3. command[d] \cup {"memory"} \cup {"master"} = {"memory", "master"}
        BY <1>1 DEF TypeOK
      <3> QED BY <2>1, <3>2, <3>3 DEF Recovered
    <2>4. TypeOK'
      <3>1. enable_cnt' \in [Devices -> (-MaxLost)..1]
        <4>1. enable_cnt[d] + 1 \in (-MaxLost)..1 BY <2>2, MaxLostAssumption
        <4> QED BY <1>1, <2>1, <4>1 DEF TypeOK
      <3>2. command' \in [Devices -> SUBSET {"memory", "master"}] BY <1>1, <2>3 DEF TypeOK
      <3>3. bars_set' \subseteq Devices BY <1>1, <2>1 DEF TypeOK
      <3>4. saved' \in [Devices -> {"none", "set", "unset"}] BY <1>1, <2>1 DEF TypeOK
      <3> QED BY <1>1, <1>3, <2>1, <3>1, <3>2, <3>3, <3>4 DEF TypeOK, moduleVars
    <2>5. \A e \in Devices \ {d} : Keeps(e) BY <1>1, <1>3, <2>1, <2>3 DEF TypeOK, Keeps
    <2>6. DeviceInv(d)'
      <3>1. /\ ers'[d] = "recovered" /\ command'[d] = {"memory", "master"}
            /\ dev'[d] = "bound" /\ mod' = mod /\ unreset' = unreset
        BY <1>1, <1>3, <2>1, <2>3 DEF TypeOK, moduleVars
      <3>2. d \notin unreset => enable_cnt[d] = 0 BY <1>1, <2>1 DEF DeviceInv
      <3> QED BY <1>1, <2>1, <2>2, <3>1, <3>2 DEF DeviceInv
    <2> QED BY <2>1, <2>4, <2>5, <2>6, DeviceSteps
  <1> QED BY <1>2, <1>3 DEF xgpu_slot_reset

(***************************************************************************)
(* The invariant, and what it gives.                                       *)
(***************************************************************************)
LEMMA InitInv == Init => IInv
  <1> SUFFICES ASSUME Init PROVE IInv OBVIOUS
  <1> USE DEF Init
  <1>1. TypeOK
    <2>1. 0 \in (-MaxLost)..1 BY MaxLostAssumption
    <2> QED BY <2>1 DEF TypeOK, Locations
  <1>2. ModuleInv BY DEF ModuleInv, CacheLocs, RegisteredLocs
  <1>3. ASSUME NEW d \in Devices PROVE DeviceInv(d) BY DEF DeviceInv
  <1> QED BY <1>1, <1>2, <1>3 DEF IInv

LEMMA NextKeeps == ASSUME IInv, Next PROVE IInv'
  <1>1. CASE Load \/ xgpu_mod_exit \/ ModuleStep
    BY <1>1, ModuleSteps, RemoveAtExitKeeps DEF ModuleStep
  <1>2. ASSUME NEW d \in Devices,
               \/ Probe(d) \/ DeviceStep(d) \/ Unbind(d)
               \/ ErrorReported(d) \/ xgpu_error_detected(d) \/ RecoveryStep(d)
        PROVE  IInv'
    BY <1>2, BindingKeeps, ProbeReturnsKeeps, ErrorReportedKeeps, xgpu_error_detectedKeeps, LinkResetKeeps,
       xgpu_slot_resetKeeps DEF DeviceStep, RecoveryStep
  <1> QED BY <1>1, <1>2 DEF Next

LEMMA StutterKeeps == ASSUME IInv, UNCHANGED vars PROVE IInv'
  BY DEF IInv, TypeOK, ModuleInv, DeviceInv, vars, moduleVars, errorVars

(* The module's resources, and the enable count of every device, at each   *)
(* point of a load, an unload, a probe, a remove and a recovery.           *)
THEOREM DriverInvariant == Spec => []IInv
  <1>1. Init => IInv BY InitInv
  <1>2. IInv /\ [Next]_vars => IInv' BY NextKeeps, StutterKeeps
  <1> QED BY <1>1, <1>2, PTL DEF Spec

(* Type correctness: also, no recovery enables a device a second time.     *)
THEOREM DriverTypes == Spec => []TypeOK
  <1>1. IInv => TypeOK BY DEF IInv
  <1> QED BY <1>1, DriverInvariant, PTL

(* The class and the cache are there while any device is probed, bound or  *)
(* being removed, through any sequence of loads and unloads.               *)
THEOREM ClassOutlivesDevices == Spec => []ClassWhileUsed
  <1>1. IInv => ClassWhileUsed
    BY DEF IInv, ModuleInv, DeviceInv, CacheLocs, ClassWhileUsed
  <1> QED BY <1>1, DriverInvariant, PTL

(* A device that is reported as recovered is enabled and bus master, and   *)
(* its enable count is what the open has left it at.                       *)
THEOREM RecoveredDevicesEnabled == Spec => []RecoveredEnabled
  <1>1. IInv => RecoveredEnabled
    <2> SUFFICES ASSUME IInv, NEW d \in Devices, ers[d] = "recovered"
                 PROVE  /\ command[d] = {"memory", "master"}
                        /\ d \notin unreset => enable_cnt[d] = 1
      BY DEF RecoveredEnabled
    <2>1. DeviceInv(d) /\ dev[d] \in {"unbound", "probing", "bound", "stuck"}
      BY DEF IInv, TypeOK
    <2> QED BY <2>1 DEF DeviceInv
  <1> QED BY <1>1, DriverInvariant, PTL
=============================================================================
