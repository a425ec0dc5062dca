--------------------------- MODULE LibXgpuProofs ---------------------------
(***************************************************************************)
(* Proofs about the device library, for every set of devices, number of    *)
(* user interrupts, and combination of BARs and capabilities: that it      *)
(* keeps its inductive invariant, one lemma for each action; the safety    *)
(* properties of its devices and interrupts that follow; and that it       *)
(* implements the registry of device numbers, IndexRegistry, and the       *)
(* contract with the PCI driver, DeviceContract, which XgpuMod is built on.*)
(***************************************************************************)
EXTENDS LibXgpuInv, TLAPS

(***************************************************************************)
(* Sets of vectors.                                                        *)
(***************************************************************************)

LEMMA VectorsEmpty == ASSUME NEW m \in Int, NEW n \in Int, n < m PROVE Vectors(m, n) = {}
  BY DEF Vectors

LEMMA VectorsAddLast ==
  ASSUME NEW n \in Nat PROVE Vectors(0, n - 1) \cup {Vector(n)} = Vectors(0, n)
  BY DEF Vectors, Vector

LEMMA VectorsDropLast ==
  ASSUME NEW n \in Nat PROVE Vectors(0, n) \ {Vector(n)} = Vectors(0, n - 1)
  BY DEF Vectors, Vector

LEMMA VectorsDropFirst ==
  ASSUME NEW m \in Nat, NEW n \in Int PROVE Vectors(m, n) \ {Vector(m)} = Vectors(m + 1, n)
  BY DEF Vectors, Vector

LEMMA VectorsAreLines ==
  ASSUME NEW i \in 0..(UserMax - 1) PROVE Vector(i) \in Lines
  BY UserMaxAssumption DEF Lines, Vectors

LEMMA LinesDiffer ==
  /\ Intx # MsiLine
  /\ \A i \in Int : Vector(i) # Intx /\ Vector(i) # MsiLine
  BY DEF Intx, MsiLine, Vector

(***************************************************************************)
(* Lemmas about a step of one device.                                      *)
(***************************************************************************)

(* What is true of a device stays true while its own state does not change *)
(* and none of its handlers starts.                                        *)
LEMMA Frame ==
  ASSUME NEW d \in Devices, DevInv(d), pc'[d] = pc[d], xdev'[d] = xdev[d],
         user_i'[d] = user_i[d], pci'[d] = pci[d],
         \A l \in Lines : <<d, l>> \in running' => <<d, l>> \in running
  PROVE  DevInv(d)'
  <1> USE DEF DevInv
  <1>1. LiveInv(d)' /\ EnableInv(d)' BY DEF LiveInv, EnableInv
  <1>2. MapInv(d)' BY DEF MapInv
  <1>3. MsiInv(d)' BY DEF MsiInv
  <1>4. IrqInv(d)' BY DEF IrqInv, Registered, HandlersOf, LoopInv, LineOf
  <1>5. RunInv(d)' BY DEF RunInv, WaitingFor
  <1> QED BY <1>1, <1>2, <1>3, <1>4, <1>5

(* The list invariant only depends on the list, on the indices of the      *)
(* devices on it and on which locations the devices are at.                *)
LEMMA ListFrame ==
  ASSUME ListInv, xdev_list \in Seq(Devices), UNCHANGED xdev_list,
         \A d \in Devices : (pc'[d] \in ListedLocs) <=> (pc[d] \in ListedLocs),
         \A d \in Devices : pc[d] \in ListedLocs => xdev'[d].idx = xdev[d].idx
  PROVE  ListInv'
  <1>1. \A k \in 1..Len(xdev_list) : xdev_list[k] \in Devices /\ xdev_list[k] \in Listed
    BY DEF Listed, ToSet
  <1>2. \A k \in 1..Len(xdev_list) : xdev'[xdev_list[k]].idx = xdev[xdev_list[k]].idx
    BY <1>1 DEF ListInv
  <1>3. ListInOrder' BY <1>2 DEF ListInv, ListInOrder
  <1>4. \A d \in Devices : (d \in Listed <=> pc[d] \in ListedLocs)'
    BY DEF ListInv, Listed, ToSet
  <1> QED BY <1>3, <1>4 DEF ListInv

(* A step that changes the state of one device, and not its place on the   *)
(* list, preserves the invariant when it preserves that device's part.     *)
LEMMA LocalStep ==
  ASSUME IInv, NEW e \in Devices,
         pc' \in [Devices -> Locations], xdev' \in [Devices -> XgpuDev],
         user_i' \in [Devices -> -1..UserMax], pci' \in [Devices -> PciDev],
         running' \subseteq running, UNCHANGED <<xdev_list, interrupt_mode, panicked>>,
         \A d \in Devices \ {e} :
           /\ pc'[d] = pc[d] /\ xdev'[d] = xdev[d]
           /\ user_i'[d] = user_i[d] /\ pci'[d] = pci[d],
         (pc'[e] \in ListedLocs) <=> (pc[e] \in ListedLocs),
         pc[e] \in ListedLocs => xdev'[e].idx = xdev[e].idx,
         DevInv(e)'
  PROVE  IInv'
  <1>1. TypeOK' BY DEF IInv, TypeOK
  <1>2. ListInv'
    <2>1. \A d \in Devices : (pc'[d] \in ListedLocs) <=> (pc[d] \in ListedLocs)
      OBVIOUS
    <2>2. \A d \in Devices : pc[d] \in ListedLocs => xdev'[d].idx = xdev[d].idx
      OBVIOUS
    <2> QED BY <2>1, <2>2, ListFrame DEF IInv, TypeOK
  <1>3. ASSUME NEW d \in Devices PROVE DevInv(d)'
    <2>1. CASE d = e BY <2>1
    <2>2. CASE d # e BY <2>2, Frame DEF IInv
    <2> QED BY <2>1, <2>2
  <1> QED BY <1>1, <1>2, <1>3 DEF IInv

(* A step that only moves the thread.                                      *)
LEMMA MoveStep ==
  ASSUME IInv, NEW e \in Devices, NEW a, NEW b \in Locations, Goto(e, a, b),
         UNCHANGED <<xdev, user_i, xdev_list, interrupt_mode, pci, running, panicked>>,
         a \in ListedLocs <=> b \in ListedLocs, DevInv(e)'
  PROVE  IInv'
  BY LocalStep DEF IInv, TypeOK, Goto

(* The moves that neither take nor give back anything and have no guard.   *)
PlainMoves ==
  {<<"idle", "alloc">>, <<"alloc", "idle">>, <<"enable", "err_enable">>,
   <<"region2", "err_regions">>, <<"region5", "err_regions">>, <<"map", "err_mask">>,
   <<"dma_mask", "quiesce">>, <<"dma_mask", "err_mask">>, <<"quiesce", "msix">>,
   <<"msix", "msi">>, <<"msi", "irq_setup">>, <<"irq_setup", "err_msix">>,
   <<"err_map", "err_regions">>}

LEMMA PlainMove ==
  ASSUME IInv, NEW e \in Devices, NEW a, NEW b, <<a, b>> \in PlainMoves, Goto(e, a, b),
         UNCHANGED <<xdev, user_i, xdev_list, interrupt_mode, pci, running, panicked>>
  PROVE  IInv'
  <1> USE DEF PlainMoves, MappedLocs, HandlerLocs
  <1>1. pc[e] = a /\ pc'[e] = b /\ xdev' = xdev /\ pci' = pci /\ user_i' = user_i /\ running' = running
    BY DEF Goto, IInv, TypeOK
  <1>2. DevInv(e) BY DEF IInv
  <1>3. LiveInv(e)' BY <1>1, <1>2 DEF DevInv, LiveInv, LiveLocs, ListedLocs, EnabledLocs
  <1>4. EnableInv(e)' BY <1>1, <1>2 DEF DevInv, EnableInv, EnabledLocs
  <1>5. MapInv(e)' BY <1>1, <1>2 DEF DevInv, MapInv, PreMapLocs
  <1>6. MsiInv(e)' BY <1>1, <1>2 DEF DevInv, MsiInv, PreMsiLocs, PreMapLocs, MsiLocs, VectorLocs
  <1>7. IrqInv(e)' BY <1>1, <1>2 DEF DevInv, IrqInv, Registered, LoopInv
  <1>8. RunInv(e)' BY <1>1, <1>2 DEF DevInv, RunInv, WaitingFor
  <1>9. b \in Locations /\ (a \in ListedLocs <=> b \in ListedLocs)
    BY DEF Locations, OpenLocs, ExitLocs, ListedLocs, EnabledLocs
  <1> QED BY <1>3, <1>4, <1>5, <1>6, <1>7, <1>8, <1>9, MoveStep DEF DevInv

(* The moves with a guard: at the end of a loop, and of the lookup that    *)
(* begins xgpu_device_close.                                               *)
GuardedMove(d, a, b) ==
  \/ a = "map" /\ b = "dma_mask" /\ xdev[d].bar = BarPresent[d]
  \/ a = "request_vec" /\ b = "flush" /\ user_i[d] >= UserMax
  \/ a = "undo_vec" /\ b = "err_msix" /\ user_i[d] < 0
  \/ a = "open" /\ b = "teardown"
  \/ a = "sync_irq" /\ b = "err_msix" /\ <<d, xdev[d].irq_line>> \notin running
  \/ a = "free_vec" /\ b = "err_msix" /\ user_i[d] >= UserMax
  \/ a = "err_mask" /\ b = "err_map" /\ xdev[d].bar = {}

LEMMA GuardedStep ==
  ASSUME IInv, NEW e \in Devices, NEW a, NEW b, GuardedMove(e, a, b), Goto(e, a, b),
         UNCHANGED <<xdev, user_i, xdev_list, interrupt_mode, pci, running, panicked>>
  PROVE  IInv'
  <1> USE DEF GuardedMove, MappedLocs, HandlerLocs
  <1>1. /\ pc[e] = a /\ pc'[e] = b /\ xdev' = xdev /\ pci' = pci /\ user_i' = user_i
        /\ running' = running
    BY DEF Goto, IInv, TypeOK
  <1>2. DevInv(e) BY DEF IInv
  <1>3. LiveInv(e)' BY <1>1, <1>2 DEF DevInv, LiveInv, LiveLocs, ListedLocs, EnabledLocs
  <1>4. EnableInv(e)' BY <1>1, <1>2 DEF DevInv, EnableInv, EnabledLocs
  <1>5. MapInv(e)' BY <1>1, <1>2 DEF DevInv, MapInv, PreMapLocs
  <1>6. MsiInv(e)'
    BY <1>1, <1>2 DEF DevInv, MsiInv, PreMsiLocs, PreMapLocs, MsiLocs, VectorLocs
  <1>7. IrqInv(e)'
    <2>1. UserMax \in Nat BY UserMaxAssumption
    <2>2. CASE a = "map" \/ a = "open" \/ a = "sync_irq" \/ a = "err_mask"
      BY <1>1, <1>2, <2>2 DEF DevInv, IrqInv, Registered, LoopInv, HandlersOf, LineOf
    <2>3. CASE a = "request_vec"
      <3>1. user_i[e] = UserMax /\ xdev[e].msix_enabled
        BY <1>1, <1>2, <2>1, <2>3 DEF DevInv, IrqInv, LoopInv, MsiInv, VectorLocs
      <3> QED
        BY <1>1, <1>2, <2>3, <3>1 DEF DevInv, IrqInv, Registered, LoopInv, HandlersOf, LineOf
    <2>4. CASE a = "undo_vec"
      <3>1. user_i[e] = -1
        BY <1>1, <1>2, <2>1, <2>4 DEF DevInv, IrqInv, LoopInv
      <3>2. Vectors(0, -1) = {} BY VectorsEmpty
      <3> QED BY <1>1, <1>2, <2>4, <3>1, <3>2 DEF DevInv, IrqInv, Registered, LoopInv
    <2>5. CASE a = "free_vec"
      <3>1. user_i[e] = UserMax
        BY <1>1, <1>2, <2>1, <2>5 DEF DevInv, IrqInv, LoopInv
      <3> QED
        BY <1>1, <1>2, <2>1, <2>5, <3>1, VectorsEmpty DEF DevInv, IrqInv, Registered, LoopInv
    <2> QED BY <2>2, <2>3, <2>4, <2>5
  <1>8. RunInv(e)' BY <1>1, <1>2 DEF DevInv, RunInv, WaitingFor
  <1>9. b \in Locations /\ (a \in ListedLocs <=> b \in ListedLocs)
    BY DEF Locations, OpenLocs, CloseLocs, ExitLocs, ListedLocs, EnabledLocs
  <1> QED BY <1>3, <1>4, <1>5, <1>6, <1>7, <1>8, <1>9, MoveStep DEF DevInv

(***************************************************************************)
(* One lemma per action: it preserves the invariant.                       *)
(***************************************************************************)

LEMMA CallOpenStep == ASSUME IInv, NEW e \in Devices, CallOpen(e) PROVE IInv'
  BY PlainMove DEF CallOpen, PlainMoves

LEMMA AllocDevStep == ASSUME IInv, NEW e \in Devices, AllocDev(e) PROVE IInv'
  <1>1. CASE Goto(e, "alloc", "idle") /\ UNCHANGED xdev
    BY <1>1, PlainMove DEF AllocDev, PlainMoves
  <1>2. CASE /\ Goto(e, "alloc", "list_add")
             /\ xdev' = [xdev EXCEPT ![e] = [NoXdev EXCEPT !.live = TRUE, !.offline = TRUE]]
    <2> USE DEF MappedLocs, HandlerLocs
    <2>1. UNCHANGED <<user_i, xdev_list, interrupt_mode, pci, running, panicked>>
      BY DEF AllocDev
    <2>2. /\ pc[e] = "alloc" /\ pc'[e] = "list_add" /\ pc' \in [Devices -> Locations]
          /\ \A d \in Devices \ {e} : pc'[d] = pc[d] /\ xdev'[d] = xdev[d]
      BY <1>2 DEF IInv, TypeOK, Goto, Locations, OpenLocs
    <2>3. [NoXdev EXCEPT !.live = TRUE, !.offline = TRUE] \in XgpuDev
      BY DEF NoXdev, XgpuDev
    <2>4. xdev \in [Devices -> XgpuDev] BY DEF IInv, TypeOK
    <2>5. xdev' \in [Devices -> XgpuDev] BY <1>2, <2>3, <2>4
    <2>6. /\ xdev'[e].live /\ xdev'[e].bar = {}
          /\ ~xdev'[e].msi_enabled /\ ~xdev'[e].msix_enabled
      BY <1>2, <2>4 DEF NoXdev
    <2>7. DevInv(e) BY DEF IInv
    <2>8. LiveInv(e)' BY <2>2, <2>6 DEF LiveInv, LiveLocs
    <2>9. EnableInv(e)' BY <2>1, <2>2, <2>7 DEF DevInv, EnableInv, EnabledLocs
    <2>10. MapInv(e)' BY <2>1, <2>2, <2>6, <2>7 DEF DevInv, MapInv, PreMapLocs
    <2>11. MsiInv(e)'
      BY <2>1, <2>2, <2>6, <2>7 DEF DevInv, MsiInv, PreMsiLocs, PreMapLocs, MsiLocs, VectorLocs
    <2>12. IrqInv(e)' BY <2>1, <2>2, <2>7 DEF DevInv, IrqInv, Registered, LoopInv
    <2>13. RunInv(e)' BY <2>1, <2>2, <2>7 DEF DevInv, RunInv, WaitingFor
    <2>14. pc'[e] \notin ListedLocs /\ pc[e] \notin ListedLocs
      BY <2>2 DEF ListedLocs, EnabledLocs
    <2>15. DevInv(e)' BY <2>8, <2>9, <2>10, <2>11, <2>12, <2>13 DEF DevInv
    <2> QED BY <2>1, <2>2, <2>5, <2>14, <2>15, LocalStep DEF IInv, TypeOK
  <1> QED BY <1>1, <1>2 DEF AllocDev

LEMMA EnableDeviceStep == ASSUME IInv, NEW e \in Devices, EnableDevice(e) PROVE IInv'
  <1>1. CASE Goto(e, "enable", "err_enable") /\ UNCHANGED pci
    BY <1>1, PlainMove DEF EnableDevice, PlainMoves
  <1>2. CASE /\ Goto(e, "enable", "region2")
             /\ pci' = [pci EXCEPT ![e].enable_cnt = @ + 1]
    <2> USE DEF MappedLocs, HandlerLocs
    <2>1. UNCHANGED <<xdev, user_i, xdev_list, interrupt_mode, running, panicked>>
      BY DEF EnableDevice
    <2>2. /\ pc[e] = "enable" /\ pc'[e] = "region2" /\ pc' \in [Devices -> Locations]
          /\ \A d \in Devices \ {e} : pc'[d] = pc[d] /\ pci'[d] = pci[d]
      BY <1>2 DEF IInv, TypeOK, Goto, Locations, OpenLocs
    <2>3. pci \in [Devices -> PciDev] BY DEF IInv, TypeOK
    <2>4. pci' \in [Devices -> PciDev] BY <1>2, <2>3 DEF PciDev
    <2>5. /\ pci'[e].enable_cnt = pci[e].enable_cnt + 1
          /\ pci'[e].iomaps = pci[e].iomaps
          /\ pci'[e].msi = pci[e].msi /\ pci'[e].irqs = pci[e].irqs
      BY <1>2, <2>3 DEF PciDev
    <2>6. DevInv(e) BY DEF IInv
    <2>7. LiveInv(e)' BY <2>1, <2>2, <2>6 DEF DevInv, LiveInv, LiveLocs, ListedLocs, EnabledLocs
    <2>8. EnableInv(e)' BY <2>2, <2>5, <2>6 DEF DevInv, EnableInv, EnabledLocs
    <2>9. MapInv(e)' BY <2>1, <2>2, <2>5, <2>6 DEF DevInv, MapInv, PreMapLocs
    <2>10. MsiInv(e)'
      BY <2>1, <2>2, <2>5, <2>6 DEF DevInv, MsiInv, PreMsiLocs, PreMapLocs, MsiLocs, VectorLocs
    <2>11. IrqInv(e)' BY <2>1, <2>2, <2>5, <2>6 DEF DevInv, IrqInv, Registered, LoopInv
    <2>12. RunInv(e)' BY <2>1, <2>2, <2>5, <2>6 DEF DevInv, RunInv, WaitingFor
    <2>13. pc'[e] \in ListedLocs /\ pc[e] \in ListedLocs
      BY <2>2 DEF ListedLocs, EnabledLocs
    <2>14. DevInv(e)' BY <2>7, <2>8, <2>9, <2>10, <2>11, <2>12 DEF DevInv
    <2> QED BY <2>1, <2>2, <2>4, <2>13, <2>14, LocalStep DEF IInv, TypeOK
  <1> QED BY <1>1, <1>2 DEF EnableDevice

LEMMA RequestRegionStep ==
  ASSUME IInv, NEW e \in Devices, NEW r \in {2, 5}, NEW from, NEW to,
         <<from, to>> \in {<<"region2", "region5">>, <<"region5", "map">>},
         RequestRegion(e, r, from, to)
  PROVE  IInv'
  <1>1. CASE Goto(e, from, "err_regions") /\ UNCHANGED pci
    BY <1>1, PlainMove DEF RequestRegion, PlainMoves
  <1>2. CASE /\ Goto(e, from, to)
             /\ pci' = [pci EXCEPT ![e].regions = @ \cup ({r} \cap BarPresent[e])]
    <2> USE DEF MappedLocs, HandlerLocs
    <2>1. UNCHANGED <<xdev, user_i, xdev_list, interrupt_mode, running, panicked>>
      BY DEF RequestRegion
    <2>2. /\ pc[e] = from /\ pc'[e] = to /\ pc' \in [Devices -> Locations]
          /\ \A d \in Devices \ {e} : pc'[d] = pc[d] /\ pci'[d] = pci[d]
      BY <1>2 DEF IInv, TypeOK, Goto, Locations, OpenLocs
    <2>3. pci \in [Devices -> PciDev] BY DEF IInv, TypeOK
    <2>4. pci' \in [Devices -> PciDev] BY <1>2, <2>3 DEF PciDev
    <2>5. /\ pci'[e].enable_cnt = pci[e].enable_cnt /\ pci'[e].iomaps = pci[e].iomaps
          /\ pci'[e].msi = pci[e].msi /\ pci'[e].irqs = pci[e].irqs
      BY <1>2, <2>3 DEF PciDev
    <2>6. DevInv(e) BY DEF IInv
    <2>7. LiveInv(e)' BY <2>1, <2>2, <2>6 DEF DevInv, LiveInv, LiveLocs, ListedLocs, EnabledLocs
    <2>8. EnableInv(e)' BY <2>2, <2>5, <2>6 DEF DevInv, EnableInv, EnabledLocs
    <2>9. MapInv(e)' BY <2>1, <2>2, <2>5, <2>6 DEF DevInv, MapInv, PreMapLocs
    <2>10. MsiInv(e)'
      BY <2>1, <2>2, <2>5, <2>6 DEF DevInv, MsiInv, PreMsiLocs, PreMapLocs, MsiLocs, VectorLocs
    <2>11. IrqInv(e)' BY <2>1, <2>2, <2>5, <2>6 DEF DevInv, IrqInv, Registered, LoopInv
    <2>12. RunInv(e)' BY <2>1, <2>2, <2>5, <2>6 DEF DevInv, RunInv, WaitingFor
    <2>13. pc'[e] \in ListedLocs /\ pc[e] \in ListedLocs
      BY <2>2 DEF ListedLocs, EnabledLocs
    <2>14. DevInv(e)' BY <2>7, <2>8, <2>9, <2>10, <2>11, <2>12 DEF DevInv
    <2> QED BY <2>1, <2>2, <2>4, <2>13, <2>14, LocalStep DEF IInv, TypeOK
  <1> QED BY <1>1, <1>2 DEF RequestRegion

LEMMA MapBarStep == ASSUME IInv, NEW e \in Devices, MapBar(e) PROVE IInv'
  <1> PICK i \in BarPresent[e] \ xdev[e].bar :
        /\ \/ /\ Goto(e, "map", "map")
              /\ xdev' = [xdev EXCEPT ![e].bar = @ \cup {i}]
              /\ pci' = [pci EXCEPT ![e].iomaps = @ \cup {i}]
           \/ Goto(e, "map", "err_mask") /\ UNCHANGED <<xdev, pci>>
        /\ UNCHANGED <<user_i, xdev_list, interrupt_mode, running, panicked>>
    BY DEF MapBar
  <1>1. CASE Goto(e, "map", "err_mask") /\ UNCHANGED <<xdev, pci>>
    BY <1>1, PlainMove DEF PlainMoves
  <1>2. CASE /\ Goto(e, "map", "map")
             /\ xdev' = [xdev EXCEPT ![e].bar = @ \cup {i}]
             /\ pci' = [pci EXCEPT ![e].iomaps = @ \cup {i}]
    <2> USE DEF MappedLocs, HandlerLocs
    <2>1. i \in Bars BY BarAssumption
    <2>2. /\ pc[e] = "map" /\ pc'[e] = "map" /\ pc' \in [Devices -> Locations]
          /\ \A d \in Devices \ {e} : pc'[d] = pc[d] /\ xdev'[d] = xdev[d] /\ pci'[d] = pci[d]
      BY <1>2 DEF IInv, TypeOK, Goto, Locations, OpenLocs
    <2>3. pci \in [Devices -> PciDev] /\ xdev \in [Devices -> XgpuDev] BY DEF IInv, TypeOK
    <2>4. pci' \in [Devices -> PciDev] BY <1>2, <2>1, <2>3 DEF PciDev
    <2>5. xdev' \in [Devices -> XgpuDev] BY <1>2, <2>1, <2>3 DEF XgpuDev
    <2>6. /\ pci'[e].enable_cnt = pci[e].enable_cnt /\ pci'[e].iomaps = pci[e].iomaps \cup {i}
          /\ pci'[e].msi = pci[e].msi /\ pci'[e].irqs = pci[e].irqs
      BY <1>2, <2>3 DEF PciDev
    <2>7. /\ xdev'[e].live = xdev[e].live /\ xdev'[e].bar = xdev[e].bar \cup {i}
          /\ xdev'[e].msi_enabled = xdev[e].msi_enabled
          /\ xdev'[e].msix_enabled = xdev[e].msix_enabled
          /\ xdev'[e].idx = xdev[e].idx
      BY <1>2, <2>3 DEF XgpuDev
    <2>8. DevInv(e) BY DEF IInv
    <2>9. LiveInv(e)' BY <2>2, <2>7, <2>8 DEF DevInv, LiveInv
    <2>10. EnableInv(e)' BY <2>2, <2>6, <2>8 DEF DevInv, EnableInv
    <2>11. MapInv(e)' BY <2>2, <2>6, <2>7, <2>8 DEF DevInv, MapInv, PreMapLocs
    <2>12. MsiInv(e)' BY <2>2, <2>6, <2>7, <2>8 DEF DevInv, MsiInv
    <2>13. IrqInv(e)' BY <2>2, <2>6, <2>8 DEF DevInv, IrqInv, Registered, LoopInv
    <2>14. RunInv(e)' BY <2>2, <2>6, <2>8 DEF DevInv, RunInv, WaitingFor
    <2>15. DevInv(e)' BY <2>9, <2>10, <2>11, <2>12, <2>13, <2>14 DEF DevInv
    <2> QED BY <2>2, <2>4, <2>5, <2>7, <2>15, LocalStep DEF IInv, TypeOK
  <1> QED BY <1>1, <1>2

LEMMA BarsMappedStep == ASSUME IInv, NEW e \in Devices, BarsMapped(e) PROVE IInv'
  BY GuardedStep DEF BarsMapped, GuardedMove

LEMMA SetDmaMaskStep == ASSUME IInv, NEW e \in Devices, set_dma_mask(e) PROVE IInv'
  BY PlainMove DEF set_dma_mask, PlainMoves

LEMMA QuiesceStep == ASSUME IInv, NEW e \in Devices, Quiesce(e) PROVE IInv'
  BY PlainMove DEF Quiesce, PlainMoves

LEMMA NoMsixStep == ASSUME IInv, NEW e \in Devices, NoMsix(e) PROVE IInv'
  BY PlainMove DEF NoMsix, PlainMoves

LEMMA NoMsiStep == ASSUME IInv, NEW e \in Devices, NoMsi(e) PROVE IInv'
  BY PlainMove DEF NoMsi, PlainMoves

LEMMA EnableMsixStep == ASSUME IInv, NEW e \in Devices, EnableMsix(e) PROVE IInv'
  <1> USE DEF MappedLocs, HandlerLocs
  <1>1. UNCHANGED <<user_i, xdev_list, interrupt_mode, running, panicked>>
    BY DEF EnableMsix
  <1>2. pci \in [Devices -> PciDev] /\ xdev \in [Devices -> XgpuDev] BY DEF IInv, TypeOK
  <1>3. /\ xdev'[e].msix_enabled = TRUE /\ xdev'[e].msi_enabled = xdev[e].msi_enabled
        /\ xdev'[e].live = xdev[e].live /\ xdev'[e].bar = xdev[e].bar
        /\ xdev'[e].idx = xdev[e].idx
        /\ xdev' \in [Devices -> XgpuDev]
        /\ \A d \in Devices \ {e} : xdev'[d] = xdev[d]
    BY <1>2 DEF EnableMsix, XgpuDev
  <1>4. /\ pc[e] = "msix" /\ pc' \in [Devices -> Locations]
        /\ \A d \in Devices \ {e} : pc'[d] = pc[d] /\ pci'[d] = pci[d]
    BY DEF EnableMsix, IInv, TypeOK, Goto, Locations, OpenLocs, ExitLocs
  <1>5. \/ pc'[e] = "irq_setup" /\ pci'[e] = [pci[e] EXCEPT !.msi = "msix"]
        \/ pc'[e] = "err_msix" /\ pci'[e] = pci[e]
    BY <1>2 DEF EnableMsix, IInv, TypeOK, Goto
  <1>6. /\ pci'[e].enable_cnt = pci[e].enable_cnt /\ pci'[e].iomaps = pci[e].iomaps
        /\ pci'[e].irqs = pci[e].irqs
        /\ \/ pc'[e] = "irq_setup" /\ pci'[e].msi = "msix"
           \/ pc'[e] = "err_msix" /\ pci'[e].msi = pci[e].msi
    BY <1>2, <1>5 DEF PciDev
  <1>7. pci' \in [Devices -> PciDev]
    <2>1. CASE pci' = [pci EXCEPT ![e].msi = "msix"] BY <1>2, <2>1 DEF PciDev
    <2>2. CASE pci' = pci BY <1>2, <2>2
    <2> QED BY <2>1, <2>2 DEF EnableMsix
  <1>8. DevInv(e) BY DEF IInv
  <1>9. LiveInv(e)' BY <1>3, <1>4, <1>6, <1>8 DEF DevInv, LiveInv, LiveLocs, ListedLocs, EnabledLocs
  <1>10. EnableInv(e)' BY <1>4, <1>6, <1>8 DEF DevInv, EnableInv, EnabledLocs
  <1>11. MapInv(e)' BY <1>3, <1>4, <1>6, <1>8 DEF DevInv, MapInv, PreMapLocs
  <1>12. MsiInv(e)'
    BY <1>3, <1>4, <1>6, <1>8 DEF DevInv, MsiInv, PreMsiLocs, PreMapLocs, MsiLocs, VectorLocs
  <1>13. IrqInv(e)' BY <1>1, <1>4, <1>6, <1>8 DEF DevInv, IrqInv, Registered, LoopInv
  <1>14. RunInv(e)' BY <1>1, <1>4, <1>6, <1>8 DEF DevInv, RunInv, WaitingFor
  <1>15. pc'[e] \in ListedLocs /\ pc[e] \in ListedLocs
    BY <1>4, <1>6 DEF ListedLocs, EnabledLocs
  <1>16. DevInv(e)' BY <1>9, <1>10, <1>11, <1>12, <1>13, <1>14 DEF DevInv
  <1> QED BY <1>1, <1>3, <1>4, <1>7, <1>15, <1>16, LocalStep DEF IInv, TypeOK

LEMMA EnableMsiStep == ASSUME IInv, NEW e \in Devices, EnableMsi(e) PROVE IInv'
  <1> USE DEF MappedLocs, HandlerLocs
  <1>1. UNCHANGED <<user_i, xdev_list, interrupt_mode, running, panicked>>
    BY DEF EnableMsi
  <1>2. pci \in [Devices -> PciDev] /\ xdev \in [Devices -> XgpuDev] BY DEF IInv, TypeOK
  <1>3. /\ xdev'[e].msi_enabled = TRUE /\ xdev'[e].msix_enabled = xdev[e].msix_enabled
        /\ xdev'[e].live = xdev[e].live /\ xdev'[e].bar = xdev[e].bar
        /\ xdev'[e].idx = xdev[e].idx
        /\ xdev' \in [Devices -> XgpuDev]
        /\ \A d \in Devices \ {e} : xdev'[d] = xdev[d]
    BY <1>2 DEF EnableMsi, XgpuDev
  <1>4. /\ pc[e] = "msi" /\ pc' \in [Devices -> Locations]
        /\ \A d \in Devices \ {e} : pc'[d] = pc[d] /\ pci'[d] = pci[d]
    BY DEF EnableMsi, IInv, TypeOK, Goto, Locations, OpenLocs, ExitLocs
  <1>5. \/ pc'[e] = "irq_setup" /\ pci'[e] = [pci[e] EXCEPT !.msi = "msi"]
        \/ pc'[e] = "err_msix" /\ pci'[e] = pci[e]
    BY <1>2 DEF EnableMsi, IInv, TypeOK, Goto
  <1>6. /\ pci'[e].enable_cnt = pci[e].enable_cnt /\ pci'[e].iomaps = pci[e].iomaps
        /\ pci'[e].irqs = pci[e].irqs
        /\ \/ pc'[e] = "irq_setup" /\ pci'[e].msi = "msi"
           \/ pc'[e] = "err_msix" /\ pci'[e].msi = pci[e].msi
    BY <1>2, <1>5 DEF PciDev
  <1>7. pci' \in [Devices -> PciDev]
    <2>1. CASE pci' = [pci EXCEPT ![e].msi = "msi"] BY <1>2, <2>1 DEF PciDev
    <2>2. CASE pci' = pci BY <1>2, <2>2
    <2> QED BY <2>1, <2>2 DEF EnableMsi
  <1>8. DevInv(e) BY DEF IInv
  <1>9. LiveInv(e)' BY <1>3, <1>4, <1>6, <1>8 DEF DevInv, LiveInv, LiveLocs, ListedLocs, EnabledLocs
  <1>10. EnableInv(e)' BY <1>4, <1>6, <1>8 DEF DevInv, EnableInv, EnabledLocs
  <1>11. MapInv(e)' BY <1>3, <1>4, <1>6, <1>8 DEF DevInv, MapInv, PreMapLocs
  <1>12. MsiInv(e)'
    BY <1>3, <1>4, <1>6, <1>8 DEF DevInv, MsiInv, PreMsiLocs, PreMapLocs, MsiLocs, VectorLocs
  <1>13. IrqInv(e)' BY <1>1, <1>4, <1>6, <1>8 DEF DevInv, IrqInv, Registered, LoopInv
  <1>14. RunInv(e)' BY <1>1, <1>4, <1>6, <1>8 DEF DevInv, RunInv, WaitingFor
  <1>15. pc'[e] \in ListedLocs /\ pc[e] \in ListedLocs
    BY <1>4, <1>6 DEF ListedLocs, EnabledLocs
  <1>16. DevInv(e)' BY <1>9, <1>10, <1>11, <1>12, <1>13, <1>14 DEF DevInv
  <1> QED BY <1>1, <1>3, <1>4, <1>7, <1>15, <1>16, LocalStep DEF IInv, TypeOK

LEMMA MsixSetupStep == ASSUME IInv, NEW e \in Devices, MsixSetup(e) PROVE IInv'
  <1> USE DEF MappedLocs, HandlerLocs
  <1>1. UNCHANGED <<xdev, pci, xdev_list, interrupt_mode, running, panicked>> /\ xdev[e].msix_enabled
    BY DEF MsixSetup
  <1>2. /\ pc[e] = "irq_setup" /\ pc'[e] = "request_vec" /\ pc' \in [Devices -> Locations]
        /\ user_i'[e] = 0 /\ user_i' \in [Devices -> -1..UserMax]
        /\ \A d \in Devices \ {e} : pc'[d] = pc[d] /\ user_i'[d] = user_i[d]
    BY UserMaxAssumption DEF MsixSetup, IInv, TypeOK, Goto, Locations, OpenLocs
  <1>3. DevInv(e) BY DEF IInv
  <1>4. LiveInv(e)' BY <1>1, <1>2, <1>3 DEF DevInv, LiveInv, LiveLocs, ListedLocs, EnabledLocs
  <1>5. EnableInv(e)' BY <1>1, <1>2, <1>3 DEF DevInv, EnableInv, EnabledLocs
  <1>6. MapInv(e)' BY <1>1, <1>2, <1>3 DEF DevInv, MapInv, PreMapLocs
  <1>7. MsiInv(e)'
    BY <1>1, <1>2, <1>3 DEF DevInv, MsiInv, PreMsiLocs, PreMapLocs, MsiLocs, VectorLocs
  <1>8. IrqInv(e)'
    <2>1. Vectors(0, 0 - 1) = {} BY VectorsEmpty
    <2> QED
      BY <1>1, <1>2, <1>3, <2>1, UserMaxAssumption DEF DevInv, IrqInv, Registered, LoopInv
  <1>9. RunInv(e)' BY <1>1, <1>2, <1>3 DEF DevInv, RunInv, WaitingFor
  <1>10. pc'[e] \in ListedLocs /\ pc[e] \in ListedLocs
    BY <1>2 DEF ListedLocs, EnabledLocs
  <1>11. DevInv(e)' BY <1>4, <1>5, <1>6, <1>7, <1>8, <1>9 DEF DevInv
  <1> QED BY <1>1, <1>2, <1>10, <1>11, LocalStep DEF IInv, TypeOK

LEMMA LineSetupStep ==
  ASSUME IInv, NEW e \in Devices, NEW line \in {Intx, MsiLine}, LineSetup(e, line),
         ~xdev[e].msix_enabled, line = LineOf(e)
  PROVE  IInv'
  <1> USE DEF MappedLocs, HandlerLocs
  <1>1. UNCHANGED <<user_i, xdev_list, interrupt_mode, running, panicked>>
    BY DEF LineSetup
  <1>2. /\ pci \in [Devices -> PciDev] /\ xdev \in [Devices -> XgpuDev]
        /\ line \in Lines
    BY DEF IInv, TypeOK, Lines
  <1>3. /\ xdev'[e].irq_line = line /\ xdev'[e].msi_enabled = xdev[e].msi_enabled
        /\ xdev'[e].msix_enabled = xdev[e].msix_enabled
        /\ xdev'[e].live = xdev[e].live /\ xdev'[e].bar = xdev[e].bar
        /\ xdev'[e].idx = xdev[e].idx
        /\ xdev' \in [Devices -> XgpuDev]
        /\ \A d \in Devices \ {e} : xdev'[d] = xdev[d]
    BY <1>2 DEF LineSetup, XgpuDev
  <1>4. /\ pc[e] = "irq_setup" /\ pc' \in [Devices -> Locations]
        /\ \A d \in Devices \ {e} : pc'[d] = pc[d] /\ pci'[d] = pci[d]
    BY DEF LineSetup, IInv, TypeOK, Goto, Locations, OpenLocs, ExitLocs
  <1>5. \/ pc'[e] = "flush" /\ pci'[e] = [pci[e] EXCEPT !.irqs = @ \cup {line}]
        \/ pc'[e] = "err_msix" /\ pci'[e] = pci[e]
    BY <1>2 DEF LineSetup, IInv, TypeOK, Goto
  <1>6. /\ pci'[e].enable_cnt = pci[e].enable_cnt /\ pci'[e].iomaps = pci[e].iomaps
        /\ pci'[e].msi = pci[e].msi
        /\ \/ pc'[e] = "flush" /\ pci'[e].irqs = pci[e].irqs \cup {line}
           \/ pc'[e] = "err_msix" /\ pci'[e].irqs = pci[e].irqs
    BY <1>2, <1>5 DEF PciDev
  <1>7. pci' \in [Devices -> PciDev]
    <2>1. CASE pci' = [pci EXCEPT ![e].irqs = @ \cup {line}] BY <1>2, <2>1 DEF PciDev
    <2>2. CASE pci' = pci BY <1>2, <2>2
    <2> QED BY <2>1, <2>2 DEF LineSetup
  <1>8. DevInv(e) BY DEF IInv
  <1>9. LiveInv(e)' BY <1>3, <1>4, <1>6, <1>8 DEF DevInv, LiveInv, LiveLocs, ListedLocs, EnabledLocs
  <1>10. EnableInv(e)' BY <1>4, <1>6, <1>8 DEF DevInv, EnableInv, EnabledLocs
  <1>11. MapInv(e)' BY <1>3, <1>4, <1>6, <1>8 DEF DevInv, MapInv, PreMapLocs
  <1>12. MsiInv(e)'
    BY <1>3, <1>4, <1>6, <1>8 DEF DevInv, MsiInv, PreMsiLocs, PreMapLocs, MsiLocs, VectorLocs
  <1>13. IrqInv(e)'
    BY <1>1, <1>3, <1>4, <1>6, <1>8 DEF DevInv, IrqInv, Registered, LoopInv, LineOf, HandlersOf
  <1>14. RunInv(e)' BY <1>1, <1>4, <1>6, <1>8 DEF DevInv, RunInv, WaitingFor
  <1>15. pc'[e] \in ListedLocs /\ pc[e] \in ListedLocs
    BY <1>4, <1>6 DEF ListedLocs, EnabledLocs
  <1>16. DevInv(e)' BY <1>9, <1>10, <1>11, <1>12, <1>13, <1>14 DEF DevInv
  <1> QED BY <1>1, <1>3, <1>4, <1>7, <1>15, <1>16, LocalStep DEF IInv, TypeOK

LEMMA MsiSetupStep == ASSUME IInv, NEW e \in Devices, irq_msi_setup(e) PROVE IInv'
  BY LineSetupStep DEF irq_msi_setup, LineOf

LEMMA LegacySetupStep == ASSUME IInv, NEW e \in Devices, irq_legacy_setup(e) PROVE IInv'
  <1>1. CASE LineSetup(e, Intx) BY <1>1, LineSetupStep DEF irq_legacy_setup, LineOf
  <1>2. CASE ~LineSetup(e, Intx) BY <1>2, PlainMove DEF irq_legacy_setup, PlainMoves
  <1> QED BY <1>1, <1>2

LEMMA RequestVectorStep == ASSUME IInv, NEW e \in Devices, RequestVector(e) PROVE IInv'
  <1> USE DEF MappedLocs, HandlerLocs
  <1>1. UNCHANGED <<xdev, xdev_list, interrupt_mode, running, panicked>> /\ user_i[e] < UserMax
    BY DEF RequestVector
  <1>2. /\ pci \in [Devices -> PciDev] /\ user_i \in [Devices -> -1..UserMax]
        /\ UserMax \in Nat /\ UserMax =< 16
    BY UserMaxAssumption DEF IInv, TypeOK
  <1>3. /\ pc[e] = "request_vec" /\ pc' \in [Devices -> Locations]
        /\ \A d \in Devices \ {e} : pc'[d] = pc[d] /\ pci'[d] = pci[d] /\ user_i'[d] = user_i[d]
    BY DEF RequestVector, IInv, TypeOK, Goto, Locations, OpenLocs
  <1>4. \/ /\ pc'[e] = "request_vec" /\ user_i'[e] = user_i[e] + 1
           /\ pci'[e] = [pci[e] EXCEPT !.irqs = @ \cup {Vector(user_i[e])}]
        \/ pc'[e] = "undo_vec" /\ user_i'[e] = user_i[e] - 1 /\ pci'[e] = pci[e]
    BY <1>2 DEF RequestVector, IInv, TypeOK, Goto
  <1>5. /\ pci'[e].enable_cnt = pci[e].enable_cnt /\ pci'[e].iomaps = pci[e].iomaps
        /\ pci'[e].msi = pci[e].msi
        /\ \/ /\ pc'[e] = "request_vec" /\ user_i'[e] = user_i[e] + 1
              /\ pci'[e].irqs = pci[e].irqs \cup {Vector(user_i[e])}
           \/ /\ pc'[e] = "undo_vec" /\ user_i'[e] = user_i[e] - 1
              /\ pci'[e].irqs = pci[e].irqs
    BY <1>2, <1>4 DEF PciDev
  <1>6. DevInv(e) BY DEF IInv
  <1>7. user_i[e] \in 0..(UserMax - 1) /\ pci[e].irqs = Vectors(0, user_i[e] - 1)
    BY <1>1, <1>2, <1>3, <1>6 DEF DevInv, IrqInv, LoopInv, Registered
  <1>8. pci' \in [Devices -> PciDev] /\ user_i' \in [Devices -> -1..UserMax]
    <2>1. CASE pci' = [pci EXCEPT ![e].irqs = @ \cup {Vector(user_i[e])}] /\ user_i' = [user_i EXCEPT ![e] = @ + 1]
      <3>1. Vector(user_i[e]) \in Lines BY <1>7, VectorsAreLines
      <3>2. pci' \in [Devices -> PciDev] BY <1>2, <2>1, <3>1 DEF PciDev
      <3> QED BY <1>2, <1>7, <2>1, <3>2
    <2>2. CASE pci' = pci /\ user_i' = [user_i EXCEPT ![e] = @ - 1] BY <1>2, <1>7, <2>2
    <2> QED BY <2>1, <2>2 DEF RequestVector
  <1>9. LiveInv(e)' BY <1>1, <1>3, <1>5, <1>6 DEF DevInv, LiveInv, LiveLocs, ListedLocs, EnabledLocs
  <1>10. EnableInv(e)' BY <1>3, <1>5, <1>6 DEF DevInv, EnableInv, EnabledLocs
  <1>11. MapInv(e)' BY <1>1, <1>3, <1>5, <1>6 DEF DevInv, MapInv, PreMapLocs
  <1>12. MsiInv(e)'
    BY <1>1, <1>3, <1>5, <1>6 DEF DevInv, MsiInv, PreMsiLocs, PreMapLocs, MsiLocs, VectorLocs
  <1>13. IrqInv(e)'
    <2>1. pci[e].irqs \cup {Vector(user_i[e])} = Vectors(0, user_i[e])
      BY <1>7, VectorsAddLast
    <2>2. CASE pc'[e] = "request_vec"
      <3>1. (user_i[e] + 1) - 1 = user_i[e] BY <1>7
      <3>2. /\ user_i'[e] = user_i[e] + 1
            /\ pci'[e].irqs = pci[e].irqs \cup {Vector(user_i[e])}
        BY <1>5, <2>2
      <3>3. Vectors(0, user_i'[e] - 1) = pci'[e].irqs BY <2>1, <3>1, <3>2
      <3>4. user_i'[e] \in 0..UserMax BY <1>2, <1>7, <3>2
      <3> QED BY <2>2, <3>3, <3>4 DEF IrqInv, LoopInv, Registered
    <2>3. CASE pc'[e] = "undo_vec"
      BY <1>2, <1>5, <1>7, <2>3 DEF IrqInv, LoopInv, Registered
    <2> QED BY <1>5, <2>2, <2>3
  <1>14. RunInv(e)' BY <1>1, <1>3, <1>5, <1>6 DEF DevInv, RunInv, WaitingFor
  <1>15. pc'[e] \in ListedLocs /\ pc[e] \in ListedLocs
    BY <1>3, <1>5 DEF ListedLocs, EnabledLocs
  <1>16. DevInv(e)' BY <1>9, <1>10, <1>11, <1>12, <1>13, <1>14 DEF DevInv
  <1> QED BY <1>1, <1>3, <1>8, <1>15, <1>16, LocalStep DEF IInv, TypeOK

LEMMA VectorsRequestedStep == ASSUME IInv, NEW e \in Devices, VectorsRequested(e) PROVE IInv'
  BY GuardedStep DEF VectorsRequested, GuardedMove

LEMMA VectorsUndoneStep == ASSUME IInv, NEW e \in Devices, VectorsUndone(e) PROVE IInv'
  BY GuardedStep DEF VectorsUndone, GuardedMove

(* free_irq takes the handler off its line: from then on it is only waited *)
(* for.                                                                    *)
FreeMoves == {<<"undo_vec", "undo_sync">>, <<"teardown", "sync_irq">>, <<"free_vec", "sync_vec">>}

LEMMA FreeIrqStep ==
  ASSUME IInv, NEW e \in Devices, NEW line, NEW a, NEW b, <<a, b>> \in FreeMoves,
         FreeIrq(e, line, a, b),
         a = "teardown" => ~xdev[e].msix_enabled /\ line = xdev[e].irq_line,
         a = "undo_vec" => user_i[e] >= 0 /\ line = Vector(user_i[e]),
         a = "free_vec" => user_i[e] < UserMax /\ line = Vector(user_i[e])
  PROVE  IInv'
  <1> USE DEF MappedLocs, HandlerLocs, FreeMoves
  <1>1. UNCHANGED <<xdev, user_i, xdev_list, interrupt_mode, running, panicked>>
    BY DEF FreeIrq
  <1>2. /\ pci \in [Devices -> PciDev] /\ user_i[e] \in -1..UserMax
        /\ UserMax \in Nat /\ UserMax =< 16
    BY UserMaxAssumption DEF IInv, TypeOK
  <1>3. /\ pc[e] = a /\ pc'[e] = b /\ pc' \in [Devices -> Locations]
        /\ \A d \in Devices \ {e} : pc'[d] = pc[d] /\ pci'[d] = pci[d]
    BY DEF FreeIrq, IInv, TypeOK, Goto, Locations, OpenLocs, CloseLocs
  <1>4. /\ pci'[e].enable_cnt = pci[e].enable_cnt /\ pci'[e].iomaps = pci[e].iomaps
        /\ pci'[e].msi = pci[e].msi /\ pci'[e].irqs = pci[e].irqs \ {line}
    BY <1>2 DEF FreeIrq, PciDev
  <1>5. pci' \in [Devices -> PciDev] BY <1>2 DEF FreeIrq, PciDev
  <1>6. DevInv(e) BY DEF IInv
  <1>7. LiveInv(e)' BY <1>1, <1>3, <1>4, <1>6 DEF DevInv, LiveInv, LiveLocs, ListedLocs, EnabledLocs
  <1>8. EnableInv(e)' BY <1>3, <1>4, <1>6 DEF DevInv, EnableInv, EnabledLocs
  <1>9. MapInv(e)' BY <1>1, <1>3, <1>4, <1>6 DEF DevInv, MapInv, PreMapLocs
  <1>10. MsiInv(e)'
    BY <1>1, <1>3, <1>4, <1>6 DEF DevInv, MsiInv, PreMsiLocs, PreMapLocs, MsiLocs, VectorLocs
  <1>11. IrqInv(e)'
    <2>1. CASE a = "undo_vec"
      <3>1. user_i[e] \in 0..(UserMax - 1) /\ pci[e].irqs = Vectors(0, user_i[e])
        BY <1>2, <1>3, <1>6, <2>1 DEF DevInv, IrqInv, LoopInv, Registered
      <3>2. pci'[e].irqs = Vectors(0, user_i[e] - 1) BY <1>4, <2>1, <3>1, VectorsDropLast
      <3> QED BY <1>1, <1>3, <2>1, <3>1, <3>2 DEF IrqInv, LoopInv, Registered
    <2>2. CASE a = "free_vec"
      <3>1. user_i[e] \in 0..(UserMax - 1) /\ pci[e].irqs = Vectors(user_i[e], UserMax - 1)
        BY <1>2, <1>3, <1>6, <2>2 DEF DevInv, IrqInv, LoopInv, Registered
      <3>2. pci'[e].irqs = Vectors(user_i[e] + 1, UserMax - 1)
        BY <1>2, <1>4, <2>2, <3>1, VectorsDropFirst
      <3> QED BY <1>1, <1>3, <2>2, <3>1, <3>2 DEF IrqInv, LoopInv, Registered
    <2>3. CASE a = "teardown"
      <3>1. pci[e].irqs = {xdev[e].irq_line} /\ xdev[e].irq_line = LineOf(e)
        BY <1>3, <1>6, <2>3 DEF DevInv, IrqInv, Registered, HandlersOf, LineOf
      <3> QED BY <1>1, <1>3, <1>4, <2>3, <3>1 DEF IrqInv, LoopInv, Registered, LineOf
    <2> QED BY <2>1, <2>2, <2>3
  <1>12. RunInv(e)' BY <1>1, <1>3, <1>4, <1>6 DEF DevInv, RunInv, WaitingFor
  <1>13. pc'[e] \in ListedLocs /\ pc[e] \in ListedLocs
    BY <1>3 DEF ListedLocs, EnabledLocs
  <1>14. DevInv(e)' BY <1>7, <1>8, <1>9, <1>10, <1>11, <1>12 DEF DevInv
  <1> QED BY <1>1, <1>3, <1>5, <1>13, <1>14, LocalStep DEF IInv, TypeOK

(* The wait of free_irq in the loops over the vectors.                     *)
LEMMA SyncVectorStep ==
  ASSUME IInv, NEW e \in Devices, NEW a, NEW b, NEW step,
         \/ a = "undo_sync" /\ b = "undo_vec" /\ step = -1
         \/ a = "sync_vec" /\ b = "free_vec" /\ step = 1,
         SyncIrq(e, Vector(user_i[e]), a, b, step)
  PROVE  IInv'
  <1> USE DEF MappedLocs, HandlerLocs
  <1>1. /\ UNCHANGED <<xdev, pci, xdev_list, interrupt_mode, running, panicked>>
        /\ <<e, Vector(user_i[e])>> \notin running
    BY DEF SyncIrq
  <1>2. /\ user_i \in [Devices -> -1..UserMax] /\ UserMax \in Nat /\ UserMax =< 16
    BY UserMaxAssumption DEF IInv, TypeOK
  <1>3. /\ pc[e] = a /\ pc'[e] = b /\ pc' \in [Devices -> Locations]
        /\ user_i'[e] = user_i[e] + step
        /\ \A d \in Devices \ {e} : pc'[d] = pc[d] /\ user_i'[d] = user_i[d]
    BY <1>2 DEF SyncIrq, IInv, TypeOK, Goto, Locations, OpenLocs, CloseLocs
  <1>4. DevInv(e) BY DEF IInv
  <1>5. user_i[e] \in 0..(UserMax - 1)
    BY <1>3, <1>4 DEF DevInv, IrqInv, LoopInv
  <1>6. user_i' \in [Devices -> -1..UserMax] BY <1>2, <1>5 DEF SyncIrq
  <1>7. LiveInv(e)' BY <1>1, <1>3, <1>4 DEF DevInv, LiveInv, LiveLocs, ListedLocs, EnabledLocs
  <1>8. EnableInv(e)' BY <1>1, <1>3, <1>4 DEF DevInv, EnableInv, EnabledLocs
  <1>9. MapInv(e)' BY <1>1, <1>3, <1>4 DEF DevInv, MapInv, PreMapLocs
  <1>10. MsiInv(e)'
    BY <1>1, <1>3, <1>4 DEF DevInv, MsiInv, PreMsiLocs, PreMapLocs, MsiLocs, VectorLocs
  <1>11. IrqInv(e)'
    <2>1. CASE a = "undo_sync"
      <3>1. user_i'[e] = user_i[e] - 1 BY <1>3, <1>5, <2>1
      <3>2. pci[e].irqs = Vectors(0, user_i'[e])
        BY <1>3, <1>4, <2>1, <3>1 DEF DevInv, IrqInv, Registered
      <3> QED BY <1>1, <1>2, <1>3, <1>5, <2>1, <3>1, <3>2 DEF IrqInv, LoopInv, Registered
    <2>2. CASE a = "sync_vec"
      <3>1. user_i'[e] = user_i[e] + 1 BY <1>3, <2>2
      <3>2. pci[e].irqs = Vectors(user_i'[e], UserMax - 1)
        BY <1>3, <1>4, <2>2, <3>1 DEF DevInv, IrqInv, Registered
      <3> QED BY <1>1, <1>2, <1>3, <1>5, <2>2, <3>1, <3>2 DEF IrqInv, LoopInv, Registered
    <2> QED BY <2>1, <2>2
  <1>12. RunInv(e)' BY <1>1, <1>3, <1>4 DEF DevInv, RunInv, WaitingFor
  <1>13. pc'[e] \in ListedLocs /\ pc[e] \in ListedLocs
    BY <1>3 DEF ListedLocs, EnabledLocs
  <1>14. DevInv(e)' BY <1>7, <1>8, <1>9, <1>10, <1>11, <1>12 DEF DevInv
  <1> QED BY <1>1, <1>3, <1>6, <1>13, <1>14, LocalStep DEF IInv, TypeOK

LEMMA UndoVectorStep == ASSUME IInv, NEW e \in Devices, UndoVector(e) PROVE IInv'
  <1>1. CASE user_i[e] >= 0 /\ FreeIrq(e, Vector(user_i[e]), "undo_vec", "undo_sync")
    BY <1>1, FreeIrqStep DEF FreeMoves
  <1>2. CASE SyncIrq(e, Vector(user_i[e]), "undo_sync", "undo_vec", -1)
    BY <1>2, SyncVectorStep
  <1> QED BY <1>1, <1>2 DEF UndoVector

LEMMA UserTeardownStep ==
  ASSUME IInv, NEW e \in Devices, irq_msix_user_teardown(e) PROVE IInv'
  <1>1. CASE user_i[e] < UserMax /\ FreeIrq(e, Vector(user_i[e]), "free_vec", "sync_vec")
    BY <1>1, FreeIrqStep DEF FreeMoves
  <1>2. CASE SyncIrq(e, Vector(user_i[e]), "sync_vec", "free_vec", 1)
    BY <1>2, SyncVectorStep
  <1>3. CASE /\ user_i[e] >= UserMax
             /\ Goto(e, "free_vec", "err_msix")
             /\ UNCHANGED <<xdev, user_i, xdev_list, interrupt_mode, pci, running, panicked>>
    BY <1>3, GuardedStep DEF GuardedMove
  <1> QED BY <1>1, <1>2, <1>3 DEF irq_msix_user_teardown

LEMMA CallCloseStep == ASSUME IInv, NEW e \in Devices, CallClose(e) PROVE IInv'
  <1>1. e \in Listed
    BY DEF CallClose, Goto, IInv, ListInv, ListedLocs, EnabledLocs, MappedLocs, HandlerLocs
  <1> QED BY <1>1, GuardedStep DEF CallClose, GuardedMove

LEMMA TeardownStep == ASSUME IInv, NEW e \in Devices, irq_teardown(e) PROVE IInv'
  <1> USE DEF MappedLocs, HandlerLocs
  <1>1. CASE ~xdev[e].msix_enabled /\ FreeIrq(e, xdev[e].irq_line, "teardown", "sync_irq")
    BY <1>1, FreeIrqStep DEF FreeMoves
  <1>2. CASE SyncIrq(e, xdev[e].irq_line, "sync_irq", "err_msix", 0)
    <2>1. UNCHANGED user_i BY <1>2 DEF SyncIrq, IInv, TypeOK
    <2> QED BY <1>2, <2>1, GuardedStep DEF SyncIrq, GuardedMove
  <1>3. CASE /\ xdev[e].msix_enabled
             /\ Goto(e, "teardown", "free_vec")
             /\ user_i' = [user_i EXCEPT ![e] = 0]
             /\ UNCHANGED <<xdev, xdev_list, interrupt_mode, pci, running, panicked>>
    <2>1. /\ pc[e] = "teardown" /\ pc'[e] = "free_vec" /\ pc' \in [Devices -> Locations]
          /\ user_i'[e] = 0 /\ user_i' \in [Devices -> -1..UserMax]
          /\ \A d \in Devices \ {e} : pc'[d] = pc[d] /\ user_i'[d] = user_i[d]
      BY <1>3, UserMaxAssumption DEF IInv, TypeOK, Goto, Locations, CloseLocs
    <2>2. DevInv(e) BY DEF IInv
    <2>3. LiveInv(e)' BY <1>3, <2>1, <2>2 DEF DevInv, LiveInv, LiveLocs, ListedLocs, EnabledLocs
    <2>4. EnableInv(e)' BY <1>3, <2>1, <2>2 DEF DevInv, EnableInv, EnabledLocs
    <2>5. MapInv(e)' BY <1>3, <2>1, <2>2 DEF DevInv, MapInv, PreMapLocs
    <2>6. MsiInv(e)'
      BY <1>3, <2>1, <2>2 DEF DevInv, MsiInv, PreMsiLocs, PreMapLocs, MsiLocs, VectorLocs
    <2>7. IrqInv(e)'
      BY <1>3, <2>1, <2>2, UserMaxAssumption DEF DevInv, IrqInv, Registered, LoopInv, HandlersOf
    <2>8. RunInv(e)' BY <1>3, <2>1, <2>2 DEF DevInv, RunInv, WaitingFor
    <2>9. pc'[e] \in ListedLocs /\ pc[e] \in ListedLocs BY <2>1 DEF ListedLocs, EnabledLocs
    <2>10. DevInv(e)' BY <2>3, <2>4, <2>5, <2>6, <2>7, <2>8 DEF DevInv
    <2> QED BY <1>3, <2>1, <2>9, <2>10, LocalStep DEF IInv, TypeOK
  <1> QED BY <1>1, <1>2, <1>3 DEF irq_teardown

(* A step that changes the offline flag, which nothing else depends on.    *)
LEMMA OfflineStep ==
  ASSUME IInv, NEW e \in Devices, NEW flag \in BOOLEAN, NEW a \in {"flush", "open"}, NEW b,
         b = "open",
         Goto(e, a, b), xdev' = [xdev EXCEPT ![e].offline = flag],
         UNCHANGED <<user_i, xdev_list, interrupt_mode, pci, running, panicked>>
  PROVE  IInv'
  <1> USE DEF MappedLocs, HandlerLocs
  <1>1. /\ pc[e] = a /\ pc'[e] = b /\ pc' \in [Devices -> Locations]
        /\ \A d \in Devices \ {e} : pc'[d] = pc[d] /\ xdev'[d] = xdev[d]
    BY DEF IInv, TypeOK, Goto, Locations
  <1>2. xdev \in [Devices -> XgpuDev] BY DEF IInv, TypeOK
  <1>3. /\ xdev'[e].live = xdev[e].live /\ xdev'[e].bar = xdev[e].bar
        /\ xdev'[e].msi_enabled = xdev[e].msi_enabled
        /\ xdev'[e].msix_enabled = xdev[e].msix_enabled
        /\ xdev'[e].idx = xdev[e].idx /\ xdev'[e].irq_line = xdev[e].irq_line
        /\ xdev' \in [Devices -> XgpuDev]
    BY <1>2 DEF XgpuDev
  <1>4. DevInv(e) BY DEF IInv
  <1>5. LiveInv(e)' BY <1>1, <1>3, <1>4 DEF DevInv, LiveInv, LiveLocs, ListedLocs, EnabledLocs
  <1>6. EnableInv(e)' BY <1>1, <1>4 DEF DevInv, EnableInv, EnabledLocs
  <1>7. MapInv(e)' BY <1>1, <1>3, <1>4 DEF DevInv, MapInv, PreMapLocs
  <1>8. MsiInv(e)'
    BY <1>1, <1>3, <1>4 DEF DevInv, MsiInv, PreMsiLocs, PreMapLocs, MsiLocs, VectorLocs
  <1>9. IrqInv(e)'
    BY <1>1, <1>3, <1>4 DEF DevInv, IrqInv, Registered, LoopInv, HandlersOf, LineOf
  <1>10. RunInv(e)' BY <1>1, <1>3, <1>4 DEF DevInv, RunInv, WaitingFor
  <1>11. pc'[e] \in ListedLocs /\ pc[e] \in ListedLocs BY <1>1 DEF ListedLocs, EnabledLocs
  <1>12. DevInv(e)' BY <1>5, <1>6, <1>7, <1>8, <1>9, <1>10 DEF DevInv
  <1> QED BY <1>1, <1>3, <1>11, <1>12, LocalStep DEF IInv, TypeOK

LEMMA FinishOpenStep == ASSUME IInv, NEW e \in Devices, FinishOpen(e) PROVE IInv'
  <1>1. /\ Goto(e, "flush", "open") /\ xdev' = [xdev EXCEPT ![e].offline = FALSE]
        /\ UNCHANGED <<user_i, xdev_list, interrupt_mode, pci, running, panicked>>
    BY DEF FinishOpen
  <1>2. FALSE \in BOOLEAN OBVIOUS
  <1> QED BY ONLY IInv, e \in Devices, <1>1, <1>2, OfflineStep

LEMMA SetOfflineStep ==
  ASSUME IInv, NEW e \in Devices, NEW flag \in BOOLEAN, SetOffline(e, flag)
  PROVE  IInv'
  <1>1. Goto(e, "open", "open") BY DEF SetOffline, Goto, IInv, TypeOK
  <1>2. /\ xdev' = [xdev EXCEPT ![e].offline = flag]
        /\ UNCHANGED <<user_i, xdev_list, interrupt_mode, pci, running, panicked>>
    BY <1>1 DEF SetOffline
  <1> QED BY <1>1, <1>2, OfflineStep

LEMMA DisableMsiStep == ASSUME IInv, NEW e \in Devices, disable_msi_msix(e) PROVE IInv'
  <1> USE DEF MappedLocs, HandlerLocs
  <1>1. UNCHANGED <<user_i, xdev_list, interrupt_mode, running, panicked>>
    BY DEF disable_msi_msix
  <1>2. pci \in [Devices -> PciDev] /\ xdev \in [Devices -> XgpuDev] BY DEF IInv, TypeOK
  <1>3. /\ pc[e] = "err_msix" /\ pc'[e] = "err_mask" /\ pc' \in [Devices -> Locations]
        /\ \A d \in Devices \ {e} : pc'[d] = pc[d] /\ pci'[d] = pci[d] /\ xdev'[d] = xdev[d]
    BY <1>2 DEF disable_msi_msix, IInv, TypeOK, Goto, Locations, ExitLocs
  <1> DEFINE Kind == IF xdev[e].msix_enabled THEN "msix"
                     ELSE IF xdev[e].msi_enabled THEN "msi" ELSE "none"
  <1>4. /\ xdev'[e].live = xdev[e].live /\ xdev'[e].bar = xdev[e].bar
        /\ xdev'[e].msi_enabled = (xdev[e].msi_enabled /\ Kind # "msi")
        /\ xdev'[e].msix_enabled = FALSE
        /\ xdev'[e].idx = xdev[e].idx
    BY <1>2 DEF disable_msi_msix, XgpuDev
  <1>5. xdev' \in [Devices -> XgpuDev]
    <2>1. (xdev[e].msi_enabled /\ Kind # "msi") \in BOOLEAN OBVIOUS
    <2> DEFINE flag == xdev[e].msi_enabled /\ Kind # "msi"
               r == [xdev[e] EXCEPT !.msix_enabled = FALSE, !.msi_enabled = flag]
    <2>2. xdev' = [xdev EXCEPT ![e] = r] BY <1>2 DEF disable_msi_msix, XgpuDev
    <2> HIDE DEF flag
    <2>3. xdev[e] \in XgpuDev BY <1>2
    <2>4. flag \in BOOLEAN BY <2>1 DEF flag
    <2>5. r \in XgpuDev BY <2>3, <2>4 DEF XgpuDev
    <2> HIDE DEF r
    <2> QED BY <1>2, <2>2, <2>5
  <1>6. /\ pci'[e].enable_cnt = pci[e].enable_cnt /\ pci'[e].iomaps = pci[e].iomaps
        /\ pci'[e].irqs = pci[e].irqs
        /\ pci'[e].msi = IF pci[e].msi = Kind THEN "intx" ELSE pci[e].msi
    BY <1>2 DEF disable_msi_msix, PciDev
  <1>7. pci' \in [Devices -> PciDev] BY <1>2 DEF disable_msi_msix, PciDev
  <1>8. DevInv(e) BY DEF IInv
  <1>9. LiveInv(e)' BY <1>3, <1>4, <1>8 DEF DevInv, LiveInv, LiveLocs, ListedLocs, EnabledLocs
  <1>10. EnableInv(e)' BY <1>3, <1>6, <1>8 DEF DevInv, EnableInv, EnabledLocs
  <1>11. MapInv(e)' BY <1>3, <1>4, <1>6, <1>8 DEF DevInv, MapInv, PreMapLocs
  <1>12. MsiInv(e)'
    <2>1. pci'[e].msi = "intx"
      BY <1>2, <1>6, <1>8 DEF DevInv, MsiInv, PciDev
    <2> QED
      BY <1>3, <1>4, <2>1 DEF MsiInv, PreMsiLocs, PreMapLocs, MsiLocs, VectorLocs
  <1>13. IrqInv(e)' BY <1>1, <1>3, <1>6, <1>8 DEF DevInv, IrqInv, Registered, LoopInv
  <1>14. RunInv(e)' BY <1>1, <1>3, <1>6, <1>8 DEF DevInv, RunInv, WaitingFor
  <1>15. pc'[e] \in ListedLocs /\ pc[e] \in ListedLocs BY <1>3 DEF ListedLocs, EnabledLocs
  <1>16. DevInv(e)' BY <1>9, <1>10, <1>11, <1>12, <1>13, <1>14 DEF DevInv
  <1> QED BY <1>1, <1>3, <1>4, <1>5, <1>7, <1>15, <1>16, LocalStep DEF IInv, TypeOK

LEMMA UnmapStep == ASSUME IInv, NEW e \in Devices, unmap_bars(e) PROVE IInv'
  <1> USE DEF MappedLocs, HandlerLocs
  <1>1. CASE xdev[e].bar = {} /\ Goto(e, "err_mask", "err_map") /\ UNCHANGED <<xdev, pci>>
    BY <1>1, GuardedStep DEF unmap_bars, GuardedMove
  <1>2. ASSUME NEW i \in xdev[e].bar, Goto(e, "err_mask", "err_mask"),
               xdev' = [xdev EXCEPT ![e].bar = @ \ {i}],
               pci' = [pci EXCEPT ![e].iomaps = @ \ {i}]
        PROVE  IInv'
    <2>1. UNCHANGED <<user_i, xdev_list, interrupt_mode, running, panicked>>
      BY DEF unmap_bars
    <2>2. /\ pc[e] = "err_mask" /\ pc'[e] = "err_mask" /\ pc' \in [Devices -> Locations]
          /\ \A d \in Devices \ {e} : pc'[d] = pc[d] /\ xdev'[d] = xdev[d] /\ pci'[d] = pci[d]
      BY <1>2 DEF IInv, TypeOK, Goto, Locations, ExitLocs
    <2>3. pci \in [Devices -> PciDev] /\ xdev \in [Devices -> XgpuDev] BY DEF IInv, TypeOK
    <2>4. pci' \in [Devices -> PciDev] BY <1>2, <2>3 DEF PciDev
    <2>5. xdev' \in [Devices -> XgpuDev] BY <1>2, <2>3 DEF XgpuDev
    <2>6. /\ pci'[e].enable_cnt = pci[e].enable_cnt /\ pci'[e].iomaps = pci[e].iomaps \ {i}
          /\ pci'[e].msi = pci[e].msi /\ pci'[e].irqs = pci[e].irqs
      BY <1>2, <2>3 DEF PciDev
    <2>7. /\ xdev'[e].live = xdev[e].live /\ xdev'[e].bar = xdev[e].bar \ {i}
          /\ xdev'[e].msi_enabled = xdev[e].msi_enabled
          /\ xdev'[e].msix_enabled = xdev[e].msix_enabled
          /\ xdev'[e].idx = xdev[e].idx
      BY <1>2, <2>3 DEF XgpuDev
    <2>8. DevInv(e) BY DEF IInv
    <2>9. LiveInv(e)' BY <2>2, <2>7, <2>8 DEF DevInv, LiveInv
    <2>10. EnableInv(e)' BY <2>2, <2>6, <2>8 DEF DevInv, EnableInv
    <2>11. MapInv(e)' BY <2>2, <2>6, <2>7, <2>8 DEF DevInv, MapInv, PreMapLocs
    <2>12. MsiInv(e)' BY <2>2, <2>6, <2>7, <2>8 DEF DevInv, MsiInv
    <2>13. IrqInv(e)' BY <2>1, <2>2, <2>6, <2>8 DEF DevInv, IrqInv, Registered, LoopInv
    <2>14. RunInv(e)' BY <2>1, <2>2, <2>6, <2>8 DEF DevInv, RunInv, WaitingFor
    <2>15. DevInv(e)' BY <2>9, <2>10, <2>11, <2>12, <2>13, <2>14 DEF DevInv
    <2> QED BY <2>1, <2>2, <2>4, <2>5, <2>7, <2>15, LocalStep DEF IInv, TypeOK
  <1> QED BY <1>1, <1>2 DEF unmap_bars

LEMMA ReleaseRegionsStep == ASSUME IInv, NEW e \in Devices, ReleaseRegions(e) PROVE IInv'
  <1>1. UNCHANGED pci
    BY DEF ReleaseRegions, got_regions, IInv, TypeOK, PciDev
  <1>2. /\ Goto(e, "err_map", "err_regions")
        /\ UNCHANGED <<xdev, user_i, xdev_list, interrupt_mode, running, panicked>>
    BY DEF ReleaseRegions
  <1> QED BY <1>1, <1>2, PlainMove DEF PlainMoves

LEMMA DisableDeviceStep == ASSUME IInv, NEW e \in Devices, DisableDevice(e) PROVE IInv'
  <1> USE DEF MappedLocs, HandlerLocs
  <1>1. UNCHANGED <<xdev, user_i, xdev_list, interrupt_mode, running, panicked>>
    BY DEF DisableDevice
  <1>2. /\ pc[e] = "err_regions" /\ pc'[e] = "err_enable" /\ pc' \in [Devices -> Locations]
        /\ \A d \in Devices \ {e} : pc'[d] = pc[d] /\ pci'[d] = pci[d]
    BY DEF DisableDevice, IInv, TypeOK, Goto, Locations, ExitLocs
  <1>3. pci \in [Devices -> PciDev] BY DEF IInv, TypeOK
  <1>4. DevInv(e) BY DEF IInv
  <1>5. pci[e].enable_cnt = 1 BY <1>2, <1>4 DEF DevInv, EnableInv, EnabledLocs
  <1>6. /\ pci'[e].enable_cnt = 0 /\ pci'[e].iomaps = pci[e].iomaps
        /\ pci'[e].msi = pci[e].msi /\ pci'[e].irqs = pci[e].irqs
    BY <1>3, <1>5 DEF DisableDevice, regions_in_use, PciDev
  <1>7. pci' \in [Devices -> PciDev] BY <1>3, <1>5 DEF DisableDevice, regions_in_use, PciDev
  <1>8. LiveInv(e)' BY <1>1, <1>2, <1>4 DEF DevInv, LiveInv, LiveLocs, ListedLocs, EnabledLocs
  <1>9. EnableInv(e)' BY <1>2, <1>6 DEF EnableInv, EnabledLocs
  <1>10. MapInv(e)' BY <1>1, <1>2, <1>4, <1>6 DEF DevInv, MapInv, PreMapLocs
  <1>11. MsiInv(e)'
    BY <1>1, <1>2, <1>4, <1>6 DEF DevInv, MsiInv, PreMsiLocs, PreMapLocs, MsiLocs, VectorLocs
  <1>12. IrqInv(e)' BY <1>1, <1>2, <1>4, <1>6 DEF DevInv, IrqInv, Registered, LoopInv
  <1>13. RunInv(e)' BY <1>1, <1>2, <1>4, <1>6 DEF DevInv, RunInv, WaitingFor
  <1>14. pc'[e] \in ListedLocs /\ pc[e] \in ListedLocs BY <1>2 DEF ListedLocs, EnabledLocs
  <1>15. DevInv(e)' BY <1>8, <1>9, <1>10, <1>11, <1>12, <1>13 DEF DevInv
  <1> QED BY <1>1, <1>2, <1>7, <1>14, <1>15, LocalStep DEF IInv, TypeOK

LEMMA FreeXdevStep == ASSUME IInv, NEW e \in Devices, FreeXdev(e) PROVE IInv'
  <1> USE DEF MappedLocs, HandlerLocs
  <1>1. UNCHANGED <<pci, user_i, xdev_list, interrupt_mode, running, panicked>>
    BY DEF FreeXdev
  <1>2. /\ pc[e] = "free_xdev" /\ pc'[e] = "idle" /\ pc' \in [Devices -> Locations]
        /\ \A d \in Devices \ {e} : pc'[d] = pc[d] /\ xdev'[d] = xdev[d]
    BY DEF FreeXdev, IInv, TypeOK, Goto, Locations
  <1>3. xdev \in [Devices -> XgpuDev] BY DEF IInv, TypeOK
  <1>4. /\ xdev'[e].live = FALSE
        /\ xdev'[e].msi_enabled = xdev[e].msi_enabled
        /\ xdev'[e].msix_enabled = xdev[e].msix_enabled
        /\ xdev' \in [Devices -> XgpuDev]
    BY <1>3 DEF FreeXdev, XgpuDev
  <1>5. DevInv(e) BY DEF IInv
  <1>6. LiveInv(e)' BY <1>2, <1>4 DEF LiveInv, LiveLocs, ListedLocs, EnabledLocs
  <1>7. EnableInv(e)' BY <1>1, <1>2, <1>5 DEF DevInv, EnableInv, EnabledLocs
  <1>8. MapInv(e)' BY <1>1, <1>2, <1>5 DEF DevInv, MapInv, PreMapLocs
  <1>9. MsiInv(e)'
    BY <1>1, <1>2, <1>4, <1>5 DEF DevInv, MsiInv, PreMsiLocs, PreMapLocs, MsiLocs, VectorLocs
  <1>10. IrqInv(e)' BY <1>1, <1>2, <1>5 DEF DevInv, IrqInv, Registered, LoopInv
  <1>11. RunInv(e)' BY <1>1, <1>2, <1>5 DEF DevInv, RunInv, WaitingFor
  <1>12. pc'[e] \notin ListedLocs /\ pc[e] \notin ListedLocs BY <1>2 DEF ListedLocs, EnabledLocs
  <1>13. DevInv(e)' BY <1>6, <1>7, <1>8, <1>9, <1>10, <1>11 DEF DevInv
  <1> QED BY <1>1, <1>2, <1>4, <1>12, <1>13, LocalStep DEF IInv, TypeOK

(***************************************************************************)
(* The two steps that change the list.                                     *)
(***************************************************************************)

(* What is true of the indices when a device is put behind the last one.   *)
LEMMA NextIdxIsNew ==
  ASSUME IInv
  PROVE  /\ NextIdx \in Nat
         /\ \A k \in 1..Len(xdev_list) : xdev[xdev_list[k]].idx < NextIdx
  <1>1. xdev_list \in Seq(Devices) /\ xdev \in [Devices -> XgpuDev] BY DEF IInv, TypeOK
  <1>2. CASE xdev_list = <<>> BY <1>2 DEF NextIdx
  <1>3. CASE xdev_list # <<>>
    <2>1. /\ Len(xdev_list) \in Nat /\ Len(xdev_list) > 0
          /\ Last(xdev_list) = xdev_list[Len(xdev_list)]
      BY <1>1, <1>3 DEF Last
    <2>2. \A k \in 1..Len(xdev_list) : xdev_list[k] \in Devices /\ xdev[xdev_list[k]].idx \in Nat
      BY <1>1 DEF XgpuDev
    <2>3. NextIdx = xdev[xdev_list[Len(xdev_list)]].idx + 1 BY <1>3, <2>1 DEF NextIdx
    <2>4. xdev[xdev_list[Len(xdev_list)]].idx \in Nat BY <2>1, <2>2
    <2>5. ASSUME NEW k \in 1..Len(xdev_list) PROVE xdev[xdev_list[k]].idx < NextIdx
      <3>1. CASE k = Len(xdev_list) BY <2>3, <2>4, <3>1
      <3>2. CASE k < Len(xdev_list)
        <4>1. xdev[xdev_list[k]].idx < xdev[xdev_list[Len(xdev_list)]].idx
          BY <2>1, <3>2 DEF IInv, ListInv, ListInOrder
        <4> QED BY <2>2, <2>3, <2>4, <4>1
      <3> QED BY <2>1, <3>1, <3>2
    <2> QED BY <2>3, <2>4, <2>5
  <1> QED BY <1>2, <1>3

LEMMA ListAddStep == ASSUME IInv, NEW e \in Devices, xdev_list_add(e) PROVE IInv'
  <1> USE DEF MappedLocs, HandlerLocs
  <1>1. UNCHANGED <<user_i, pci, interrupt_mode, running, panicked>> BY DEF xdev_list_add
  <1>2. /\ pc[e] = "list_add" /\ pc'[e] = "enable" /\ pc' \in [Devices -> Locations]
        /\ \A d \in Devices \ {e} : pc'[d] = pc[d] /\ xdev'[d] = xdev[d]
    BY DEF xdev_list_add, IInv, TypeOK, Goto, Locations, OpenLocs
  <1>3. /\ xdev \in [Devices -> XgpuDev] /\ xdev_list \in Seq(Devices)
        /\ Len(xdev_list) \in Nat
    BY DEF IInv, TypeOK
  <1>4. /\ xdev'[e].live = xdev[e].live /\ xdev'[e].bar = xdev[e].bar
        /\ xdev'[e].msi_enabled = xdev[e].msi_enabled
        /\ xdev'[e].msix_enabled = xdev[e].msix_enabled
        /\ xdev'[e].idx = NextIdx
        /\ xdev' \in [Devices -> XgpuDev]
    <2>1. NextIdx \in Nat BY NextIdxIsNew
    <2>2. xdev' = [xdev EXCEPT ![e].idx = NextIdx] BY DEF xdev_list_add
    <2> QED BY <1>3, <2>1, <2>2 DEF XgpuDev
  <1>5. /\ xdev_list' \in Seq(Devices)
        /\ Len(xdev_list') = Len(xdev_list) + 1
        /\ \A k \in 1..Len(xdev_list) : xdev_list'[k] = xdev_list[k]
        /\ xdev_list'[Len(xdev_list) + 1] = e
    BY <1>3 DEF xdev_list_add
  <1>6. TypeOK' BY <1>1, <1>2, <1>4, <1>5 DEF IInv, TypeOK
  <1>7. \A d \in Devices : (d \in Listed <=> pc[d] \in ListedLocs)'
    <2>1. ASSUME NEW d PROVE (d \in Listed)' <=> d \in Listed \/ d = e
      BY <1>3, <1>5 DEF Listed, ToSet
    <2>2. pc'[e] \in ListedLocs BY <1>2 DEF ListedLocs
    <2> QED BY <1>2, <2>1, <2>2 DEF IInv, ListInv
  <1>8. ListInOrder'
    <2>1. \A k \in 1..Len(xdev_list) : xdev_list[k] \in Devices \ {e}
      <3>1. e \notin Listed BY <1>2 DEF IInv, ListInv, ListedLocs, EnabledLocs
      <3> QED BY <1>3, <3>1 DEF Listed, ToSet
    <2>2. \A k \in 1..Len(xdev_list) : xdev'[xdev_list'[k]].idx = xdev[xdev_list[k]].idx
      BY <1>2, <1>5, <2>1
    <2>3. \A k \in 1..Len(xdev_list) : xdev'[xdev_list'[k]].idx < xdev'[xdev_list'[Len(xdev_list')]].idx
      BY <1>3, <1>4, <1>5, <2>2, NextIdxIsNew
    <2>4. ASSUME NEW j \in 1..Len(xdev_list'), NEW k \in 1..Len(xdev_list'), j < k
          PROVE  xdev'[xdev_list'[j]].idx < xdev'[xdev_list'[k]].idx
      <3>1. CASE k = Len(xdev_list') BY <1>3, <1>5, <2>3, <2>4, <3>1
      <3>2. CASE k # Len(xdev_list')
        <4>1. j \in 1..Len(xdev_list) /\ k \in 1..Len(xdev_list)
          BY <1>3, <1>5, <2>4, <3>2
        <4>2. xdev[xdev_list[j]].idx < xdev[xdev_list[k]].idx
          BY <2>4, <4>1 DEF IInv, ListInv, ListInOrder
        <4> QED BY <2>2, <4>1, <4>2
      <3> QED BY <3>1, <3>2
    <2> QED BY <2>4 DEF ListInOrder
  <1>9. DevInv(e) BY DEF IInv
  <1>10. LiveInv(e)' BY <1>2, <1>4, <1>9 DEF DevInv, LiveInv, LiveLocs, ListedLocs
  <1>11. EnableInv(e)' BY <1>1, <1>2, <1>9 DEF DevInv, EnableInv, EnabledLocs
  <1>12. MapInv(e)' BY <1>1, <1>2, <1>4, <1>9 DEF DevInv, MapInv, PreMapLocs
  <1>13. MsiInv(e)'
    BY <1>1, <1>2, <1>4, <1>9 DEF DevInv, MsiInv, PreMsiLocs, PreMapLocs, MsiLocs, VectorLocs
  <1>14. IrqInv(e)' BY <1>1, <1>2, <1>9 DEF DevInv, IrqInv, Registered, LoopInv
  <1>15. RunInv(e)' BY <1>1, <1>2, <1>9 DEF DevInv, RunInv, WaitingFor
  <1>16. ASSUME NEW d \in Devices PROVE DevInv(d)'
    <2>1. CASE d = e BY <1>10, <1>11, <1>12, <1>13, <1>14, <1>15, <2>1 DEF DevInv
    <2>2. CASE d # e BY <1>1, <1>2, <2>2, Frame DEF IInv
    <2> QED BY <2>1, <2>2
  <1> QED BY <1>6, <1>7, <1>8, <1>16 DEF IInv, ListInv

LEMMA RemoveAtProperties ==
  ASSUME NEW S, NEW s \in Seq(S), NEW k \in 1..Len(s)
  PROVE  /\ RemoveAt(s, k) \in Seq(S)
         /\ Len(RemoveAt(s, k)) = Len(s) - 1
         /\ \A j \in 1..(Len(s) - 1) : RemoveAt(s, k)[j] = IF j < k THEN s[j] ELSE s[j + 1]
  <1>1. Len(s) \in Nat /\ k \in Nat OBVIOUS
  <1>2. /\ SubSeq(s, 1, k - 1) \in Seq(S) /\ Len(SubSeq(s, 1, k - 1)) = k - 1
        /\ \A j \in 1..(k - 1) : SubSeq(s, 1, k - 1)[j] = s[j]
    OBVIOUS
  <1>3. /\ SubSeq(s, k + 1, Len(s)) \in Seq(S)
        /\ Len(SubSeq(s, k + 1, Len(s))) = Len(s) - k
        /\ \A j \in 1..(Len(s) - k) : SubSeq(s, k + 1, Len(s))[j] = s[k + j]
    OBVIOUS
  <1> DEFINE a == SubSeq(s, 1, k - 1)
             b == SubSeq(s, k + 1, Len(s))
  <1>4. RemoveAt(s, k) = a \o b BY DEF RemoveAt
  <1> HIDE DEF a, b
  <1>5. /\ a \o b \in Seq(S) /\ Len(a \o b) = Len(a) + Len(b)
        /\ \A j \in 1..(Len(a) + Len(b)) : (a \o b)[j] = IF j =< Len(a) THEN a[j] ELSE b[j - Len(a)]
    <2>1. a \in Seq(S) /\ b \in Seq(S) BY <1>2, <1>3 DEF a, b
    <2> QED BY <2>1
  <1>6. Len(a) = k - 1 /\ Len(b) = Len(s) - k BY <1>2, <1>3 DEF a, b
  <1>7. \A j \in 1..(Len(s) - 1) : RemoveAt(s, k)[j] = IF j < k THEN s[j] ELSE s[j + 1]
    <2>1. ASSUME NEW j \in 1..(Len(s) - 1), j < k PROVE (a \o b)[j] = s[j]
      BY <1>1, <1>2, <1>5, <1>6, <2>1 DEF a
    <2>2. ASSUME NEW j \in 1..(Len(s) - 1), ~(j < k) PROVE (a \o b)[j] = s[j + 1]
      <3>1. (a \o b)[j] = b[j - (k - 1)] BY <1>1, <1>5, <1>6, <2>2
      <3>2. b[j - (k - 1)] = s[k + (j - (k - 1))] BY <1>1, <1>3, <2>2 DEF b
      <3> QED BY <1>1, <3>1, <3>2
    <2> QED BY <1>4, <2>1, <2>2
  <1> QED BY <1>1, <1>4, <1>5, <1>6, <1>7

LEMMA ListRemoveStep == ASSUME IInv, NEW e \in Devices, xdev_list_remove(e) PROVE IInv'
  <1> USE DEF MappedLocs, HandlerLocs
  <1>1. UNCHANGED <<xdev, user_i, pci, interrupt_mode, running, panicked>>
    BY DEF xdev_list_remove
  <1>2. /\ pc[e] = "err_enable" /\ pc'[e] = "free_xdev" /\ pc' \in [Devices -> Locations]
        /\ \A d \in Devices \ {e} : pc'[d] = pc[d]
    BY DEF xdev_list_remove, IInv, TypeOK, Goto, Locations, ExitLocs
  <1>3. xdev \in [Devices -> XgpuDev] /\ xdev_list \in Seq(Devices) /\ Len(xdev_list) \in Nat
    BY DEF IInv, TypeOK
  <1> PICK k \in 1..Len(xdev_list) : xdev_list[k] = e /\ xdev_list' = RemoveAt(xdev_list, k)
    BY DEF xdev_list_remove
  <1> DEFINE Old(j) == IF j < k THEN j ELSE j + 1
  <1>4. /\ xdev_list' \in Seq(Devices)
        /\ Len(xdev_list') = Len(xdev_list) - 1
        /\ \A j \in 1..Len(xdev_list') : xdev_list'[j] = xdev_list[Old(j)]
    BY <1>3, RemoveAtProperties
  <1>5. /\ \A j \in 1..Len(xdev_list') : Old(j) \in (1..Len(xdev_list)) \ {k}
        /\ \A i, j \in 1..Len(xdev_list') : i < j => Old(i) < Old(j)
        /\ \A i \in (1..Len(xdev_list)) \ {k} : \E j \in 1..Len(xdev_list') : i = Old(j)
    <2>1. \A i \in (1..Len(xdev_list)) \ {k} : \E j \in 1..Len(xdev_list') : i = Old(j)
      <3> TAKE i \in (1..Len(xdev_list)) \ {k}
      <3>1. CASE i < k
        <4>1. i \in 1..Len(xdev_list') /\ Old(i) = i BY <1>3, <1>4, <3>1
        <4> QED BY <4>1
      <3>2. CASE i > k
        <4>1. i - 1 \in 1..Len(xdev_list') /\ Old(i - 1) = i BY <1>3, <1>4, <3>2
        <4> QED BY <4>1
      <3> QED BY <3>1, <3>2
    <2> QED BY <1>3, <1>4, <2>1
  <1>6. TypeOK' BY <1>1, <1>2, <1>4 DEF IInv, TypeOK
  <1> HIDE DEF Old
  <1>7. ListInOrder'
    <2> SUFFICES ASSUME NEW i \in 1..Len(xdev_list'), NEW j \in 1..Len(xdev_list'), i < j
                 PROVE  xdev'[xdev_list'[i]].idx < xdev'[xdev_list'[j]].idx
      BY DEF ListInOrder
    <2>1. /\ Old(i) \in 1..Len(xdev_list) /\ Old(j) \in 1..Len(xdev_list) /\ Old(i) < Old(j)
      BY <1>5
    <2>2. xdev[xdev_list[Old(i)]].idx < xdev[xdev_list[Old(j)]].idx
      BY <2>1 DEF IInv, ListInv, ListInOrder
    <2> QED BY <1>1, <1>4, <2>2
  <1>8. \A i \in (1..Len(xdev_list)) \ {k} : xdev_list[i] # e
    <2> TAKE i \in (1..Len(xdev_list)) \ {k}
    <2>1. i < k \/ k < i BY <1>3
    <2>2. xdev[xdev_list[i]].idx # xdev[xdev_list[k]].idx
      <3>1. xdev_list[i] \in Devices /\ xdev_list[k] \in Devices BY <1>3
      <3>2. xdev[xdev_list[i]].idx \in Nat /\ xdev[xdev_list[k]].idx \in Nat
        BY <1>3, <3>1 DEF XgpuDev
      <3>3. \/ xdev[xdev_list[i]].idx < xdev[xdev_list[k]].idx
            \/ xdev[xdev_list[k]].idx < xdev[xdev_list[i]].idx
        BY <2>1 DEF IInv, ListInv, ListInOrder
      <3> QED BY <3>2, <3>3
    <2> QED BY <2>2
  <1>9. \A d : (d \in Listed)' <=> d \in Listed /\ d # e
    <2> TAKE d
    <2>1. ASSUME d \in Listed, d # e PROVE (d \in Listed)'
      <3>1. PICK i \in 1..Len(xdev_list) : xdev_list[i] = d BY <1>3, <2>1 DEF Listed, ToSet
      <3>2. i # k BY <2>1, <3>1
      <3>3. PICK j \in 1..Len(xdev_list') : i = Old(j) BY <1>5, <3>2
      <3>4. xdev_list'[j] = d BY <1>4, <3>1, <3>3
      <3> QED BY <1>4, <3>4 DEF Listed, ToSet
    <2>2. ASSUME (d \in Listed)' PROVE d \in Listed /\ d # e
      <3>1. PICK j \in 1..Len(xdev_list') : xdev_list'[j] = d BY <1>4, <2>2 DEF Listed, ToSet
      <3>2. Old(j) \in (1..Len(xdev_list)) \ {k} /\ xdev_list[Old(j)] = d BY <1>4, <1>5, <3>1
      <3> QED BY <1>3, <1>8, <3>2 DEF Listed, ToSet
    <2> QED BY <2>1, <2>2
  <1>10. \A d \in Devices : (d \in Listed <=> pc[d] \in ListedLocs)'
    <2>1. pc'[e] \notin ListedLocs BY <1>2 DEF ListedLocs, EnabledLocs
    <2> QED BY <1>2, <1>9, <2>1 DEF IInv, ListInv
  <1>11. DevInv(e) BY DEF IInv
  <1>12. LiveInv(e)' BY <1>1, <1>2, <1>11 DEF DevInv, LiveInv, LiveLocs, ListedLocs
  <1>13. EnableInv(e)' BY <1>1, <1>2, <1>11 DEF DevInv, EnableInv, EnabledLocs
  <1>14. MapInv(e)' BY <1>1, <1>2, <1>11 DEF DevInv, MapInv, PreMapLocs
  <1>15. MsiInv(e)'
    BY <1>1, <1>2, <1>11 DEF DevInv, MsiInv, PreMsiLocs, PreMapLocs, MsiLocs, VectorLocs
  <1>16. IrqInv(e)' BY <1>1, <1>2, <1>11 DEF DevInv, IrqInv, Registered, LoopInv
  <1>17. RunInv(e)' BY <1>1, <1>2, <1>11 DEF DevInv, RunInv, WaitingFor
  <1>18. ASSUME NEW d \in Devices PROVE DevInv(d)'
    <2>1. CASE d = e BY <1>12, <1>13, <1>14, <1>15, <1>16, <1>17, <2>1 DEF DevInv
    <2>2. CASE d # e BY <1>1, <1>2, <2>2, Frame DEF IInv
    <2> QED BY <2>1, <2>2
  <1> QED BY <1>6, <1>7, <1>10, <1>18 DEF IInv, ListInv

(***************************************************************************)
(* Steps outside the threads.                                              *)
(***************************************************************************)

LEMMA InterruptStep ==
  ASSUME IInv, NEW e \in Devices, NEW l \in Lines, Interrupt(e, l) PROVE IInv'
  <1>1. UNCHANGED <<pc, xdev, user_i, xdev_list, interrupt_mode, pci>>
    BY DEF Interrupt, InterruptStarts, xgpu_isr, user_irq_service
  <1>2. TypeOK'
    <2>1. running \subseteq Devices \X Lines /\ panicked \in BOOLEAN BY DEF IInv, TypeOK
    <2>2. running' \subseteq running \cup {<<e, l>>} /\ panicked' \in BOOLEAN
      BY <2>1 DEF Interrupt, InterruptStarts, xgpu_isr, user_irq_service
    <2>3. <<e, l>> \in Devices \X Lines OBVIOUS
    <2>4. running' \subseteq Devices \X Lines BY <2>1, <2>2, <2>3
    <2> QED BY <1>1, <2>2, <2>4 DEF IInv, TypeOK
  <1>3. ListInv'
    BY <1>1, ListFrame DEF IInv, TypeOK
  <1>4. ASSUME NEW d \in Devices PROVE DevInv(d)'
    <2>1. DevInv(d) BY DEF IInv
    <2>2. LiveInv(d)' /\ EnableInv(d)' BY <1>1, <2>1 DEF DevInv, LiveInv, EnableInv
    <2>3. MapInv(d)' BY <1>1, <2>1 DEF DevInv, MapInv
    <2>4. MsiInv(d)' BY <1>1, <2>1 DEF DevInv, MsiInv
    <2>5. IrqInv(d)' BY <1>1, <2>1 DEF DevInv, IrqInv, Registered, HandlersOf, LoopInv, LineOf
    <2>6. \A m \in Lines : <<d, m>> \in running' => <<d, m>> \in running \/ m \in pci[d].irqs
      BY DEF Interrupt, InterruptStarts, xgpu_isr, user_irq_service
    <2>7. RunInv(d)' BY <1>1, <2>1, <2>6 DEF DevInv, RunInv, WaitingFor
    <2> QED BY <2>2, <2>3, <2>4, <2>5, <2>7 DEF DevInv
  <1> QED BY <1>2, <1>3, <1>4 DEF IInv

LEMMA QuietStep ==
  ASSUME IInv, UNCHANGED <<pc, xdev, user_i, xdev_list, pci, running, panicked>>,
         interrupt_mode' \in Modes
  PROVE  IInv'
  <1>1. TypeOK' BY DEF IInv, TypeOK
  <1>2. ListInv' BY ListFrame DEF IInv, TypeOK
  <1>3. \A d \in Devices : DevInv(d)' BY Frame DEF IInv
  <1> QED BY <1>1, <1>2, <1>3 DEF IInv

(***************************************************************************)
(* The invariant.                                                          *)
(***************************************************************************)

LEMMA InitIInv == Init => IInv
  <1> SUFFICES ASSUME Init PROVE IInv OBVIOUS
  <1> USE DEF Init
  <1>1. NoXdev \in XgpuDev
    BY DEF NoXdev, XgpuDev
  <1>2. [enable_cnt |-> 0, regions |-> {}, iomaps |-> {}, msi |-> "intx", irqs |-> {}] \in PciDev
    BY DEF PciDev
  <1>3. TypeOK
    <2>1. pc \in [Devices -> Locations] BY DEF Locations
    <2>2. xdev \in [Devices -> XgpuDev] BY <1>1
    <2>3. user_i \in [Devices -> -1..UserMax] BY UserMaxAssumption
    <2>4. xdev_list \in Seq(Devices) OBVIOUS
    <2>5. interrupt_mode \in Modes BY ModesAssumption
    <2>6. pci \in [Devices -> PciDev] BY <1>2
    <2> QED BY <2>1, <2>2, <2>3, <2>4, <2>5, <2>6 DEF TypeOK
  <1>4. ListInv
    BY DEF ListInv, Listed, ToSet, ListInOrder, ListedLocs, EnabledLocs, MappedLocs, HandlerLocs
  <1>5. ASSUME NEW d \in Devices PROVE DevInv(d)
    <2> USE DEF MappedLocs, HandlerLocs
    <2>1. /\ pc[d] = "idle" /\ xdev[d].live = FALSE /\ xdev[d].msi_enabled = FALSE
          /\ xdev[d].msix_enabled = FALSE /\ pci[d].enable_cnt = 0 /\ pci[d].iomaps = {}
          /\ pci[d].msi = "intx" /\ pci[d].irqs = {} /\ running = {}
      BY DEF NoXdev
    <2>2. LiveInv(d) /\ EnableInv(d) BY <2>1 DEF LiveInv, EnableInv, LiveLocs, ListedLocs, EnabledLocs
    <2>3. MapInv(d) BY <2>1 DEF MapInv, PreMapLocs
    <2>4. MsiInv(d) BY <2>1 DEF MsiInv, PreMsiLocs, PreMapLocs, MsiLocs, VectorLocs
    <2>5. IrqInv(d) BY <2>1 DEF IrqInv, Registered, LoopInv
    <2>6. RunInv(d) BY <2>1 DEF RunInv
    <2> QED BY <2>2, <2>3, <2>4, <2>5, <2>6 DEF DevInv
  <1> QED BY <1>3, <1>4, <1>5 DEF IInv

LEMMA OpenIInv == ASSUME IInv, NEW e \in Devices, OpenStep(e) PROVE IInv'
  <1>1. CASE request_regions(e) BY <1>1, RequestRegionStep DEF request_regions
  <1>2. CASE \/ AllocDev(e) \/ xdev_list_add(e) \/ EnableDevice(e)
             \/ MapBar(e) \/ BarsMapped(e) \/ set_dma_mask(e) \/ Quiesce(e)
    BY <1>2, AllocDevStep, ListAddStep, EnableDeviceStep, MapBarStep, BarsMappedStep,
       SetDmaMaskStep, QuiesceStep
  <1>3. CASE \/ EnableMsix(e) \/ NoMsix(e) \/ EnableMsi(e) \/ NoMsi(e)
             \/ MsixSetup(e) \/ irq_msi_setup(e) \/ irq_legacy_setup(e)
    BY <1>3, EnableMsixStep, NoMsixStep, EnableMsiStep, NoMsiStep, MsixSetupStep, MsiSetupStep,
       LegacySetupStep
  <1>4. CASE \/ RequestVector(e) \/ VectorsRequested(e) \/ UndoVector(e) \/ VectorsUndone(e)
             \/ FinishOpen(e)
    BY <1>4, RequestVectorStep, VectorsRequestedStep, UndoVectorStep, VectorsUndoneStep,
       FinishOpenStep
  <1> QED BY <1>1, <1>2, <1>3, <1>4 DEF OpenStep

LEMMA CloseIInv == ASSUME IInv, NEW e \in Devices, CloseStep(e) PROVE IInv'
  BY TeardownStep, UserTeardownStep DEF CloseStep

LEMMA ExitIInv == ASSUME IInv, NEW e \in Devices, ExitStep(e) PROVE IInv'
  BY DisableMsiStep, UnmapStep, ReleaseRegionsStep, DisableDeviceStep, ListRemoveStep, FreeXdevStep
     DEF ExitStep

LEMMA NextIInv == IInv /\ [Next]_vars => IInv'
  <1> SUFFICES ASSUME IInv, [Next]_vars PROVE IInv' OBVIOUS
  <1>1. ASSUME NEW e \in Devices, CallOpen(e) \/ CallClose(e) PROVE IInv'
    BY <1>1, CallOpenStep, CallCloseStep
  <1>2. ASSUME NEW e \in Devices, ThreadStep(e) PROVE IInv'
    BY <1>2, OpenIInv, CloseIInv, ExitIInv DEF ThreadStep
  <1>3. ASSUME NEW e \in Devices, NEW flag \in BOOLEAN, SetOffline(e, flag) PROVE IInv'
    BY <1>3, SetOfflineStep
  <1>4. ASSUME NEW e \in Devices, NEW l \in Lines, Interrupt(e, l) PROVE IInv'
    BY <1>4, InterruptStep
  <1>5. ASSUME NEW m \in Modes, SetInterruptMode(m) PROVE IInv'
    BY <1>5, QuietStep DEF SetInterruptMode
  <1>6. CASE UNCHANGED vars
    BY <1>6, QuietStep DEF vars, IInv, TypeOK
  <1> QED BY <1>1, <1>2, <1>3, <1>4, <1>5, <1>6 DEF Next

(* The inductive invariant holds in every state of the library.            *)
THEOREM InductiveInvariant == Spec => []IInv
  <1>1. Init => IInv BY InitIInv
  <1>2. IInv /\ [Next]_vars => IInv' BY NextIInv
  <1> QED BY <1>1, <1>2, PTL DEF Spec

(***************************************************************************)
(* What follows from it.                                                   *)
(***************************************************************************)

(* Type correctness: in particular no path of an open or a close disables  *)
(* a device once too often, or lets a loop over the vectors run out of     *)
(* its range.                                                              *)
THEOREM TypeCorrect == Spec => []TypeOK
  <1>1. IInv => TypeOK BY DEF IInv
  <1> QED BY <1>1, InductiveInvariant, PTL

(* No interrupt handler runs on an xgpu_dev that is freed, or on BARs that *)
(* are not mapped, of a device that is disabled.                           *)
THEOREM HandlersAreSafe == Spec => []HandlersSafe
  <1>1. IInv => HandlersSafe
    <2> SUFFICES ASSUME IInv, NEW d \in Devices, NEW l \in Lines, <<d, l>> \in running
                 PROVE  /\ xdev[d].live
                        /\ pci[d].enable_cnt > 0
                        /\ xdev[d].bar = BarPresent[d] /\ pci[d].iomaps = BarPresent[d]
      BY DEF HandlersSafe
    <2>1. DevInv(d) BY DEF IInv
    <2>2. l \in pci[d].irqs \cup WaitingFor(d) BY <2>1 DEF DevInv, RunInv
    <2>3. pc[d] \in HandlerLocs
      BY <2>1, <2>2 DEF DevInv, IrqInv, Registered, WaitingFor, HandlerLocs
    <2> QED
      BY <2>1, <2>3 DEF DevInv, LiveInv, EnableInv, MapInv, LiveLocs, ListedLocs, EnabledLocs,
                        MappedLocs
  <1> QED BY <1>1, InductiveInvariant, PTL

(* The list is in the order of the indices: no two devices on it have the  *)
(* same.                                                                   *)
THEOREM ListStaysInOrder == Spec => []ListInOrder
  <1>1. IInv => ListInOrder BY DEF IInv, ListInv
  <1> QED BY <1>1, InductiveInvariant, PTL

-----------------------------------------------------------------------------
(***************************************************************************)
(* What the inductive invariant gives the library's callers: what is       *)
(* running, registered and mapped, and where.                              *)
(***************************************************************************)

(* A handler runs only at a location where some line may have one.         *)
LEMMA RunsAtHandlerLocs ==
  ASSUME IInv, NEW d \in Devices, NEW l \in Lines,
         l \in pci[d].irqs \/ <<d, l>> \in running
  PROVE  pc[d] \in HandlerLocs /\ l \in Registered(d) \cup WaitingFor(d)
  <1>1. DevInv(d) BY DEF IInv
  <1>2. l \in Registered(d) \cup WaitingFor(d)
    BY <1>1 DEF DevInv, RunInv, IrqInv
  <1> QED BY <1>2 DEF Registered, WaitingFor, HandlerLocs

(* The vectors of a set are message interrupts of the kind "msix".         *)
LEMMA VectorKind ==
  ASSUME NEW m \in Int, NEW n \in Int, NEW l \in Vectors(m, n)
  PROVE  l[1] = "msix"
  BY DEF Vectors, Vector

(* Registered and running handlers of message interrupts have the kernel's *)
(* vectors behind them, at every step of every open and close.             *)
THEOREM MessageVectorsBacked == Spec => []VectorsBacked
  <1>1. IInv => VectorsBacked
    <2> SUFFICES ASSUME IInv, NEW d \in Devices, NEW l \in Lines,
                        l \in pci[d].irqs \/ <<d, l>> \in running
                 PROVE  pci[d].msi = l[1] \/ l = Intx
      BY DEF VectorsBacked
    <2>1. DevInv(d) BY DEF IInv
    <2>2. pc[d] \in HandlerLocs /\ l \in Registered(d) \cup WaitingFor(d)
      BY RunsAtHandlerLocs
    <2>3. user_i[d] \in -1..UserMax BY DEF IInv, TypeOK
    <2>4. UserMax \in Int BY UserMaxAssumption
    <2>5. /\ xdev[d].msix_enabled => pci[d].msi = "msix"
          /\ xdev[d].msi_enabled => pci[d].msi = "msi"
      BY <2>1, <2>2 DEF DevInv, MsiInv, MsiLocs
    <2>6. CASE xdev[d].msix_enabled
      <3>1. pc[d] # "sync_irq" BY <2>1, <2>6 DEF DevInv, MsiInv
      <3>2. \E m, n \in Int : l \in Vectors(m, n)
        <4>1. CASE pc[d] \in {"request_vec", "undo_vec", "free_vec"}
          BY <4>1, <2>2, <2>3, <2>4 DEF Registered, WaitingFor
        <4>2. CASE pc[d] \in {"undo_sync", "sync_vec"} /\ l \in Registered(d)
          <5>1. CASE pc[d] = "undo_sync"
            <6>1. l \in Vectors(0, user_i[d] - 1) BY <4>2, <5>1 DEF Registered
            <6> QED BY <6>1, <2>3
          <5>2. CASE pc[d] = "sync_vec"
            <6>1. l \in Vectors(user_i[d] + 1, UserMax - 1) BY <4>2, <5>2 DEF Registered
            <6> QED BY <6>1, <2>3, <2>4
          <5> QED BY <4>2, <5>1, <5>2
        <4>3. CASE pc[d] \in {"undo_sync", "sync_vec"} /\ l \notin Registered(d)
          <5>1. l = Vector(user_i[d]) BY <4>3, <2>2 DEF WaitingFor
          <5>2. l \in Vectors(user_i[d], user_i[d]) BY <5>1, <2>3 DEF Vectors
          <5> QED BY <5>2, <2>3
        <4>4. CASE pc[d] \in {"flush", "open", "teardown"}
          BY <4>4, <2>2, <2>4, <2>6 DEF Registered, WaitingFor, HandlersOf
        <4> QED BY <4>1, <4>2, <4>3, <4>4, <3>1, <2>2 DEF HandlerLocs
      <3> QED BY <3>2, <2>5, <2>6, VectorKind
    <2>7. CASE ~xdev[d].msix_enabled
      <3>1. pc[d] \in {"flush", "open", "teardown", "sync_irq"}
        BY <2>1, <2>2, <2>7 DEF DevInv, MsiInv, HandlerLocs, VectorLocs
      <3>2. l = LineOf(d)
        <4>1. CASE pc[d] = "sync_irq"
          BY <4>1, <2>1, <2>2, <2>7 DEF DevInv, IrqInv, Registered, WaitingFor
        <4>2. CASE pc[d] \in {"flush", "open", "teardown"}
          BY <4>2, <2>2, <2>7 DEF Registered, WaitingFor, HandlersOf, LineOf
        <4> QED BY <4>1, <4>2, <3>1
      <3> QED BY <3>2, <2>5 DEF LineOf, MsiLine
    <2> QED BY <2>6, <2>7
  <1> QED BY <1>1, InductiveInvariant, PTL

(* free_irq is only called for a line of this device with a handler.       *)
THEOREM OwnIrqsFreed == Spec => []FreesOwnIrq
  <1>1. IInv => FreesOwnIrq
    <2> SUFFICES ASSUME IInv, NEW d \in Devices
                 PROVE  /\ pc[d] = "teardown" /\ ~xdev[d].msix_enabled =>
                             xdev[d].irq_line \in pci[d].irqs
                        /\ \/ pc[d] = "free_vec" /\ user_i[d] < UserMax
                           \/ pc[d] = "undo_vec" /\ user_i[d] >= 0
                           => Vector(user_i[d]) \in pci[d].irqs
      BY DEF FreesOwnIrq
    <2>1. IrqInv(d) BY DEF IInv, DevInv
    <2>2. user_i[d] \in -1..UserMax BY DEF IInv, TypeOK
    <2>3. UserMax \in Int BY UserMaxAssumption
    <2>4. CASE pc[d] = "teardown" /\ ~xdev[d].msix_enabled
      BY <2>4, <2>1 DEF IrqInv, Registered, HandlersOf, LineOf
    <2>5. CASE pc[d] = "free_vec" /\ user_i[d] < UserMax
      <3>1. Vector(user_i[d]) \in Vectors(user_i[d], UserMax - 1)
        BY <2>5, <2>2, <2>3 DEF Vectors
      <3> QED BY <2>5, <3>1, <2>1 DEF IrqInv, Registered
    <2>6. CASE pc[d] = "undo_vec" /\ user_i[d] >= 0
      <3>1. Vector(user_i[d]) \in Vectors(0, user_i[d]) BY <2>6, <2>2, <2>3 DEF Vectors
      <3> QED BY <2>6, <3>1, <2>1 DEF IrqInv, Registered
    <2> QED BY <2>4, <2>5, <2>6
  <1> QED BY <1>1, InductiveInvariant, PTL

(* A closed device holds nothing, however its last open or close ended.    *)
LEMMA IdleIsClosed == IInv => ClosedHoldsNothing
  <1> SUFFICES ASSUME IInv, NEW d \in Devices, pc[d] = "idle"
               PROVE  HoldsNothing(d)
    BY DEF ClosedHoldsNothing
  <1>1. DevInv(d) BY DEF IInv
  <1>2. pci[d].enable_cnt = 0 /\ pci[d].iomaps = {} /\ ~xdev[d].live
    BY <1>1 DEF DevInv, EnableInv, MapInv, LiveInv, EnabledLocs, MappedLocs, LiveLocs,
                ListedLocs, HandlerLocs
  <1>3. pci[d].msi = "intx" BY <1>1 DEF DevInv, MsiInv, MsiLocs, HandlerLocs
  <1>4. pci[d].irqs = {} BY <1>1 DEF DevInv, IrqInv, Registered
  <1>5. ASSUME NEW l \in Lines PROVE <<d, l>> \notin running
    BY RunsAtHandlerLocs DEF HandlerLocs
  <1>6. d \notin Listed
    BY DEF IInv, ListInv, ListedLocs, EnabledLocs, MappedLocs, HandlerLocs
  <1> QED BY <1>2, <1>3, <1>4, <1>5, <1>6 DEF HoldsNothing

THEOREM ClosedDevicesHoldNothing == Spec => []ClosedHoldsNothing
  BY IdleIsClosed, InductiveInvariant, PTL

(* An open device holds what the mode its flags record needs, and no more. *)
LEMMA OpenIsHeld == IInv => OpenHoldsAll
  <1> SUFFICES ASSUME IInv, NEW d \in Devices, pc[d] = "open"
               PROVE  HoldsAll(d)
    BY DEF OpenHoldsAll
  <1>1. DevInv(d) BY DEF IInv
  <1>2. pci[d].enable_cnt = 1 /\ pci[d].iomaps = BarPresent[d] /\ xdev[d].live
    BY <1>1 DEF DevInv, EnableInv, MapInv, LiveInv, EnabledLocs, MappedLocs, LiveLocs,
                ListedLocs, HandlerLocs
  <1>3. /\ xdev[d].msix_enabled <=> pci[d].msi = "msix"
        /\ xdev[d].msi_enabled <=> pci[d].msi = "msi"
    BY <1>1 DEF DevInv, MsiInv, MsiLocs, HandlerLocs
  <1>4. pci[d].irqs = HandlersOf(d) BY <1>1 DEF DevInv, IrqInv, Registered
  <1>5. d \in Listed
    BY DEF IInv, ListInv, ListedLocs, EnabledLocs, MappedLocs, HandlerLocs
  <1> QED BY <1>2, <1>3, <1>4, <1>5 DEF HoldsAll

THEOREM OpenDevicesHoldAll == Spec => []OpenHoldsAll
  BY OpenIsHeld, InductiveInvariant, PTL

-----------------------------------------------------------------------------
(***************************************************************************)
(* The library implements what it promises.  By the inductive invariant    *)
(* the abstract states are functions of the locations; what remains is     *)
(* which move each action makes.                                           *)
(***************************************************************************)

(* The kind of interrupt a device has is one it can have.                  *)
KindInv(d) ==
  /\ pci[d].msi = "msi" => d \in MsiCapable
  /\ pci[d].msi = "msix" => d \in MsixCapable /\ UserMax > 0
  /\ pc[d] \in {"flush", "open"} /\ pci[d].msi = "intx" => d \in HasPin

RefInv == IInv /\ \A d \in Devices : KindInv(d)

(* The moves of a thread between the parts of an open and a close.         *)
Moves(d) ==
  \/ pc[d] = "idle" /\ pc'[d] = "alloc"
  \/ pc[d] = "alloc" /\ pc'[d] = "idle"
  \/ pc[d] \in OpenLocs /\ pc'[d] \in OpenLocs \cup ExitLocs
  \/ pc[d] = "flush" /\ pc'[d] = "open"
  \/ pc[d] = "open" /\ pc'[d] = "teardown"
  \/ pc[d] \in CloseLocs \cup ExitLocs /\ pc'[d] \in CloseLocs \cup ExitLocs
  \/ pc[d] = "free_xdev" /\ pc'[d] = "idle"
  \/ pc[d] = "open" /\ pc'[d] = "open" /\ pci'[d].msi = pci[d].msi

(* A device is given its number when it is listed, and keeps it.           *)
KeepsIndex(d) ==
  pc'[d] \in ListedLocs =>
    xdev'[d].idx = IF pc[d] \in ListedLocs THEN xdev[d].idx ELSE NextIdx

(* What a step leaves of the other devices.                                *)
Stays(e) == pc'[e] = pc[e] /\ pci'[e].msi = pci[e].msi /\ xdev'[e].idx = xdev[e].idx

(* What a step of a device's thread does.                                  *)
StepOf(d) ==
  /\ Moves(d) /\ KeepsIndex(d) /\ KindInv(d)'
  /\ \A e \in Devices \ {d} : Stays(e)

(***************************************************************************)
(* Each action of an open and a close makes one of the moves.              *)
(***************************************************************************)

LEMMA OpenSteps == ASSUME RefInv, NEW d \in Devices, OpenStep(d) PROVE StepOf(d)
  <1> USE DEF StepOf, Moves, KeepsIndex, Stays, KindInv, Goto, XgpuDev, PciDev, DevInv, MsiInv,
              OpenLocs, CloseLocs, ExitLocs, ListedLocs, EnabledLocs, MappedLocs, HandlerLocs,
              VectorLocs, MsiLocs
  <1>0. /\ DevInv(d) /\ KindInv(d)
        /\ pc \in [Devices -> Locations] /\ xdev \in [Devices -> XgpuDev]
        /\ pci \in [Devices -> PciDev]
    BY DEF RefInv, IInv, TypeOK
  <1>1. CASE AllocDev(d)
    BY <1>0, <1>1 DEF AllocDev
  <1>2. CASE xdev_list_add(d)
    BY <1>0, <1>2 DEF xdev_list_add
  <1>3. CASE EnableDevice(d)
    BY <1>0, <1>3 DEF EnableDevice
  <1>4. CASE request_regions(d)
    BY <1>0, <1>4 DEF request_regions, RequestRegion
  <1>5. CASE MapBar(d)
    BY <1>0, <1>5 DEF MapBar
  <1>6. CASE BarsMapped(d)
    BY <1>0, <1>6 DEF BarsMapped
  <1>7. CASE set_dma_mask(d)
    BY <1>0, <1>7 DEF set_dma_mask
  <1>8. CASE Quiesce(d)
    BY <1>0, <1>8 DEF Quiesce
  <1>9. CASE EnableMsix(d)
    BY <1>0, <1>9 DEF EnableMsix
  <1>10. CASE NoMsix(d)
    BY <1>0, <1>10 DEF NoMsix
  <1>11. CASE EnableMsi(d)
    BY <1>0, <1>11 DEF EnableMsi
  <1>12. CASE NoMsi(d)
    BY <1>0, <1>12 DEF NoMsi
  <1>13. CASE MsixSetup(d)
    BY <1>0, <1>13 DEF MsixSetup
  <1>14. CASE irq_msi_setup(d)
    BY <1>0, <1>14 DEF irq_msi_setup, LineSetup
  <1>15. CASE irq_legacy_setup(d)
    BY <1>0, <1>15 DEF irq_legacy_setup, LineSetup
  <1>16. CASE RequestVector(d)
    BY <1>0, <1>16 DEF RequestVector
  <1>17. CASE VectorsRequested(d)
    BY <1>0, <1>17 DEF VectorsRequested
  <1>18. CASE UndoVector(d)
    BY <1>0, <1>18 DEF UndoVector, FreeIrq, SyncIrq
  <1>19. CASE VectorsUndone(d)
    BY <1>0, <1>19 DEF VectorsUndone
  <1>20. CASE FinishOpen(d)
    BY <1>0, <1>20 DEF FinishOpen
  <1> QED
    BY <1>1, <1>2, <1>3, <1>4, <1>5, <1>6, <1>7, <1>8, <1>9, <1>10, <1>11,
       <1>12, <1>13, <1>14, <1>15, <1>16, <1>17, <1>18, <1>19, <1>20 DEF
       OpenStep

LEMMA CloseSteps == ASSUME RefInv, NEW d \in Devices, CloseStep(d) PROVE StepOf(d)
  <1> USE DEF StepOf, Moves, KeepsIndex, Stays, KindInv, Goto, XgpuDev, PciDev, DevInv, MsiInv,
              OpenLocs, CloseLocs, ExitLocs, ListedLocs, EnabledLocs, MappedLocs, HandlerLocs,
              VectorLocs, MsiLocs
  <1>0. /\ DevInv(d) /\ KindInv(d)
        /\ pc \in [Devices -> Locations] /\ xdev \in [Devices -> XgpuDev]
        /\ pci \in [Devices -> PciDev]
    BY DEF RefInv, IInv, TypeOK
  <1>1. CASE irq_teardown(d)
    BY <1>0, <1>1 DEF irq_teardown, FreeIrq, SyncIrq
  <1>2. CASE irq_msix_user_teardown(d)
    BY <1>0, <1>2 DEF irq_msix_user_teardown, FreeIrq, SyncIrq
  <1> QED
    BY <1>1, <1>2 DEF CloseStep

LEMMA ExitSteps == ASSUME RefInv, NEW d \in Devices, ExitStep(d) PROVE StepOf(d)
  <1> USE DEF StepOf, Moves, KeepsIndex, Stays, KindInv, Goto, XgpuDev, PciDev, DevInv, MsiInv,
              OpenLocs, CloseLocs, ExitLocs, ListedLocs, EnabledLocs, MappedLocs, HandlerLocs,
              VectorLocs, MsiLocs
  <1>0. /\ DevInv(d) /\ KindInv(d)
        /\ pc \in [Devices -> Locations] /\ xdev \in [Devices -> XgpuDev]
        /\ pci \in [Devices -> PciDev]
    BY DEF RefInv, IInv, TypeOK
  <1>1. CASE disable_msi_msix(d)
    BY <1>0, <1>1 DEF disable_msi_msix
  <1>2. CASE unmap_bars(d)
    BY <1>0, <1>2 DEF unmap_bars
  <1>3. CASE ReleaseRegions(d)
    BY <1>0, <1>3 DEF ReleaseRegions
  <1>4. CASE DisableDevice(d)
    BY <1>0, <1>4 DEF DisableDevice
  <1>5. CASE xdev_list_remove(d)
    BY <1>0, <1>5 DEF xdev_list_remove
  <1>6. CASE FreeXdev(d)
    BY <1>0, <1>6 DEF FreeXdev
  <1> QED
    BY <1>1, <1>2, <1>3, <1>4, <1>5, <1>6 DEF ExitStep

(***************************************************************************)
(* The other actions, and all of them together.                            *)
(***************************************************************************)

LEMMA CallSteps ==
  ASSUME RefInv, NEW d \in Devices, CallOpen(d) \/ CallClose(d)
  PROVE  StepOf(d)
  <1> USE DEF StepOf, Moves, KeepsIndex, Stays, KindInv, Goto, ListedLocs, EnabledLocs,
              MappedLocs, HandlerLocs, OpenLocs, CloseLocs, ExitLocs
  <1>1. KindInv(d) /\ pc \in [Devices -> Locations] BY DEF RefInv, IInv, TypeOK
  <1>2. CASE CallOpen(d) BY <1>1, <1>2 DEF CallOpen
  <1>3. CASE CallClose(d)
    <2>1. d \in Listed BY <1>3 DEF CallClose, RefInv, IInv, ListInv
    <2> QED BY <1>1, <1>3, <2>1 DEF CallClose
  <1> QED BY <1>2, <1>3

LEMMA OfflineSteps ==
  ASSUME RefInv, NEW d \in Devices, NEW flag \in BOOLEAN, SetOffline(d, flag)
  PROVE  StepOf(d)
  <1>1. KindInv(d) /\ xdev \in [Devices -> XgpuDev] BY DEF RefInv, IInv, TypeOK
  <1> QED
    BY <1>1 DEF SetOffline, StepOf, Moves, KeepsIndex, Stays, KindInv, XgpuDev, ListedLocs,
                EnabledLocs, MappedLocs, HandlerLocs

(* Every step is a move of one device, or leaves them all where they are.  *)
LEMMA NextSteps ==
  ASSUME RefInv, [Next]_vars
  PROVE  (\E d \in Devices : StepOf(d)) \/ (\A e \in Devices : Stays(e))
  <1>1. CASE UNCHANGED vars BY <1>1 DEF vars, Stays
  <1>2. ASSUME NEW d \in Devices, CallOpen(d) \/ CallClose(d) \/ ThreadStep(d) PROVE StepOf(d)
    BY <1>2, CallSteps, OpenSteps, CloseSteps, ExitSteps DEF ThreadStep
  <1>3. ASSUME NEW d \in Devices, NEW flag \in BOOLEAN, SetOffline(d, flag) PROVE StepOf(d)
    BY <1>3, OfflineSteps
  <1>4. ASSUME NEW d \in Devices, NEW l \in Lines, Interrupt(d, l), NEW e \in Devices
        PROVE  Stays(e)
    BY <1>4 DEF Interrupt, InterruptStarts, xgpu_isr, user_irq_service, Stays
  <1>5. ASSUME NEW m \in Modes, SetInterruptMode(m), NEW e \in Devices PROVE Stays(e)
    BY <1>5 DEF SetInterruptMode, Stays
  <1> QED BY <1>1, <1>2, <1>3, <1>4, <1>5 DEF Next

LEMMA InitRefInv == Init => RefInv
  BY InitIInv DEF RefInv, KindInv, Init

LEMMA NextRefInv == ASSUME RefInv, [Next]_vars PROVE RefInv'
  <1>1. IInv' BY NextIInv DEF RefInv
  <1>2. ASSUME NEW e \in Devices, Stays(e) PROVE KindInv(e)'
    BY <1>2 DEF Stays, RefInv, KindInv
  <1>3. ASSUME NEW d \in Devices, StepOf(d), NEW e \in Devices PROVE KindInv(e)'
    BY <1>2, <1>3 DEF StepOf
  <1> QED BY <1>1, <1>2, <1>3, NextSteps DEF RefInv

(* The inductive invariant, with the kinds of interrupt of the devices.    *)
THEOREM RefinementInvariant == Spec => []RefInv
  BY InitRefInv, NextRefInv, PTL DEF Spec

(***************************************************************************)
(* The contract with the PCI driver.                                       *)
(***************************************************************************)
LibFun == [d \in Devices |-> LibState(d)]

(* What the contract sees of a device is its location, and its kind of     *)
(* interrupt when it is open: it is never "broken".                        *)
AbsState(d) ==
  IF pc[d] = "idle" THEN "closed"
  ELSE IF pc[d] = "open" THEN pci[d].msi
  ELSE IF pc[d] \in OpenLocs THEN "opening" ELSE "closing"

AbsFun == [d \in Devices |-> AbsState(d)]

LibAbs == LibFun = AbsFun

LEMMA LibIsAbs == RefInv => LibAbs
  <1> SUFFICES ASSUME RefInv, NEW d \in Devices PROVE LibState(d) = AbsState(d)
    BY DEF LibAbs, LibFun, AbsFun
  <1>1. pc[d] \in Locations BY DEF RefInv, IInv, TypeOK
  <1>2. /\ pc[d] = "idle" => HoldsNothing(d)
        /\ pc[d] = "open" => HoldsAll(d)
    BY IdleIsClosed, OpenIsHeld DEF RefInv, ClosedHoldsNothing, OpenHoldsAll
  <1> QED BY <1>1, <1>2 DEF LibState, AbsState, Locations, OpenLocs, CloseLocs, ExitLocs

LEMMA LibIsAbsNext == RefInv' => LibAbs'
  BY LibIsAbs, PTL

(* An open device has a kind of interrupt that the contract knows.         *)
OpenKind == \A d \in Devices : pc[d] = "open" => pci[d].msi \in Contract!Kinds(d)

LEMMA OpenKinds == RefInv => OpenKind
  <1> SUFFICES ASSUME RefInv, NEW d \in Devices, pc[d] = "open"
               PROVE  pci[d].msi \in Contract!Kinds(d)
    BY DEF OpenKind
  <1>1. pci[d].msi \in {"intx", "msi", "msix"} BY DEF RefInv, IInv, TypeOK, PciDev
  <1> QED BY <1>1 DEF RefInv, KindInv, Contract!Kinds

LEMMA OpenKindsNext == RefInv' => OpenKind'
  BY OpenKinds, PTL

LEMMA ContractStep ==
  ASSUME RefInv, RefInv', NEW d \in Devices, StepOf(d)
  PROVE  [Contract!Next]_LibFun
  <1>1. LibFun = AbsFun /\ LibFun' = AbsFun' BY LibIsAbs, LibIsAbsNext DEF LibAbs
  <1>2. ASSUME NEW e \in Devices \ {d} PROVE AbsState(e)' = AbsState(e)
    BY DEF StepOf, Stays, AbsState
  <1>3. LibFun' = [LibFun EXCEPT ![d] = AbsState(d)'] /\ LibFun[d] = AbsState(d)
    BY <1>1, <1>2 DEF AbsFun
  <1>4. ASSUME AbsState(d)' = AbsState(d) PROVE [Contract!Next]_LibFun
    BY <1>1, <1>3, <1>4 DEF AbsFun
  <1>5. ASSUME NEW a, NEW b, AbsState(d) = a, AbsState(d)' = b
        PROVE  Contract!Becomes(d, a, b)
    BY <1>3, <1>5 DEF Contract!Becomes, LibFun
  <1>6. CASE pc[d] = "idle" /\ pc'[d] = "alloc"
    BY <1>5, <1>6 DEF AbsState, OpenLocs, Contract!Next, Contract!CallOpen
  <1>7. CASE pc[d] = "alloc" /\ pc'[d] = "idle"
    BY <1>5, <1>7 DEF AbsState, OpenLocs, Contract!Next, Contract!OpenFails
  <1>8. CASE pc[d] \in OpenLocs /\ pc'[d] \in OpenLocs
    BY <1>4, <1>8 DEF AbsState, OpenLocs
  <1>9. CASE pc[d] \in OpenLocs /\ pc'[d] \in ExitLocs
    BY <1>5, <1>9 DEF AbsState, OpenLocs, ExitLocs, Contract!Next, Contract!OpenFails
  <1>10. CASE pc[d] = "flush" /\ pc'[d] = "open"
    <2>1. pci'[d].msi \in Contract!Kinds(d) BY <1>10, OpenKindsNext DEF OpenKind
    <2>2. Contract!Becomes(d, "opening", pci'[d].msi)
      BY <1>5, <1>10 DEF AbsState, OpenLocs
    <2> QED BY <2>1, <2>2 DEF Contract!Next, Contract!OpenReturns
  <1>11. CASE pc[d] = "open" /\ pc'[d] = "teardown"
    <2>1. pci[d].msi \in Contract!Kinds(d) BY <1>11, OpenKinds DEF OpenKind
    <2>2. Contract!Becomes(d, pci[d].msi, "closing")
      BY <1>5, <1>11 DEF AbsState, OpenLocs
    <2> QED BY <2>1, <2>2 DEF Contract!Next, Contract!CallClose
  <1>12. CASE pc[d] \in CloseLocs \cup ExitLocs /\ pc'[d] \in CloseLocs \cup ExitLocs
    BY <1>4, <1>12 DEF AbsState, OpenLocs, CloseLocs, ExitLocs
  <1>13. CASE pc[d] = "free_xdev" /\ pc'[d] = "idle"
    BY <1>5, <1>13 DEF AbsState, OpenLocs, Contract!Next, Contract!Closed
  <1>14. CASE pc[d] = "open" /\ pc'[d] = "open" /\ pci'[d].msi = pci[d].msi
    BY <1>4, <1>14 DEF AbsState
  <1> QED
    BY <1>6, <1>7, <1>8, <1>9, <1>10, <1>11, <1>12, <1>13, <1>14 DEF StepOf, Moves

(* The library implements its contract: a caller sees an open end with the *)
(* device open, with a kind of interrupt it can have, or closed, and a     *)
(* close end with it closed; an open device holds all its interrupt mode   *)
(* needs, and a closed one nothing.                                        *)
THEOREM ImplementsContract == Spec => ContractSpec
  <1>1. Init => Contract!Init
    <2>1. ASSUME Init, NEW d \in Devices PROVE LibState(d) = "closed"
      <3>1. LibFun = AbsFun BY <2>1, InitRefInv, LibIsAbs DEF LibAbs
      <3>2. LibState(d) = AbsState(d) BY <3>1 DEF LibFun, AbsFun
      <3> QED BY <2>1, <3>2 DEF Init, AbsState
    <2> QED BY <2>1 DEF Contract!Init
  <1>2. RefInv /\ RefInv' /\ [Next]_vars => [Contract!Next]_LibFun
    <2> SUFFICES ASSUME RefInv, RefInv', [Next]_vars PROVE [Contract!Next]_LibFun
      OBVIOUS
    <2>1. CASE \E d \in Devices : StepOf(d) BY <2>1, ContractStep
    <2>2. CASE \A e \in Devices : Stays(e)
      <3>1. LibFun = AbsFun /\ LibFun' = AbsFun' BY LibIsAbs, LibIsAbsNext DEF LibAbs
      <3> QED BY <2>2, <3>1 DEF AbsFun, AbsState, Stays
    <2> QED BY <2>1, <2>2, NextSteps
  <1> QED BY <1>1, <1>2, RefinementInvariant, PTL DEF ContractSpec, Contract!Spec, Spec, LibFun

(***************************************************************************)
(* The registry of device numbers.                                         *)
(***************************************************************************)
IndexFun == [d \in Listed |-> xdev[d].idx]

ListedLoc ==
  /\ Listed \subseteq Devices
  /\ \A d \in Devices : d \in Listed <=> pc[d] \in ListedLocs

LEMMA ListedByLoc == RefInv => ListedLoc
  BY DEF ListedLoc, RefInv, IInv, TypeOK, ListInv, Listed, ToSet

LEMMA ListedByLocNext == RefInv' => ListedLoc'
  BY ListedByLoc, PTL

(* The number a device would get now is not one of a listed device.        *)
LEMMA NumberIsNew ==
  ASSUME RefInv
  PROVE  NextIdx \in Nat /\ \A e \in Listed : xdev[e].idx # NextIdx
  <1>1. NextIdx \in Nat /\ \A k \in 1..Len(xdev_list) : xdev[xdev_list[k]].idx < NextIdx
    BY NextIdxIsNew DEF RefInv
  <1>2. \A k \in 1..Len(xdev_list) : xdev[xdev_list[k]].idx \in Nat
    BY DEF RefInv, IInv, TypeOK, XgpuDev
  <1> QED BY <1>1, <1>2 DEF Listed, ToSet

LEMMA RegistryStep ==
  ASSUME RefInv, RefInv', NEW d \in Devices, StepOf(d)
  PROVE  [Registry!Next]_IndexFun
  <1>1. /\ Listed \subseteq Devices /\ Listed' \subseteq Devices
        /\ \A e \in Devices : e \in Listed <=> pc[e] \in ListedLocs
        /\ \A e \in Devices : e \in Listed' <=> pc'[e] \in ListedLocs
    BY ListedByLoc, ListedByLocNext DEF ListedLoc
  <1>2. ASSUME NEW e \in Devices \ {d}
        PROVE  (e \in Listed' <=> e \in Listed) /\ xdev'[e].idx = xdev[e].idx
    BY <1>1 DEF StepOf, Stays
  <1>3. IndexFun' = [e \in Listed' |-> xdev'[e].idx] BY DEF IndexFun
  <1>4. CASE d \in Listed /\ d \in Listed'
    <2>1. xdev'[d].idx = xdev[d].idx BY <1>1, <1>4 DEF StepOf, KeepsIndex
    <2>2. Listed' = Listed BY <1>1, <1>2, <1>4
    <2> QED BY <1>1, <1>2, <1>3, <2>1, <2>2 DEF IndexFun
  <1>5. CASE d \in Listed /\ d \notin Listed'
    <2>1. Listed' = Listed \ {d} BY <1>1, <1>2, <1>5
    <2>2. Registry!Unregister(d)
      BY <1>1, <1>2, <1>3, <1>5, <2>1 DEF Registry!Unregister, IndexFun
    <2> QED BY <2>2 DEF Registry!Next
  <1>6. CASE d \notin Listed /\ d \in Listed'
    <2>1. Listed' = Listed \cup {d} BY <1>1, <1>2, <1>6
    <2>2. xdev'[d].idx = NextIdx BY <1>1, <1>6 DEF StepOf, KeepsIndex
    <2>3. Registry!Register(d)
      BY <1>1, <1>2, <1>3, <1>6, <2>1, <2>2, NumberIsNew DEF Registry!Register, IndexFun
    <2> QED BY <2>3 DEF Registry!Next
  <1>7. CASE d \notin Listed /\ d \notin Listed'
    <2>1. Listed' = Listed BY <1>1, <1>2, <1>7
    <2> QED BY <1>1, <1>2, <1>3, <1>7, <2>1 DEF IndexFun
  <1> QED BY <1>4, <1>5, <1>6, <1>7

(* The library implements the registry: the number in the names of a       *)
(* device's files is its own, and stays, until the device is closed.       *)
THEOREM ImplementsRegistry == Spec => RegistrySpec
  <1>1. Init => Registry!Init
    <2>1. ASSUME Init PROVE Listed = {} BY <2>1 DEF Init, Listed, ToSet
    <2> QED BY <2>1 DEF Registry!Init
  <1>2. RefInv /\ RefInv' /\ [Next]_vars => [Registry!Next]_IndexFun
    <2> SUFFICES ASSUME RefInv, RefInv', [Next]_vars PROVE [Registry!Next]_IndexFun
      OBVIOUS
    <2>1. CASE \E d \in Devices : StepOf(d) BY <2>1, RegistryStep
    <2>2. CASE \A e \in Devices : Stays(e)
      <3>1. /\ Listed \subseteq Devices /\ Listed' \subseteq Devices
            /\ \A e \in Devices : e \in Listed <=> pc[e] \in ListedLocs
            /\ \A e \in Devices : e \in Listed' <=> pc'[e] \in ListedLocs
        BY ListedByLoc, ListedByLocNext DEF ListedLoc
      <3>2. Listed' = Listed BY <2>2, <3>1 DEF Stays
      <3> QED BY <2>2, <3>1, <3>2 DEF IndexFun, Stays
    <2> QED BY <2>1, <2>2, NextSteps
  <1> QED BY <1>1, <1>2, RefinementInvariant, PTL DEF RegistrySpec, Registry!Spec, Spec, IndexFun
=============================================================================
