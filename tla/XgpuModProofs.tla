--------------------------- MODULE XgpuModProofs ---------------------------
(***************************************************************************)
(* Proofs that the PCI module keeps its invariants, for every set of       *)
(* devices, every choice of majors and tables of files of any length: what *)
(* a device holds is said location by location in IInv, and each action    *)
(* has a lemma that it keeps this.                                         *)
(***************************************************************************)
EXTENDS XgpuMod, TLAPS

(***************************************************************************)
(* The locations, by what a device holds there.                            *)
(***************************************************************************)
CreateLocs == {"create", "add", "unregister", "fail_type", "fail_all"}
HandlerLocs == {"bound", "free_irq"} \cup CreateLocs
MsiLocs == {"request_irq", "sync_irq"} \cup HandlerLocs
OpenLocs == {"enable_msi"} \cup MsiLocs
FileLocs == {"sync_irq", "free"} \cup HandlerLocs
EmptyLocs == {"idle", "alloc", "open", "close", "closing", "kfree"}

HasFiles(d) == \E t \in Types : nodes[d][t] > 0

(* The library's state.  On the way out xpdev->xdev says whether the       *)
(* device was opened; a thread only crashes where there may be files.      *)
LibInv(d) ==
  /\ mpc[d] \in {"idle", "alloc", "open", "kfree"} => lib[d] = "closed"
  /\ mpc[d] = "opening" => lib[d] \in {"opening", "closing"}
  /\ mpc[d] = "closing" => lib[d] = "closing"
  /\ mpc[d] \in {"enable_msi", "oops"} => IsOpen(d)
  /\ mpc[d] \in MsiLocs => lib[d] = "intx"
  /\ mpc[d] \in {"free", "close"} => IF xpdev[d].xdev THEN IsOpen(d) ELSE lib[d] = "closed"

(* The structure, and the driver data that lead to it.                     *)
XpdevInv(d) ==
  /\ xpdev[d].live <=> mpc[d] \notin {"idle", "alloc"}
  /\ mpc[d] \in OpenLocs => xpdev[d].xdev
  /\ mpc[d] \in {"open", "opening", "closing", "kfree"} => ~xpdev[d].xdev
  /\ mpc[d] = "bound" => d \in drvdata
  /\ mpc[d] \in {"idle", "alloc"} => d \notin drvdata

(* MSI outlasts the handler, and the handler its last call.                *)
IrqInv(d) ==
  /\ mpc[d] \in MsiLocs => d \in msi_on
  /\ mpc[d] \in HandlerLocs => d \in handler
  /\ mpc[d] \notin {"oops"} \cup MsiLocs => d \notin msi_on
  /\ mpc[d] \notin {"oops"} \cup HandlerLocs => d \notin handler
  /\ mpc[d] \notin {"oops", "sync_irq"} \cup HandlerLocs => d \notin in_handler
  /\ d \in handler \cup in_handler => d \in msi_on

(* There are files only while the library has the device open.             *)
FileInv(d) ==
  /\ HasFiles(d) => IsOpen(d) /\ xpdev[d].major # 0
  /\ mpc[d] \notin {"oops"} \cup FileLocs => nodes[d] = NoNodes
  /\ mpc[d] \in {"add", "unregister", "fail_type"} => ~Created(d)
  /\ mpc[d] \in {"add", "unregister"} => xpdev[d].major # 0
  /\ mpc[d] = "bound" => Created(d)

RegionInv(d) ==
  /\ \A m \in region[d] : xpdev[d].live /\ xpdev[d].major = m
  /\ mpc[d] \in EmptyLocs => region[d] = {}

DevInv(d) == LibInv(d) /\ XpdevInv(d) /\ IrqInv(d) /\ FileInv(d) /\ RegionInv(d)

(* The inductive invariant of the module.                                  *)
IInv == TypeOK /\ \A d \in Devices : DevInv(d)

(***************************************************************************)
(* Lemmas about a step of one device.                                      *)
(***************************************************************************)

(* A step of one device leaves the others alone, but for the regions it    *)
(* may take from them.                                                     *)
Keeps(e) ==
  /\ mpc'[e] = mpc[e] /\ lib'[e] = lib[e] /\ xpdev'[e] = xpdev[e] /\ nodes'[e] = nodes[e]
  /\ e \in drvdata' <=> e \in drvdata
  /\ e \in msi_on' <=> e \in msi_on
  /\ e \in handler' <=> e \in handler
  /\ e \in in_handler' <=> e \in in_handler
  /\ region'[e] \subseteq region[e]

LEMMA Frame == ASSUME NEW e \in Devices, DevInv(e), Keeps(e) PROVE DevInv(e)'
  <1> USE DEF Keeps, DevInv
  <1>1. LibInv(e)' BY DEF LibInv, IsOpen
  <1>2. XpdevInv(e)' BY DEF XpdevInv
  <1>3. IrqInv(e)' BY DEF IrqInv
  <1>4. FileInv(e)' BY DEF FileInv, HasFiles, IsOpen, Created
  <1>5. RegionInv(e)' BY DEF RegionInv
  <1> QED BY <1>1, <1>2, <1>3, <1>4, <1>5

(* So a step keeps the invariant if it keeps the types and what is true of *)
(* its own device.                                                         *)
LEMMA DeviceStep ==
  ASSUME IInv, NEW d \in Devices, \A e \in Devices \ {d} : Keeps(e), TypeOK', DevInv(d)'
  PROVE  IInv'
  <1>1. ASSUME NEW e \in Devices PROVE DevInv(e)'
    <2>1. CASE e = d BY <2>1
    <2>2. CASE e # d BY <2>2, Frame DEF IInv
    <2> QED BY <2>1, <2>2
  <1> QED BY <1>1 DEF IInv

(* A device with no file has empty lists, and one with files everywhere    *)
(* has a major, as no table is empty.                                      *)
LEMMA NoFiles == ASSUME TypeOK, NEW d \in Devices, ~HasFiles(d) PROVE nodes[d] = NoNodes
  BY DEF TypeOK, HasFiles, NoNodes, Types

LEMMA CreatedHasFiles == ASSUME NEW d \in Devices, Created(d) PROVE HasFiles(d)
  BY NodeCountAssumption DEF Created, HasFiles, Types

(* While a file is missing, NextType is the type of one.                   *)
LEMMA NextTypeExists ==
  ASSUME TypeOK, NEW d \in Devices, ~Created(d)
  PROVE  NextType(d) \in Types /\ nodes[d][NextType(d)] < NodeCount[NextType(d)]
  <1>1. \E t \in Types : nodes[d][t] # NodeCount[t]
    BY NodeCountAssumption DEF TypeOK, Created
  <1>2. \A t \in Types : nodes[d][t] \in Nat /\ NodeCount[t] \in Nat /\ nodes[d][t] =< NodeCount[t]
    BY NodeCountAssumption DEF TypeOK
  <1>3. \E t \in Types : nodes[d][t] < NodeCount[t] /\ \A u \in Types : u < t =>
                           nodes[d][u] = NodeCount[u]
    BY <1>1, <1>2 DEF Types
  <1> QED BY <1>3 DEF NextType

(* The types of the lists and of the structure after a change to them.     *)
LEMMA NodesTyped ==
  ASSUME TypeOK, NEW d \in Devices, NEW t \in Types, NEW n \in Nat, n =< NodeCount[t],
         nodes' = [nodes EXCEPT ![d][t] = n]
  PROVE  /\ nodes' \in [Devices -> [Types -> Nat]]
         /\ \A e \in Devices, u \in Types : nodes'[e][u] =< NodeCount[u]
  <1>1. nodes' = [nodes EXCEPT ![d] = [nodes[d] EXCEPT ![t] = n]] OBVIOUS
  <1>2. [nodes[d] EXCEPT ![t] = n] \in [Types -> Nat] BY DEF TypeOK
  <1>3. \A u \in Types : [nodes[d] EXCEPT ![t] = n][u] =< NodeCount[u] BY DEF TypeOK
  <1> QED BY <1>1, <1>2, <1>3 DEF TypeOK

LEMMA Shorter ==
  ASSUME TypeOK, NEW d \in Devices, NEW t \in Types, NEW from, file_destroy_interfaces(d, t, from)
  PROVE  /\ nodes' \in [Devices -> [Types -> Nat]]
         /\ \A e \in Devices, u \in Types : nodes'[e][u] =< NodeCount[u]
  <1>1. /\ nodes[d][t] \in Nat /\ nodes[d][t] > 0 /\ nodes[d][t] =< NodeCount[t]
        /\ NodeCount[t] \in Nat
    BY NodeCountAssumption DEF TypeOK, file_destroy_interfaces
  <1>2. /\ nodes[d][t] - 1 \in Nat /\ nodes[d][t] - 1 =< NodeCount[t]
    BY <1>1
  <1>3. nodes' = [nodes EXCEPT ![d][t] = nodes[d][t] - 1] BY DEF file_destroy_interfaces
  <1> QED BY <1>2, <1>3, NodesTyped

Xpdev == [live : BOOLEAN, xdev : BOOLEAN, major : Majors \cup {0}]

LEMMA XpdevTyped ==
  ASSUME TypeOK, NEW d \in Devices, NEW r \in Xpdev, xpdev' = [xpdev EXCEPT ![d] = r]
  PROVE  xpdev' \in [Devices -> Xpdev]
  BY DEF TypeOK, Xpdev

LEMMA MajorTyped ==
  ASSUME NEW r \in Xpdev, NEW m \in Majors
  PROVE  [r EXCEPT !.major = m] \in Xpdev
  BY DEF Xpdev

LEMMA FlagTyped ==
  ASSUME TypeOK, NEW d \in Devices, NEW b \in BOOLEAN, xpdev' = [xpdev EXCEPT ![d].xdev = b]
  PROVE  xpdev' \in [Devices -> Xpdev]
  <1>1. [xpdev[d] EXCEPT !.xdev = b] \in Xpdev BY DEF TypeOK, Xpdev
  <1>2. xpdev' = [xpdev EXCEPT ![d] = [xpdev[d] EXCEPT !.xdev = b]] OBVIOUS
  <1> QED BY <1>1, <1>2, XpdevTyped

LEMMA RegionTyped ==
  ASSUME TypeOK, NEW m, Unregister(m) PROVE region' \in [Devices -> SUBSET Majors]
  BY DEF TypeOK, Unregister

(* A region that is known is the one of the major.                         *)
LEMMA OneRegion ==
  ASSUME TypeOK, NEW d \in Devices, RegionInv(d), xpdev[d].major = 0 PROVE region[d] = {}
  BY MajorsAssumption DEF TypeOK, RegionInv

LEMMA ProbeKeeps == ASSUME IInv, NEW d \in Devices, Probe(d) PROVE IInv'
  <1> USE DEF Probe, Goto, irqVars
  <1>0. TypeOK /\ DevInv(d) BY DEF IInv
  <1>1. TypeOK' BY <1>0 DEF TypeOK, Locations
  <1>2. \A e \in Devices \ {d} : Keeps(e) BY <1>0 DEF TypeOK, Keeps
  <1> USE <1>0 DEF DevInv, TypeOK, CreateLocs, HandlerLocs, MsiLocs, OpenLocs, FileLocs, EmptyLocs
  <1>3. LibInv(d)' BY DEF LibInv, XpdevInv, IsOpen
  <1>4. XpdevInv(d)' BY DEF XpdevInv
  <1>5. IrqInv(d)' BY DEF IrqInv
  <1>6. FileInv(d)' BY DEF FileInv, HasFiles, IsOpen, Created, LibInv
  <1>7. RegionInv(d)' BY DEF RegionInv, XpdevInv
  <1> QED BY <1>1, <1>2, <1>3, <1>4, <1>5, <1>6, <1>7, DeviceStep

LEMMA xpdev_allocKeeps == ASSUME IInv, NEW d \in Devices, xpdev_alloc(d) PROVE IInv'
  <1> USE DEF xpdev_alloc, Goto, irqVars, NoXpdev, NoNodes
  <1>0. TypeOK /\ DevInv(d) BY DEF IInv
  <1>1. TypeOK'
    <2>1. CASE UNCHANGED <<xpdev, nodes>> BY <1>0, <2>1 DEF TypeOK, Locations
    <2>2. CASE /\ xpdev' = [xpdev EXCEPT ![d] = [NoXpdev EXCEPT !.live = TRUE]]
               /\ nodes' = [nodes EXCEPT ![d] = NoNodes]
      <3>1. [NoXpdev EXCEPT !.live = TRUE] \in Xpdev BY DEF Xpdev
      <3>2. xpdev' \in [Devices -> Xpdev] BY <1>0, <2>2, <3>1, XpdevTyped
      <3>3. /\ nodes' \in [Devices -> [Types -> Nat]]
            /\ \A e \in Devices, u \in Types : nodes'[e][u] =< NodeCount[u]
        BY <1>0, <2>2, NodeCountAssumption DEF TypeOK
      <3>4. /\ lib' = lib /\ drvdata' = drvdata /\ msi_on' = msi_on /\ handler' = handler
            /\ in_handler' = in_handler /\ region' = region /\ mpc' \in [Devices -> Locations]
        BY <1>0 DEF TypeOK, Locations
      <3> QED BY <1>0, <3>2, <3>3, <3>4 DEF TypeOK, Xpdev
    <2> QED BY <2>1, <2>2
  <1>2. \A e \in Devices \ {d} : Keeps(e) BY <1>0 DEF TypeOK, Keeps
  <1> USE <1>0 DEF DevInv, TypeOK, CreateLocs, HandlerLocs, MsiLocs, OpenLocs, FileLocs, EmptyLocs
  <1>3. LibInv(d)' BY DEF LibInv, XpdevInv, IsOpen
  <1>4. XpdevInv(d)'
    <2>1. CASE mpc'[d] = "idle" BY <2>1 DEF XpdevInv
    <2>2. CASE mpc'[d] = "open"
      <3>1. xpdev'[d] = [NoXpdev EXCEPT !.live = TRUE] BY <2>2
      <3>2. xpdev'[d].live /\ ~xpdev'[d].xdev BY <3>1
      <3> QED BY <2>2, <3>2 DEF XpdevInv
    <2> QED BY <2>1, <2>2
  <1>5. IrqInv(d)' BY DEF IrqInv
  <1>6. FileInv(d)' BY DEF FileInv, HasFiles, IsOpen, Created, LibInv
  <1>7. RegionInv(d)' BY DEF RegionInv, XpdevInv
  <1> QED BY <1>1, <1>2, <1>3, <1>4, <1>5, <1>6, <1>7, DeviceStep

LEMMA OpenDeviceKeeps == ASSUME IInv, NEW d \in Devices, OpenDevice(d) PROVE IInv'
  <1> USE DEF OpenDevice, Goto, irqVars, DeviceLib!CallOpen, DeviceLib!Becomes
  <1>0. TypeOK /\ DevInv(d) BY DEF IInv
  <1>1. TypeOK' BY <1>0 DEF TypeOK, Locations
  <1>2. \A e \in Devices \ {d} : Keeps(e) BY <1>0 DEF TypeOK, Keeps
  <1> USE <1>0 DEF DevInv, TypeOK, CreateLocs, HandlerLocs, MsiLocs, OpenLocs, FileLocs, EmptyLocs
  <1>3. LibInv(d)' BY DEF LibInv, XpdevInv, IsOpen
  <1>4. XpdevInv(d)' BY DEF XpdevInv
  <1>5. IrqInv(d)' BY DEF IrqInv
  <1>6. FileInv(d)' BY DEF FileInv, HasFiles, IsOpen, Created, LibInv
  <1>7. RegionInv(d)' BY DEF RegionInv, XpdevInv
  <1> QED BY <1>1, <1>2, <1>3, <1>4, <1>5, <1>6, <1>7, DeviceStep

LEMMA DeviceOpenedKeeps == ASSUME IInv, NEW d \in Devices, DeviceOpened(d) PROVE IInv'
  <1> USE DEF DeviceOpened, Goto, irqVars, DeviceLib!OpenReturns, DeviceLib!Becomes, DeviceLib!Kinds
  <1>0. TypeOK /\ DevInv(d) BY DEF IInv
  <1>1. TypeOK'
    <2>1. xpdev' \in [Devices -> Xpdev]
      BY <1>0, FlagTyped
    <2> QED BY <1>0, <2>1 DEF TypeOK, Locations, Xpdev
  <1>2. \A e \in Devices \ {d} : Keeps(e) BY <1>0 DEF TypeOK, Keeps
  <1> USE <1>0 DEF DevInv, TypeOK, CreateLocs, HandlerLocs, MsiLocs, OpenLocs, FileLocs, EmptyLocs
  <1>3. LibInv(d)' BY DEF LibInv, XpdevInv, IsOpen
  <1>4. XpdevInv(d)' BY DEF XpdevInv
  <1>5. IrqInv(d)' BY DEF IrqInv
  <1>6. FileInv(d)' BY DEF FileInv, HasFiles, IsOpen, Created, LibInv
  <1>7. RegionInv(d)' BY DEF RegionInv, XpdevInv
  <1> QED BY <1>1, <1>2, <1>3, <1>4, <1>5, <1>6, <1>7, DeviceStep

LEMMA OpenCleansUpKeeps == ASSUME IInv, NEW d \in Devices, OpenCleansUp(d) PROVE IInv'
  <1> USE DEF OpenCleansUp, Goto, irqVars, DeviceLib!OpenFails, DeviceLib!Becomes
  <1>0. TypeOK /\ DevInv(d) BY DEF IInv
  <1>1. TypeOK' BY <1>0 DEF TypeOK, Locations
  <1>2. \A e \in Devices \ {d} : Keeps(e) BY <1>0 DEF TypeOK, Keeps
  <1> USE <1>0 DEF DevInv, TypeOK, CreateLocs, HandlerLocs, MsiLocs, OpenLocs, FileLocs, EmptyLocs
  <1>3. LibInv(d)' BY DEF LibInv, XpdevInv, IsOpen
  <1>4. XpdevInv(d)' BY DEF XpdevInv
  <1>5. IrqInv(d)' BY DEF IrqInv
  <1>6. FileInv(d)' BY DEF FileInv, HasFiles, IsOpen, Created, LibInv
  <1>7. RegionInv(d)' BY DEF RegionInv, XpdevInv
  <1> QED BY <1>1, <1>2, <1>3, <1>4, <1>5, <1>6, <1>7, DeviceStep

LEMMA OpenFailedKeeps == ASSUME IInv, NEW d \in Devices, OpenFailed(d) PROVE IInv'
  <1> USE DEF OpenFailed, Goto, irqVars, DeviceLib!OpenFails, DeviceLib!Closed, DeviceLib!Becomes
  <1>0. TypeOK /\ DevInv(d) BY DEF IInv
  <1>1. TypeOK' BY <1>0 DEF TypeOK, Locations
  <1>2. \A e \in Devices \ {d} : Keeps(e) BY <1>0 DEF TypeOK, Keeps
  <1> USE <1>0 DEF DevInv, TypeOK, CreateLocs, HandlerLocs, MsiLocs, OpenLocs, FileLocs, EmptyLocs
  <1>3. LibInv(d)' BY DEF LibInv, XpdevInv, IsOpen
  <1>4. XpdevInv(d)' BY DEF XpdevInv
  <1>5. IrqInv(d)' BY DEF IrqInv
  <1>6. FileInv(d)' BY DEF FileInv, HasFiles, IsOpen, Created, LibInv
  <1>7. RegionInv(d)' BY DEF RegionInv, XpdevInv
  <1> QED BY <1>1, <1>2, <1>3, <1>4, <1>5, <1>6, <1>7, DeviceStep

LEMMA EnableMsiKeeps == ASSUME IInv, NEW d \in Devices, EnableMsi(d) PROVE IInv'
  <1> USE DEF EnableMsi, Goto, irqVars
  <1>0. TypeOK /\ DevInv(d) BY DEF IInv
  <1>1. TypeOK' BY <1>0 DEF TypeOK, Locations
  <1>2. \A e \in Devices \ {d} : Keeps(e) BY <1>0 DEF TypeOK, Keeps
  <1> USE <1>0 DEF DevInv, TypeOK, CreateLocs, HandlerLocs, MsiLocs, OpenLocs, FileLocs, EmptyLocs
  <1>3. LibInv(d)' BY DEF LibInv, XpdevInv, IsOpen
  <1>4. XpdevInv(d)' BY DEF XpdevInv
  <1>5. IrqInv(d)' BY DEF IrqInv
  <1>6. FileInv(d)' BY DEF FileInv, HasFiles, IsOpen, Created, LibInv
  <1>7. RegionInv(d)' BY DEF RegionInv, XpdevInv
  <1> QED BY <1>1, <1>2, <1>3, <1>4, <1>5, <1>6, <1>7, DeviceStep

LEMMA RequestIrqKeeps == ASSUME IInv, NEW d \in Devices, RequestIrq(d) PROVE IInv'
  <1> USE DEF RequestIrq, Goto, irqVars
  <1>0. TypeOK /\ DevInv(d) BY DEF IInv
  <1>1. TypeOK' BY <1>0 DEF TypeOK, Locations
  <1>2. \A e \in Devices \ {d} : Keeps(e) BY <1>0 DEF TypeOK, Keeps
  <1> USE <1>0 DEF DevInv, TypeOK, CreateLocs, HandlerLocs, MsiLocs, OpenLocs, FileLocs, EmptyLocs
  <1>3. LibInv(d)' BY DEF LibInv, XpdevInv, IsOpen
  <1>4. XpdevInv(d)' BY DEF XpdevInv
  <1>5. IrqInv(d)' BY DEF IrqInv
  <1>6. FileInv(d)' BY DEF FileInv, HasFiles, IsOpen, Created, LibInv
  <1>7. RegionInv(d)' BY DEF RegionInv, XpdevInv
  <1> QED BY <1>1, <1>2, <1>3, <1>4, <1>5, <1>6, <1>7, DeviceStep

LEMMA NewNodeKeeps == ASSUME IInv, NEW d \in Devices, NewNode(d) PROVE IInv'
  <1> USE DEF NewNode, Goto, irqVars
  <1>0. TypeOK /\ DevInv(d) BY DEF IInv
  <1>1. TypeOK'
    <2>1. CASE UNCHANGED <<xpdev, region>> BY <1>0, <2>1 DEF TypeOK, Locations
    <2>2. ASSUME NEW m \in Majors, xpdev' = [xpdev EXCEPT ![d].major = m],
                 region' = [region EXCEPT ![d] = @ \cup {m}]
          PROVE  TypeOK'
      <3>1. xpdev[d] \in Xpdev BY <1>0 DEF TypeOK, Xpdev
      <3>2. xpdev' = [xpdev EXCEPT ![d] = [xpdev[d] EXCEPT !.major = m]] BY <2>2
      <3>3. [xpdev[d] EXCEPT !.major = m] \in Xpdev BY <3>1, MajorTyped
      <3>4. xpdev' \in [Devices -> Xpdev] BY <1>0, <3>2, <3>3, XpdevTyped
      <3>5. region' \in [Devices -> SUBSET Majors] BY <1>0, <2>2 DEF TypeOK
      <3>6. /\ lib' = lib /\ drvdata' = drvdata /\ msi_on' = msi_on /\ handler' = handler
            /\ in_handler' = in_handler /\ nodes' = nodes /\ mpc' \in [Devices -> Locations]
        BY <1>0 DEF TypeOK, Locations
      <3> QED BY <1>0, <3>4, <3>5, <3>6 DEF TypeOK, Xpdev
    <2> QED BY <2>1, <2>2
  <1>2. \A e \in Devices \ {d} : Keeps(e) BY <1>0 DEF TypeOK, Keeps
  <1> USE <1>0 DEF DevInv, TypeOK, CreateLocs, HandlerLocs, MsiLocs, OpenLocs, FileLocs, EmptyLocs
  <1>3. LibInv(d)' BY DEF LibInv, XpdevInv, IsOpen
  <1>4. XpdevInv(d)'
    <2>1. xpdev'[d].live = xpdev[d].live /\ xpdev'[d].xdev = xpdev[d].xdev OBVIOUS
    <2>2. mpc[d] = "create" /\ mpc'[d] \in {"add", "fail_type"} /\ drvdata' = drvdata OBVIOUS
    <2> QED BY <2>1, <2>2 DEF XpdevInv
  <1>5. IrqInv(d)' BY DEF IrqInv
  <1>6. FileInv(d)' BY MajorsAssumption DEF FileInv, HasFiles, IsOpen, Created, LibInv
  <1>7. RegionInv(d)'
    <2>1. CASE UNCHANGED <<xpdev, region>> BY <2>1 DEF RegionInv
    <2>2. ASSUME NEW m \in Majors, xpdev[d].major = 0, xpdev' = [xpdev EXCEPT ![d].major = m],
                 region' = [region EXCEPT ![d] = @ \cup {m}]
          PROVE  RegionInv(d)'
      <3>1. region[d] = {} BY OneRegion, <2>2
      <3>2. region'[d] = {m} BY <2>2, <3>1
      <3>3. xpdev'[d].major = m /\ xpdev'[d].live = xpdev[d].live BY <2>2
      <3>4. xpdev[d].live /\ mpc'[d] \notin EmptyLocs BY DEF XpdevInv
      <3> QED BY <3>2, <3>3, <3>4 DEF RegionInv
    <2> QED BY <2>1, <2>2
  <1> QED BY <1>1, <1>2, <1>3, <1>4, <1>5, <1>6, <1>7, DeviceStep

LEMMA create_xcdevKeeps == ASSUME IInv, NEW d \in Devices, create_xcdev(d) PROVE IInv'
  <1> USE DEF create_xcdev, Goto, irqVars
  <1>0. TypeOK /\ DevInv(d) BY DEF IInv
  <1>1. TypeOK'
    <2>1. CASE UNCHANGED nodes BY <1>0, <2>1 DEF TypeOK, Locations
    <2>2. CASE Goto(d, "add", "create") /\ nodes' = [nodes EXCEPT ![d][NextType(d)] = @ + 1]
      <3> DEFINE t == NextType(d)
      <3>1. t \in Types /\ nodes[d][t] < NodeCount[t] /\ nodes[d][t] \in Nat
        BY <1>0, <2>2, NextTypeExists DEF DevInv, FileInv, Goto, TypeOK
      <3>2. nodes[d][t] + 1 \in Nat /\ nodes[d][t] + 1 =< NodeCount[t]
        BY <3>1, NodeCountAssumption
      <3>3. nodes' = [nodes EXCEPT ![d][t] = nodes[d][t] + 1] BY <2>2
      <3>4. /\ nodes' \in [Devices -> [Types -> Nat]]
            /\ \A e \in Devices, u \in Types : nodes'[e][u] =< NodeCount[u]
        BY <1>0, <3>1, <3>2, <3>3, NodesTyped
      <3> QED BY <1>0, <2>2, <3>4 DEF TypeOK, Locations
    <2> QED BY <2>1, <2>2
  <1>2. \A e \in Devices \ {d} : Keeps(e) BY <1>0 DEF TypeOK, Keeps
  <1> USE <1>0 DEF DevInv, TypeOK, CreateLocs, HandlerLocs, MsiLocs, OpenLocs, FileLocs, EmptyLocs
  <1>3. LibInv(d)' BY DEF LibInv, XpdevInv, IsOpen
  <1>4. XpdevInv(d)' BY DEF XpdevInv
  <1>5. IrqInv(d)' BY DEF IrqInv
  <1>6. FileInv(d)' BY DEF FileInv, HasFiles, IsOpen, Created, LibInv
  <1>7. RegionInv(d)' BY DEF RegionInv, XpdevInv
  <1> QED BY <1>1, <1>2, <1>3, <1>4, <1>5, <1>6, <1>7, DeviceStep

LEMMA UnregisterNodeKeeps == ASSUME IInv, NEW d \in Devices, UnregisterNode(d) PROVE IInv'
  <1> USE DEF UnregisterNode, Goto, irqVars, Unregister
  <1>0. TypeOK /\ DevInv(d) BY DEF IInv
  <1>1. TypeOK' BY <1>0 DEF TypeOK, Locations
  <1>2. \A e \in Devices \ {d} : Keeps(e) BY <1>0 DEF TypeOK, Keeps
  <1> USE <1>0 DEF DevInv, TypeOK, CreateLocs, HandlerLocs, MsiLocs, OpenLocs, FileLocs, EmptyLocs
  <1>3. LibInv(d)' BY DEF LibInv, XpdevInv, IsOpen
  <1>4. XpdevInv(d)' BY DEF XpdevInv
  <1>5. IrqInv(d)' BY DEF IrqInv
  <1>6. FileInv(d)' BY DEF FileInv, HasFiles, IsOpen, Created, LibInv
  <1>7. RegionInv(d)' BY DEF RegionInv, XpdevInv
  <1> QED BY <1>1, <1>2, <1>3, <1>4, <1>5, <1>6, <1>7, DeviceStep

LEMMA FailTypeKeeps == ASSUME IInv, NEW d \in Devices, FailType(d) PROVE IInv'
  <1> USE DEF FailType, Goto, irqVars, file_destroy_interfaces
  <1>0. TypeOK /\ DevInv(d) BY DEF IInv
  <1>1. TypeOK'
    <2>1. CASE UNCHANGED nodes BY <1>0, <2>1 DEF TypeOK, Locations
    <2>2. CASE file_destroy_interfaces(d, NextType(d), "fail_type")
      <3>1. NextType(d) \in Types
        BY <1>0, <2>2, NextTypeExists DEF DevInv, FileInv
      <3> QED BY <1>0, <2>2, <3>1, Shorter DEF TypeOK, Locations
    <2> QED BY <2>1, <2>2
  <1>2. \A e \in Devices \ {d} : Keeps(e) BY <1>0 DEF TypeOK, Keeps
  <1> USE <1>0 DEF DevInv, TypeOK, CreateLocs, HandlerLocs, MsiLocs, OpenLocs, FileLocs, EmptyLocs
  <1>3. LibInv(d)' BY DEF LibInv, XpdevInv, IsOpen
  <1>4. XpdevInv(d)' BY DEF XpdevInv
  <1>5. IrqInv(d)' BY DEF IrqInv
  <1>6. FileInv(d)' BY DEF FileInv, HasFiles, IsOpen, Created, LibInv
  <1>7. RegionInv(d)' BY DEF RegionInv, XpdevInv
  <1> QED BY <1>1, <1>2, <1>3, <1>4, <1>5, <1>6, <1>7, DeviceStep

LEMMA FailAllKeeps == ASSUME IInv, NEW d \in Devices, FailAll(d) PROVE IInv'
  <1> USE DEF FailAll, Goto, irqVars, xpdev_destroy_interfaces, file_destroy_interfaces, Unregister
  <1>0. TypeOK /\ DevInv(d) BY DEF IInv
  <1>1. TypeOK'
    <2>1. CASE UNCHANGED nodes
      <3>1. region' \in [Devices -> SUBSET Majors] BY <1>0, <2>1, RegionTyped DEF TypeOK
      <3> QED BY <1>0, <2>1, <3>1 DEF TypeOK, Locations
    <2>2. ASSUME NEW t \in Types, file_destroy_interfaces(d, t, "fail_all") PROVE TypeOK'
      BY <1>0, <2>2, Shorter DEF TypeOK, Locations
    <2> QED BY <2>1, <2>2
  <1>2. \A e \in Devices \ {d} : Keeps(e) BY <1>0 DEF TypeOK, Keeps
  <1> USE <1>0 DEF DevInv, TypeOK, CreateLocs, HandlerLocs, MsiLocs, OpenLocs, FileLocs, EmptyLocs
  <1>3. LibInv(d)' BY DEF LibInv, XpdevInv, IsOpen
  <1>4. XpdevInv(d)' BY DEF XpdevInv
  <1>5. IrqInv(d)' BY DEF IrqInv
  <1>6. FileInv(d)' BY DEF FileInv, HasFiles, IsOpen, Created, LibInv
  <1>7. RegionInv(d)' BY DEF RegionInv, XpdevInv
  <1> QED BY <1>1, <1>2, <1>3, <1>4, <1>5, <1>6, <1>7, DeviceStep

LEMMA ProbeReturnsKeeps == ASSUME IInv, NEW d \in Devices, ProbeReturns(d) PROVE IInv'
  <1> USE DEF ProbeReturns, Goto, irqVars
  <1>0. TypeOK /\ DevInv(d) BY DEF IInv
  <1>1. TypeOK' BY <1>0 DEF TypeOK, Locations
  <1>2. \A e \in Devices \ {d} : Keeps(e) BY <1>0 DEF TypeOK, Keeps
  <1> USE <1>0 DEF DevInv, TypeOK, CreateLocs, HandlerLocs, MsiLocs, OpenLocs, FileLocs, EmptyLocs
  <1>3. LibInv(d)' BY DEF LibInv, XpdevInv, IsOpen
  <1>4. XpdevInv(d)' BY DEF XpdevInv
  <1>5. IrqInv(d)' BY DEF IrqInv
  <1>6. FileInv(d)' BY DEF FileInv, HasFiles, IsOpen, Created, LibInv
  <1>7. RegionInv(d)' BY DEF RegionInv, XpdevInv
  <1> QED BY <1>1, <1>2, <1>3, <1>4, <1>5, <1>6, <1>7, DeviceStep

LEMMA remove_oneKeeps == ASSUME IInv, NEW d \in Devices, remove_one(d) PROVE IInv'
  <1> USE DEF remove_one, Goto, irqVars
  <1>0. TypeOK /\ DevInv(d) BY DEF IInv
  <1>1. TypeOK' BY <1>0 DEF TypeOK, Locations
  <1>2. \A e \in Devices \ {d} : Keeps(e) BY <1>0 DEF TypeOK, Keeps
  <1> USE <1>0 DEF DevInv, TypeOK, CreateLocs, HandlerLocs, MsiLocs, OpenLocs, FileLocs, EmptyLocs
  <1>3. LibInv(d)' BY DEF LibInv, XpdevInv, IsOpen
  <1>4. XpdevInv(d)' BY DEF XpdevInv
  <1>5. IrqInv(d)' BY DEF IrqInv
  <1>6. FileInv(d)' BY DEF FileInv, HasFiles, IsOpen, Created, LibInv
  <1>7. RegionInv(d)' BY DEF RegionInv, XpdevInv
  <1> QED BY <1>1, <1>2, <1>3, <1>4, <1>5, <1>6, <1>7, DeviceStep

LEMMA FreeIrqKeeps == ASSUME IInv, NEW d \in Devices, FreeIrq(d) PROVE IInv'
  <1> USE DEF FreeIrq, Goto, irqVars
  <1>0. TypeOK /\ DevInv(d) BY DEF IInv
  <1>1. TypeOK' BY <1>0 DEF TypeOK, Locations
  <1>2. \A e \in Devices \ {d} : Keeps(e) BY <1>0 DEF TypeOK, Keeps
  <1> USE <1>0 DEF DevInv, TypeOK, CreateLocs, HandlerLocs, MsiLocs, OpenLocs, FileLocs, EmptyLocs
  <1>3. LibInv(d)' BY DEF LibInv, XpdevInv, IsOpen
  <1>4. XpdevInv(d)' BY DEF XpdevInv
  <1>5. IrqInv(d)' BY DEF IrqInv
  <1>6. FileInv(d)' BY DEF FileInv, HasFiles, IsOpen, Created, LibInv
  <1>7. RegionInv(d)' BY DEF RegionInv, XpdevInv
  <1> QED BY <1>1, <1>2, <1>3, <1>4, <1>5, <1>6, <1>7, DeviceStep

LEMMA DisableMsiKeeps == ASSUME IInv, NEW d \in Devices, DisableMsi(d) PROVE IInv'
  <1> USE DEF DisableMsi, Goto, irqVars
  <1>0. TypeOK /\ DevInv(d) BY DEF IInv
  <1>1. TypeOK' BY <1>0 DEF TypeOK, Locations
  <1>2. \A e \in Devices \ {d} : Keeps(e) BY <1>0 DEF TypeOK, Keeps
  <1> USE <1>0 DEF DevInv, TypeOK, CreateLocs, HandlerLocs, MsiLocs, OpenLocs, FileLocs, EmptyLocs
  <1>3. LibInv(d)' BY DEF LibInv, XpdevInv, IsOpen
  <1>4. XpdevInv(d)' BY DEF XpdevInv
  <1>5. IrqInv(d)' BY DEF IrqInv
  <1>6. FileInv(d)' BY DEF FileInv, HasFiles, IsOpen, Created, LibInv
  <1>7. RegionInv(d)' BY DEF RegionInv, XpdevInv
  <1> QED BY <1>1, <1>2, <1>3, <1>4, <1>5, <1>6, <1>7, DeviceStep

LEMMA xpdev_freeKeeps == ASSUME IInv, NEW d \in Devices, xpdev_free(d) PROVE IInv'
  <1> USE DEF xpdev_free, Goto, irqVars, xpdev_destroy_interfaces, file_destroy_interfaces, Unregister
  <1>0. TypeOK /\ DevInv(d) BY DEF IInv
  <1>1. TypeOK'
    <2>1. CASE UNCHANGED nodes
      <3>1. region' \in [Devices -> SUBSET Majors] BY <1>0, <2>1, RegionTyped DEF TypeOK
      <3> QED BY <1>0, <2>1, <3>1 DEF TypeOK, Locations
    <2>2. ASSUME NEW t \in Types, file_destroy_interfaces(d, t, "free") PROVE TypeOK'
      BY <1>0, <2>2, Shorter DEF TypeOK, Locations
    <2> QED BY <2>1, <2>2
  <1>2. \A e \in Devices \ {d} : Keeps(e) BY <1>0 DEF TypeOK, Keeps
  <1> USE <1>0 DEF DevInv, TypeOK, CreateLocs, HandlerLocs, MsiLocs, OpenLocs, FileLocs, EmptyLocs
  <1>3. LibInv(d)' BY DEF LibInv, XpdevInv, IsOpen, FileInv, HasFiles
  <1>4. XpdevInv(d)' BY DEF XpdevInv
  <1>5. IrqInv(d)' BY DEF IrqInv
  <1>6. FileInv(d)' BY DEF FileInv, HasFiles, IsOpen, Created, LibInv
  <1>7. RegionInv(d)' BY OneRegion DEF RegionInv, XpdevInv
  <1> QED BY <1>1, <1>2, <1>3, <1>4, <1>5, <1>6, <1>7, DeviceStep

LEMMA CloseDeviceKeeps == ASSUME IInv, NEW d \in Devices, CloseDevice(d) PROVE IInv'
  <1> USE DEF CloseDevice, Goto, irqVars, DeviceLib!CallClose, DeviceLib!Becomes, DeviceLib!Kinds
  <1>0. TypeOK /\ DevInv(d) BY DEF IInv
  <1>1. TypeOK'
    <2>1. xpdev' \in [Devices -> Xpdev]
      BY <1>0, FlagTyped
    <2> QED BY <1>0, <2>1 DEF TypeOK, Locations, Xpdev
  <1>2. \A e \in Devices \ {d} : Keeps(e) BY <1>0 DEF TypeOK, Keeps
  <1> USE <1>0 DEF DevInv, TypeOK, CreateLocs, HandlerLocs, MsiLocs, OpenLocs, FileLocs, EmptyLocs
  <1>3. LibInv(d)' BY DEF LibInv, XpdevInv, IsOpen
  <1>4. XpdevInv(d)' BY DEF XpdevInv
  <1>5. IrqInv(d)' BY DEF IrqInv
  <1>6. FileInv(d)' BY DEF FileInv, HasFiles, NoNodes, Created
  <1>7. RegionInv(d)' BY DEF RegionInv, XpdevInv
  <1> QED BY <1>1, <1>2, <1>3, <1>4, <1>5, <1>6, <1>7, DeviceStep

LEMMA DeviceClosedKeeps == ASSUME IInv, NEW d \in Devices, DeviceClosed(d) PROVE IInv'
  <1> USE DEF DeviceClosed, Goto, irqVars, DeviceLib!Closed, DeviceLib!Becomes
  <1>0. TypeOK /\ DevInv(d) BY DEF IInv
  <1>1. TypeOK' BY <1>0 DEF TypeOK, Locations
  <1>2. \A e \in Devices \ {d} : Keeps(e) BY <1>0 DEF TypeOK, Keeps
  <1> USE <1>0 DEF DevInv, TypeOK, CreateLocs, HandlerLocs, MsiLocs, OpenLocs, FileLocs, EmptyLocs
  <1>3. LibInv(d)' BY DEF LibInv, XpdevInv, IsOpen
  <1>4. XpdevInv(d)' BY DEF XpdevInv
  <1>5. IrqInv(d)' BY DEF IrqInv
  <1>6. FileInv(d)' BY DEF FileInv, HasFiles, IsOpen, Created, LibInv
  <1>7. RegionInv(d)' BY DEF RegionInv, XpdevInv
  <1> QED BY <1>1, <1>2, <1>3, <1>4, <1>5, <1>6, <1>7, DeviceStep

LEMMA FreeXpdevKeeps == ASSUME IInv, NEW d \in Devices, FreeXpdev(d) PROVE IInv'
  <1> USE DEF FreeXpdev, Goto, irqVars
  <1>0. TypeOK /\ DevInv(d) BY DEF IInv
  <1>1. TypeOK' BY <1>0 DEF TypeOK, Locations
  <1>2. \A e \in Devices \ {d} : Keeps(e) BY <1>0 DEF TypeOK, Keeps
  <1> USE <1>0 DEF DevInv, TypeOK, CreateLocs, HandlerLocs, MsiLocs, OpenLocs, FileLocs, EmptyLocs
  <1>3. LibInv(d)' BY DEF LibInv, XpdevInv, IsOpen
  <1>4. XpdevInv(d)' BY DEF XpdevInv
  <1>5. IrqInv(d)' BY DEF IrqInv
  <1>6. FileInv(d)' BY DEF FileInv, HasFiles, IsOpen, Created, LibInv
  <1>7. RegionInv(d)' BY DEF RegionInv, XpdevInv
  <1> QED BY <1>1, <1>2, <1>3, <1>4, <1>5, <1>6, <1>7, DeviceStep

LEMMA InterruptStartsKeeps == ASSUME IInv, NEW d \in Devices, InterruptStarts(d) PROVE IInv'
  <1> USE DEF InterruptStarts, Goto, irqVars
  <1>0. TypeOK /\ DevInv(d) BY DEF IInv
  <1>1. TypeOK' BY <1>0 DEF TypeOK, Locations
  <1>2. \A e \in Devices \ {d} : Keeps(e) BY <1>0 DEF TypeOK, Keeps
  <1> USE <1>0 DEF DevInv, TypeOK, CreateLocs, HandlerLocs, MsiLocs, OpenLocs, FileLocs, EmptyLocs
  <1>3. LibInv(d)' BY DEF LibInv, XpdevInv, IsOpen
  <1>4. XpdevInv(d)' BY DEF XpdevInv
  <1>5. IrqInv(d)' BY DEF IrqInv
  <1>6. FileInv(d)' BY DEF FileInv, HasFiles, IsOpen, Created, LibInv
  <1>7. RegionInv(d)' BY DEF RegionInv, XpdevInv
  <1> QED BY <1>1, <1>2, <1>3, <1>4, <1>5, <1>6, <1>7, DeviceStep

LEMMA xgpu_msi_interruptKeeps == ASSUME IInv, NEW d \in Devices, xgpu_msi_interrupt(d) PROVE IInv'
  <1> USE DEF xgpu_msi_interrupt, Goto, irqVars
  <1>0. TypeOK /\ DevInv(d) BY DEF IInv
  <1>1. TypeOK' BY <1>0 DEF TypeOK, Locations
  <1>2. \A e \in Devices \ {d} : Keeps(e) BY <1>0 DEF TypeOK, Keeps
  <1> USE <1>0 DEF DevInv, TypeOK, CreateLocs, HandlerLocs, MsiLocs, OpenLocs, FileLocs, EmptyLocs
  <1>3. LibInv(d)' BY DEF LibInv, XpdevInv, IsOpen
  <1>4. XpdevInv(d)' BY DEF XpdevInv
  <1>5. IrqInv(d)' BY DEF IrqInv
  <1>6. FileInv(d)' BY DEF FileInv, HasFiles, IsOpen, Created, LibInv
  <1>7. RegionInv(d)' BY DEF RegionInv, XpdevInv
  <1> QED BY <1>1, <1>2, <1>3, <1>4, <1>5, <1>6, <1>7, DeviceStep

(***************************************************************************)
(* The invariant, and what it gives.                                       *)
(***************************************************************************)

LEMMA InitInv == Init => IInv
  <1> SUFFICES ASSUME Init PROVE IInv OBVIOUS
  <1> USE DEF Init, DeviceLib!Init
  <1>1. TypeOK
    <2>1. nodes \in [Devices -> [Types -> Nat]] BY DEF NoNodes
    <2>2. \A d \in Devices, t \in Types : nodes[d][t] =< NodeCount[t]
      BY NodeCountAssumption DEF NoNodes
    <2>3. xpdev \in [Devices -> Xpdev] BY DEF NoXpdev, Xpdev
    <2> QED BY <2>1, <2>2, <2>3 DEF TypeOK, Locations, Xpdev
  <1>2. ASSUME NEW d \in Devices PROVE DevInv(d)
    <2>1. mpc[d] = "idle" /\ lib[d] = "closed" /\ nodes[d] = NoNodes /\ region[d] = {}
      OBVIOUS
    <2>2. ~xpdev[d].live BY DEF NoXpdev
    <2>3. ~HasFiles(d) BY <2>1 DEF HasFiles, NoNodes
    <2> USE DEF CreateLocs, HandlerLocs, MsiLocs, OpenLocs
    <2>4. LibInv(d) BY <2>1 DEF LibInv
    <2>5. XpdevInv(d) BY <2>1, <2>2 DEF XpdevInv
    <2>6. IrqInv(d) BY <2>1 DEF IrqInv
    <2>7. FileInv(d) BY <2>1, <2>3 DEF FileInv
    <2>8. RegionInv(d) BY <2>1 DEF RegionInv
    <2> QED BY <2>4, <2>5, <2>6, <2>7, <2>8 DEF DevInv
  <1> QED BY <1>1, <1>2 DEF IInv

LEMMA NextKeeps == ASSUME IInv, Next PROVE IInv'
  <1>1. PICK d \in Devices :
          \/ Probe(d) \/ remove_one(d) \/ ThreadStep(d)
          \/ InterruptStarts(d) \/ xgpu_msi_interrupt(d)
    BY DEF Next
  <1>2. CASE ProbeStep(d)
    BY <1>2, xpdev_allocKeeps, OpenDeviceKeeps, DeviceOpenedKeeps, OpenCleansUpKeeps,
       OpenFailedKeeps, EnableMsiKeeps, RequestIrqKeeps, NewNodeKeeps, create_xcdevKeeps,
       UnregisterNodeKeeps, FailTypeKeeps, FailAllKeeps, ProbeReturnsKeeps DEF ProbeStep
  <1>3. CASE RemoveStep(d)
    BY <1>3, FreeIrqKeeps, DisableMsiKeeps, xpdev_freeKeeps, CloseDeviceKeeps,
       DeviceClosedKeeps, FreeXpdevKeeps DEF RemoveStep
  <1> QED
    BY <1>1, <1>2, <1>3, ProbeKeeps, remove_oneKeeps, InterruptStartsKeeps,
       xgpu_msi_interruptKeeps DEF ThreadStep

LEMMA StutterKeeps == ASSUME IInv, UNCHANGED vars PROVE IInv'
  <1>1. TypeOK' BY DEF vars, IInv, TypeOK
  <1>2. ASSUME NEW d \in Devices PROVE DevInv(d)'
    <2>1. Keeps(d) BY DEF vars, Keeps
    <2> QED BY <2>1, Frame DEF IInv
  <1> QED BY <1>1, <1>2 DEF IInv

(* At every step of every probe and remove a device holds exactly what its *)
(* location says, whatever the other devices do.                           *)
THEOREM ModuleInvariant == Spec => []IInv
  <1>1. Init => IInv BY InitInv
  <1>2. IInv /\ [Next]_vars => IInv' BY NextKeeps, StutterKeeps
  <1> QED BY <1>1, <1>2, PTL DEF Spec

(* Type correctness: also, no list grows longer than its table.            *)
THEOREM ModuleTypes == Spec => []TypeOK
  <1>1. IInv => TypeOK BY DEF IInv
  <1> QED BY <1>1, ModuleInvariant, PTL

(* The handler of probe_one only runs on a device the library has open and *)
(* that has MSI enabled.                                                   *)
THEOREM HandlersHaveDevices == Spec => []HandlerHasDevice
  <1>1. IInv => HandlerHasDevice
    <2> SUFFICES ASSUME IInv, NEW d \in handler \cup in_handler
                 PROVE  IsOpen(d) /\ d \in msi_on
      BY DEF HandlerHasDevice
    <2>1. d \in Devices /\ DevInv(d) /\ mpc[d] \in Locations BY DEF IInv, TypeOK
    <2>2. d \in msi_on BY <2>1 DEF DevInv, IrqInv
    <2>3. mpc[d] \in {"oops"} \cup MsiLocs BY <2>1, <2>2 DEF DevInv, IrqInv
    <2> QED BY <2>1, <2>2, <2>3 DEF DevInv, LibInv, IsOpen
  <1> QED BY <1>1, ModuleInvariant, PTL

(* As long as a device has a file, the library has it open.                *)
THEOREM FilesHaveDevices == Spec => []FilesHaveDevice
  <1>1. IInv => FilesHaveDevice
    <2> SUFFICES ASSUME IInv, NEW d \in Devices, HasFiles(d)
                 PROVE  IsOpen(d) /\ xpdev[d].live
      BY DEF FilesHaveDevice, HasFiles
    <2>1. DevInv(d) BY DEF IInv
    <2>2. IsOpen(d) BY <2>1 DEF DevInv, FileInv
    <2>3. mpc[d] \notin {"idle", "alloc"} BY <2>1, <2>2 DEF DevInv, LibInv, IsOpen
    <2> QED BY <2>1, <2>2, <2>3 DEF DevInv, XpdevInv
  <1> QED BY <1>1, ModuleInvariant, PTL

(* A probe that failed, at any call, and a remove leave nothing behind.    *)
THEOREM IdleDevicesHoldNothing == Spec => []IdleHoldsNothing
  <1>1. IInv => IdleHoldsNothing
    <2> SUFFICES ASSUME IInv, NEW d \in Devices, mpc[d] = "idle"
                 PROVE  /\ lib[d] = "closed" /\ ~xpdev[d].live /\ d \notin drvdata
                        /\ d \notin msi_on \cup handler \cup in_handler
                        /\ region[d] = {} /\ nodes[d] = NoNodes
      BY DEF IdleHoldsNothing
    <2>1. DevInv(d) BY DEF IInv
    <2> USE <2>1 DEF DevInv, CreateLocs, HandlerLocs, MsiLocs, FileLocs, EmptyLocs
    <2>2. lib[d] = "closed" /\ ~xpdev[d].live /\ d \notin drvdata BY DEF LibInv, XpdevInv
    <2>3. d \notin msi_on \cup handler \cup in_handler BY DEF IrqInv
    <2>4. region[d] = {} /\ nodes[d] = NoNodes BY DEF RegionInv, FileInv
    <2> QED BY <2>2, <2>3, <2>4
  <1> QED BY <1>1, ModuleInvariant, PTL

(* A probe that succeeded has everything, and all files.                   *)
THEOREM BoundDevicesHoldAll == Spec => []BoundHoldsAll
  <1>1. IInv => BoundHoldsAll
    <2> SUFFICES ASSUME IInv, NEW d \in Devices, mpc[d] = "bound"
                 PROVE  /\ lib[d] = "intx" /\ xpdev[d].live /\ xpdev[d].xdev /\ d \in drvdata
                        /\ d \in msi_on /\ d \in handler
                        /\ Created(d) /\ xpdev[d].major # 0
      BY DEF BoundHoldsAll
    <2>1. DevInv(d) BY DEF IInv
    <2> USE <2>1 DEF DevInv, HandlerLocs, MsiLocs, OpenLocs
    <2>2. lib[d] = "intx" /\ xpdev[d].live /\ xpdev[d].xdev /\ d \in drvdata
      BY DEF LibInv, XpdevInv
    <2>3. d \in msi_on /\ d \in handler BY DEF IrqInv
    <2>4. Created(d) BY DEF FileInv
    <2>5. xpdev[d].major # 0 BY <2>4, CreatedHasFiles DEF FileInv
    <2> QED BY <2>2, <2>3, <2>4, <2>5
  <1> QED BY <1>1, ModuleInvariant, PTL

(* No region is lost, whichever failures two devices meet: one that is     *)
(* allocated is the one its device will unregister.                        *)
THEOREM RegionsAreKnown == Spec => []RegionKnown
  <1>1. IInv => RegionKnown BY DEF IInv, DevInv, RegionInv, RegionKnown
  <1> QED BY <1>1, ModuleInvariant, PTL

-----------------------------------------------------------------------------
=============================================================================
