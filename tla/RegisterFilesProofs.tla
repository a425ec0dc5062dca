------------------------ MODULE RegisterFilesProofs ------------------------
(***************************************************************************)
(* Proofs about RegisterFiles, for any devices, clients and length of the  *)
(* table: what an operation has loaded from pcimap_addr stays mapped until *)
(* it has used it.                                                         *)
(***************************************************************************)
EXTENDS RegisterFiles, TLAPS

(***************************************************************************)
(* The inductive invariant.                                                *)
(***************************************************************************)

(* The files that are live are of those probe has come past.               *)
ProbeInv(d) ==
  /\ stage[d] = "add" => next[d] <= Nodes
  /\ \A n \in files[d] : n < next[d]

(* A device has mapped its BAR if it has had a file, or is to get one.     *)
HasMapped(d) == next[d] > 1 \/ stage[d] = "add"

MapInv ==
  /\ pcimap_addr \in mappings \cup {NoAddr}
  /\ iomap_failed = {} => \A d \in Devices : HasMapped(d) => pcimap_addr # NoAddr

(* An open file has had a mapping before it; a read or write that has      *)
(* begun has found the position 0.                                         *)
ClientInv(c) ==
  /\ file[c] # NoFile => next[file[c].dev] > 1
  /\ op[c].addr \in mappings \cup {NoAddr}
  /\ Pending(c) /\ iomap_failed = {} => op[c].addr # NoAddr
  /\ Pending(c) /\ Moves(op[c].kind) => pos[c] = 0

IInv ==
  /\ TypeOK /\ MapInv
  /\ \A d \in Devices : ProbeInv(d)
  /\ \A c \in Clients : ClientInv(c)

(***************************************************************************)
(* Creating the files, and the error path.                                 *)
(***************************************************************************)

(* No device file has a number as small as the index of a register item:   *)
(* cdev_register_exit is never called.                                     *)
LEMMA NoRegisterItem == ASSUME NEW d \in Devices PROVE ~IsRegisterItem(d, 1)
  <1>1. Major[d] \in Nat /\ Major[d] > 0 BY MajorAssumption
  <1>2. MKDEV(Major[d], Minor(1)) >= item_register_max
    BY <1>1, NodesAssumption DEF MKDEV, Minor, item_config_max, item_register_max, MinorRange
  <1> QED BY <1>1, <1>2, NodesAssumption
    DEF IsRegisterItem, MKDEV, Minor, item_config_max, item_register_max, MinorRange

LEMMA cdev_register_initKeeps ==
  ASSUME IInv, NEW d \in Devices, cdev_register_init(d), UNCHANGED tpc PROVE IInv'
  <1>1. next[d] \in 1..Nodes
    BY NodesAssumption DEF IInv, TypeOK, cdev_register_init, MoreFiles
  <1>2. <<d, next[d]>> \in Mapping BY <1>1 DEF Mapping
  <1>3. <<d, next[d]>> # NoAddr BY <1>2, NoAddrAssumption
  <1>4. TypeOK'
    BY <1>2, NodesAssumption DEF IInv, TypeOK, cdev_register_init, Mapped, clientVars
  <1>5. MapInv'
    BY <1>3 DEF IInv, TypeOK, MapInv, cdev_register_init, Mapped
  <1>6. ASSUME NEW e \in Devices PROVE ProbeInv(e)'
    BY <1>1, NodesAssumption DEF IInv, TypeOK, ProbeInv, cdev_register_init
  <1>7. ASSUME NEW c \in Clients PROVE ClientInv(c)'
    BY DEF IInv, ClientInv, cdev_register_init, Mapped, clientVars, Pending, Moves
  <1> QED BY <1>4, <1>5, <1>6, <1>7 DEF IInv

LEMMA cdev_addKeeps ==
  ASSUME IInv, NEW d \in Devices, cdev_add(d) PROVE IInv'
  <1> USE NodesAssumption
  <1>1. next[d] \in 1..Nodes BY DEF IInv, TypeOK, ProbeInv, cdev_add
  <1>2. TypeOK'
    <2>1. next' \in [Devices -> 1..Nodes + 1] BY <1>1 DEF IInv, TypeOK, cdev_add
    <2> QED BY <1>1, <2>1 DEF IInv, TypeOK, cdev_add, clientVars
  <1>3. MapInv' BY <1>1 DEF IInv, TypeOK, MapInv, HasMapped, cdev_add
  <1>4. ASSUME NEW e \in Devices PROVE ProbeInv(e)'
    <2>1. next[e] \in 1..Nodes + 1 /\ files[e] \subseteq 1..Nodes BY DEF IInv, TypeOK
    <2>2. ProbeInv(e) BY DEF IInv
    <2> QED BY <1>1, <2>1, <2>2 DEF IInv, TypeOK, ProbeInv, cdev_add
  <1>5. ASSUME NEW c \in Clients PROVE ClientInv(c)'
    BY <1>1 DEF IInv, TypeOK, ClientInv, cdev_add, clientVars, Pending, Moves, NoFile
  <1> QED BY <1>2, <1>3, <1>4, <1>5 DEF IInv

(* The steps of probe that leave the mapping as it is.                     *)
LEMMA EndsKeep ==
  ASSUME IInv, NEW d \in Devices, CreateFails(d) \/ file_destroy_interfaces(d)
  PROVE  IInv'
  <1>1. /\ \E s \in {"destroy", "gone", "oops"} : stage' = [stage EXCEPT ![d] = s]
        /\ \E n \in SUBSET {1} : files' = [files EXCEPT ![d] = @ \ n]
        /\ UNCHANGED <<next, pcimap_addr, mappings, iomap_failed, clientVars, tpc>>
    <2>1. CASE CreateFails(d)
      <3>1. files' = [files EXCEPT ![d] = @ \ {}] BY <2>1 DEF CreateFails, IInv, TypeOK
      <3> QED BY <2>1, <3>1 DEF CreateFails
    <2>2. CASE file_destroy_interfaces(d)
      <3>1. \/ files' = [files EXCEPT ![d] = @ \ {1}]
            \/ files' = [files EXCEPT ![d] = @ \ {}]
        BY <2>2 DEF file_destroy_interfaces, IInv, TypeOK
      <3> QED BY <2>2, <3>1, NoRegisterItem DEF file_destroy_interfaces
    <2> QED BY <2>1, <2>2
  <1>2. TypeOK' BY <1>1 DEF IInv, TypeOK, clientVars
  <1>3. MapInv' BY <1>1 DEF IInv, TypeOK, MapInv, HasMapped
  <1>4. ASSUME NEW e \in Devices PROVE ProbeInv(e)' BY <1>1 DEF IInv, TypeOK, ProbeInv
  <1>5. ASSUME NEW c \in Clients PROVE ClientInv(c)'
    BY <1>1 DEF IInv, ClientInv, clientVars, Pending, Moves
  <1> QED BY <1>2, <1>3, <1>4, <1>5 DEF IInv

(***************************************************************************)
(* The operations on an open file.                                         *)
(***************************************************************************)

(* A step of one client that keeps the types of what clients have, and     *)
(* this client's conjunct, keeps the invariant.                            *)
ClientTypes ==
  /\ file \in [Clients -> [dev : Devices, node : 1..Nodes] \cup {NoFile}]
  /\ pos \in [Clients -> {0, 4}] /\ value \in [Clients -> 0..Values - 1]
  /\ op \in [Clients -> [kind : Kinds \cup {"none", "oops"}, addr : Mapping \cup {NoAddr}]]
  /\ reg \in [Devices -> 0..Values - 1]

LEMMA ClientStep ==
  ASSUME IInv, NEW c \in Clients, UNCHANGED probeVars,
         \A b \in Clients \ {c} : file'[b] = file[b] /\ pos'[b] = pos[b] /\ op'[b] = op[b],
         ClientTypes', ClientInv(c)', tpc' \in 1..13
  PROVE  IInv'
  <1>1. TypeOK' BY DEF IInv, TypeOK, ClientTypes, probeVars
  <1>2. MapInv' BY DEF IInv, MapInv, HasMapped, probeVars
  <1>3. ASSUME NEW e \in Devices PROVE ProbeInv(e)' BY DEF IInv, ProbeInv, probeVars
  <1>4. ASSUME NEW b \in Clients \ {c} PROVE ClientInv(b)'
    BY DEF IInv, ClientInv, Pending, Moves, probeVars
  <1> QED BY <1>1, <1>2, <1>3, <1>4 DEF IInv

LEMMA char_openKeeps ==
  ASSUME IInv, NEW c \in Clients, NEW d \in Devices, NEW n \in 1..Nodes,
         char_open(c, d, n), tpc' \in 1..13
  PROVE  IInv'
  <1>1. next[d] > 1
    BY NodesAssumption DEF IInv, TypeOK, ProbeInv, char_open
  <1>2. ClientTypes' BY DEF IInv, TypeOK, ClientTypes, char_open
  <1>3. ClientInv(c)'
    BY <1>1, NodesAssumption
    DEF IInv, TypeOK, ClientInv, char_open, probeVars, Pending, Moves, NoFile
  <1> QED BY <1>2, <1>3, ClientStep DEF char_open, IInv, TypeOK

LEMMA char_closeKeeps ==
  ASSUME IInv, NEW c \in Clients, char_close(c), tpc' \in 1..13 PROVE IInv'
  <1>1. ClientTypes' BY DEF IInv, TypeOK, ClientTypes, char_close
  <1>2. ClientInv(c)'
    BY DEF IInv, TypeOK, ClientInv, char_close, probeVars, Pending, Moves, NoOp
  <1> QED BY <1>1, <1>2, ClientStep DEF char_close, IInv, TypeOK

LEMMA ClientSetsKeeps ==
  ASSUME IInv, NEW c \in Clients, NEW v \in 0..Values - 1, ClientSets(c, v), tpc' \in 1..13
  PROVE  IInv'
  <1>1. ClientTypes' BY DEF IInv, TypeOK, ClientTypes, ClientSets
  <1>2. ClientInv(c)' BY DEF IInv, ClientInv, ClientSets, probeVars, Pending, Moves
  <1> QED BY <1>1, <1>2, ClientStep DEF ClientSets

(* What is loaded is mapped, or NULL after a mapping has failed: a file    *)
(* that is open has had a mapping before it.                               *)
LEMMA LoadKeeps ==
  ASSUME IInv, NEW c \in Clients, NEW kind \in Kinds, Load(c, kind), tpc' \in 1..13
  PROVE  IInv'
  <1>1. op'[c] = [kind |-> kind, addr |-> pcimap_addr] BY DEF Load, IInv, TypeOK
  <1>2. ClientTypes'
    <2>1. [kind |-> kind, addr |-> pcimap_addr] \in
            [kind : Kinds \cup {"none", "oops"}, addr : Mapping \cup {NoAddr}]
      BY DEF IInv, TypeOK
    <2> QED BY <2>1 DEF IInv, TypeOK, ClientTypes, Load
  <1>3. file[c].dev \in Devices /\ next[file[c].dev] > 1
    BY DEF IInv, TypeOK, ClientInv, Load
  <1>4. ClientInv(c)'
    <2>1. op'[c].addr = pcimap_addr /\ op'[c].kind = kind BY <1>1
    <2>2. (op[c].addr \in mappings \cup {NoAddr})' BY <2>1 DEF IInv, MapInv, Load, probeVars
    <2>3. (iomap_failed = {})' => op'[c].addr # NoAddr
      BY <2>1, <1>3 DEF IInv, MapInv, HasMapped, Load, probeVars
    <2>4. Moves(op[c].kind)' => pos'[c] = 0
      BY <2>1 DEF IInv, TypeOK, Load, Permitted, Moves
    <2> QED BY <1>3, <2>2, <2>3, <2>4 DEF ClientInv, Load, probeVars
  <1> QED BY <1>2, <1>4, ClientStep DEF Load, IInv, TypeOK

LEMMA AccessKeeps ==
  ASSUME IInv, NEW c \in Clients, Access(c), UNCHANGED tpc PROVE IInv'
  <1>1. op[c].addr[1] \in Devices
    BY DEF IInv, TypeOK, Access, AddrMapped, Mapping
  <1>2. reg[op[c].addr[1]] \in 0..Values - 1 /\ value[c] \in 0..Values - 1
    BY <1>1 DEF IInv, TypeOK
  <1>3. reg' \in [Devices -> 0..Values - 1]
    BY <1>1, <1>2 DEF IInv, TypeOK, Access, RegAfter
  <1>4. value' \in [Clients -> 0..Values - 1]
    BY <1>2 DEF IInv, TypeOK, Access
  <1>5. pos' \in [Clients -> {0, 4}]
    <2>1. Moves(op[c].kind) => pos[c] = 0 BY DEF IInv, ClientInv, Access
    <2> QED BY <2>1 DEF IInv, TypeOK, Access
  <1>6. op' \in [Clients -> [kind : Kinds \cup {"none", "oops"}, addr : Mapping \cup {NoAddr}]]
    BY DEF IInv, TypeOK, Access, NoOp
  <1>7. op'[c] = NoOp BY DEF IInv, TypeOK, Access
  <1>8. ClientInv(c)'
    BY <1>7 DEF IInv, ClientInv, Access, probeVars, Pending, NoOp
  <1> QED BY <1>3, <1>4, <1>5, <1>6, <1>8, ClientStep DEF Access, IInv, TypeOK, ClientTypes

LEMMA AccessFaultsKeeps ==
  ASSUME IInv, NEW c \in Clients, AccessFaults(c), UNCHANGED tpc PROVE IInv'
  <1>1. op'[c] = [op[c] EXCEPT !.kind = "oops"] BY DEF IInv, TypeOK, AccessFaults
  <1>2. op'[c].kind = "oops" /\ op'[c].addr = op[c].addr BY <1>1 DEF IInv, TypeOK
  <1>3. ClientTypes' BY DEF IInv, TypeOK, ClientTypes, AccessFaults
  <1>4. ClientInv(c)'
    BY <1>2 DEF IInv, ClientInv, AccessFaults, probeVars, Pending
  <1> QED BY <1>3, <1>4, ClientStep DEF AccessFaults, IInv, TypeOK

(***************************************************************************)
(* The clients and the test program.                                       *)
(***************************************************************************)

LEMMA OtherKeeps == ASSUME IInv, NEW c \in Clients, OtherStep(c) PROVE IInv'
  <1>1. tpc' \in 1..13 BY DEF IInv, TypeOK, OtherStep
  <1> QED BY <1>1, char_openKeeps, char_closeKeeps, ClientSetsKeeps, LoadKeeps DEF OtherStep

LEMMA TestKeeps == ASSUME IInv, TestStep PROVE IInv'
  <1>1. Tester \in Clients BY DEF Clients
  <1>2. tpc' \in 1..13
    BY DEF IInv, TypeOK, TestStep, TestOpens, TestCalls, TestIncrements, TestWrites, TestCloses
  <1>3. CASE TestOpens
    BY <1>1, <1>2, <1>3, char_openKeeps, NodesAssumption, TesterAssumption DEF TestOpens
  <1>4. CASE TestCalls
    <2>1. CASE Load(Tester, TestCall(tpc))
      <3>1. TestCall(tpc) \in Kinds BY <1>4 DEF TestCalls, TestCall, Kinds
      <3> QED BY <1>1, <1>2, <2>1, <3>1, LoadKeeps
    <2>2. CASE Refused(Tester, TestCall(tpc))
      <3>1. ClientTypes' BY <2>2 DEF IInv, TypeOK, ClientTypes, Refused, clientVars
      <3>2. ClientInv(Tester)'
        BY <1>1, <2>2 DEF IInv, ClientInv, Refused, probeVars, clientVars, Pending, Moves
      <3> QED BY <1>1, <1>2, <2>2, <3>1, <3>2, ClientStep DEF Refused, clientVars
    <2> QED BY <1>4, <2>1, <2>2 DEF TestCalls
  <1>5. CASE TestIncrements
    <2>1. value[Tester] \in 0..Values - 1 BY <1>1 DEF IInv, TypeOK
    <2>2. (value[Tester] + 1) % Values \in 0..Values - 1 BY <2>1, ValuesAssumption
    <2> QED BY <1>1, <1>2, <1>5, <2>2, ClientSetsKeeps DEF TestIncrements
  <1>6. CASE TestWrites
    <2>1. ClientTypes' BY <1>6 DEF IInv, TypeOK, ClientTypes, TestWrites, clientVars
    <2>2. ClientInv(Tester)'
      BY <1>1, <1>6 DEF IInv, ClientInv, TestWrites, probeVars, clientVars, Pending, Moves
    <2> QED BY <1>1, <1>2, <1>6, <2>1, <2>2, ClientStep DEF TestWrites, clientVars
  <1>7. CASE TestCloses
    BY <1>1, <1>2, <1>7, char_closeKeeps DEF TestCloses
  <1> QED BY <1>3, <1>4, <1>5, <1>6, <1>7 DEF TestStep

(***************************************************************************)
(* The theorems.                                                           *)
(***************************************************************************)

LEMMA InitInv == Init => IInv
  <1> SUFFICES ASSUME Init PROVE IInv OBVIOUS
  <1>1. TypeOK BY NodesAssumption, ValuesAssumption DEF Init, TypeOK, NoOp
  <1>2. MapInv BY DEF Init, MapInv, HasMapped
  <1>3. ASSUME NEW d \in Devices PROVE ProbeInv(d) BY DEF Init, ProbeInv
  <1>4. ASSUME NEW c \in Clients PROVE ClientInv(c)
    BY DEF Init, ClientInv, Pending, NoOp
  <1> QED BY <1>1, <1>2, <1>3, <1>4 DEF IInv

LEMMA NextKeeps == ASSUME IInv, [Next]_vars PROVE IInv'
  <1>1. ASSUME NEW d \in Devices, ProbeStep(d) PROVE IInv'
    BY <1>1, cdev_register_initKeeps, cdev_addKeeps, EndsKeep
    DEF ProbeStep, cdev_register_init, cdev_add
  <1>2. ASSUME NEW c \in Clients, AccessStep(c) PROVE IInv'
    BY <1>2, AccessKeeps, AccessFaultsKeeps DEF AccessStep
  <1>3. CASE UNCHANGED vars
    BY <1>3 DEF IInv, TypeOK, MapInv, HasMapped, ProbeInv, ClientInv, Pending, Moves,
                vars, probeVars, clientVars
  <1> QED BY <1>1, <1>2, <1>3, OtherKeeps, TestKeeps DEF Next, Clients

(* The invariant holds of any number of probes, clients and operations.    *)
THEOREM RegisterInvariant == Spec => []IInv
  BY InitInv, NextKeeps, PTL DEF Spec

(* The types of all that probe, the clients and the test program use.      *)
THEOREM RegisterTypes == Spec => []TypeOK
  <1>1. IInv => TypeOK BY DEF IInv
  <1> QED BY <1>1, RegisterInvariant, PTL

(* What an operation has loaded from pcimap_addr is mapped when it uses    *)
(* it, as long as the BARs could be mapped, whoever replaces it meanwhile. *)
THEOREM LoadedStaysMapped == Spec => []AccessMapped
  <1>1. IInv => AccessMapped BY DEF IInv, ClientInv, AccessMapped, AddrMapped
  <1> QED BY <1>1, RegisterInvariant, PTL
=============================================================================
