--------------------------- MODULE RegisterFiles ---------------------------
(***************************************************************************)
(* The register files of xgpu_drv/cdev_register.c, and the test program    *)
(* xgpu_drv/test/test.cpp, which uses them.  All of them go through        *)
(* pcimap_addr, one mapping of BAR 5 that is replaced whenever a register  *)
(* file of any device is created; an operation loads it and then accesses  *)
(* what it has loaded.                                                     *)
(*                                                                         *)
(* File 1 of a device is "register", which takes ioctls only, the others   *)
(* are for one register each.  One register of each device is modelled,    *)
(* that of file 2, which is also the one the ioctls address.               *)
(***************************************************************************)
EXTENDS Integers

CONSTANTS
  Devices,
  Major,         \* Major[d]: the major number of a device's files
  Nodes,         \* the length of register_items
  Others, Tester, \* the clients: the test program, and others
  TestDevice,    \* the device that is xgpu0
  Values,        \* a register holds 0..Values - 1
  NoAddr         \* the mapping NULL

item_config_max == 7
item_register_max == item_config_max + Nodes
MinorRange == 1048576
MKDEV(major, minor) == major * MinorRange + minor
Minor(n) == item_config_max + n - 1

Clients == Others \cup {Tester}
Mapping == Devices \X (1..Nodes)

(* The files of a device have minor numbers, which are numbers of 20 bits. *)
ASSUME NodesAssumption == Nodes \in Nat /\ Nodes > 1 /\ item_register_max <= MinorRange
ASSUME MajorAssumption == Major \in [Devices -> Nat \ {0}]
ASSUME TesterAssumption == Tester \notin Others /\ TestDevice \in Devices
ASSUME ValuesAssumption == Values \in Nat \ {0}
ASSUME NoAddrAssumption == NoAddr \notin Mapping

VARIABLES
  stage,         \* what probe_one of a device does next with its files
  next,          \* the file it is at
  files,         \* the files of a device that are live
  pcimap_addr,   \* NULL, or whose BAR is mapped, and for which of its files
  mappings,      \* the mappings that exist
  iomap_failed,  \* the devices whose BAR 5 could not be mapped at some time
  file,          \* file[c]: device and node of the open file, node 0 for none
  pos, value,    \* *pos of the file, and the buffer of the client
  op,            \* the operation a client is in, and the mapping it has loaded
  reg,           \* the register of each device
  tpc            \* where the test program is

probeVars == <<stage, next, files, pcimap_addr, mappings, iomap_failed>>
clientVars == <<file, pos, value, op, reg>>
vars == <<probeVars, clientVars, tpc>>

NoFile == [dev |-> NoAddr, node |-> 0]
NoOp == [kind |-> "none", addr |-> NoAddr]

Init ==
  /\ stage = [d \in Devices |-> "init"] /\ next = [d \in Devices |-> 1]
  /\ files = [d \in Devices |-> {}]
  /\ pcimap_addr = NoAddr /\ mappings = {} /\ iomap_failed = {}
  /\ file = [c \in Clients |-> NoFile] /\ pos = [c \in Clients |-> 0]
  /\ value = [c \in Clients |-> 0]
  /\ op = [c \in Clients |-> NoOp]
  /\ reg = [d \in Devices |-> 0]
  /\ tpc = 1

(***************************************************************************)
(* Creating the register files of a device.                                *)
(***************************************************************************)
(* Mutant: the table is taken to be one longer.                            *)
MoreFiles_OneMore(d) == next[d] <= Nodes + 1
MoreFiles(d) == next[d] <= Nodes

(* Mutant: the mapping that is replaced is undone.                         *)
Mapped_UndoesOld(m) == (mappings \ {pcimap_addr}) \cup {m}
Mapped(m) == mappings \cup {m}

cdev_register_init(d) ==
  /\ stage[d] = "init" /\ MoreFiles(d)
  /\ stage' = [stage EXCEPT ![d] = "add"]
  /\ \/ /\ pcimap_addr' = <<d, next[d]>>
        /\ mappings' = Mapped(<<d, next[d]>>)
        /\ UNCHANGED iomap_failed
     \/ /\ pcimap_addr' = NoAddr
        /\ iomap_failed' = iomap_failed \cup {d}
        /\ UNCHANGED mappings
  /\ UNCHANGED <<next, files, clientVars, tpc>>

cdev_add(d) ==
  /\ stage[d] = "add"
  /\ stage' = [stage EXCEPT ![d] = "init"]
  /\ next' = [next EXCEPT ![d] = @ + 1]
  /\ files' = [files EXCEPT ![d] = @ \cup {next[d]}]
  /\ UNCHANGED <<pcimap_addr, mappings, iomap_failed, clientVars, tpc>>

(* A call that creates this file, or one after the register files, fails.  *)
CreateFails(d) ==
  /\ stage[d] \in {"init", "add"}
  /\ stage' = [stage EXCEPT ![d] = "destroy"]
  /\ UNCHANGED <<next, files, pcimap_addr, mappings, iomap_failed, clientVars, tpc>>

(* The test for a register file takes the number of the device file, major *)
(* and minor, for the index of the item.                                   *)
IsRegisterItem(d, n) ==
  LET devId == MKDEV(Major[d], Minor(n)) IN
  devId >= item_config_max /\ devId < item_register_max

(* cdev_register_exit                                                      *)
Unmapped == mappings \ {pcimap_addr}

(* The error path: the first file goes, and with it the entry from which   *)
(* list_for_each reads the next one, which ends the thread.                *)
file_destroy_interfaces(d) ==
  /\ stage[d] = "destroy"
  /\ IF files[d] = {}
     THEN /\ stage' = [stage EXCEPT ![d] = "gone"]
          /\ UNCHANGED <<files, pcimap_addr, mappings>>
     ELSE /\ stage' = [stage EXCEPT ![d] = "oops"]
          /\ files' = [files EXCEPT ![d] = @ \ {1}]
          /\ IF IsRegisterItem(d, 1)
             THEN pcimap_addr' = NoAddr /\ mappings' = Unmapped
             ELSE UNCHANGED <<pcimap_addr, mappings>>
  /\ UNCHANGED <<next, iomap_failed, clientVars, tpc>>

(***************************************************************************)
(* The operations on an open file.  A read or write at position 4 returns  *)
(* 0, and one of file 1 an error, before they have done anything; so does  *)
(* one whose buffer cannot be copied.                                      *)
(***************************************************************************)
char_open(c, d, n) ==
  /\ file[c] = NoFile /\ n \in files[d]
  /\ file' = [file EXCEPT ![c] = [dev |-> d, node |-> n]]
  /\ pos' = [pos EXCEPT ![c] = 0]
  /\ UNCHANGED <<probeVars, value, op, reg>>

char_close(c) ==
  /\ file[c] # NoFile /\ op[c] = NoOp
  /\ file' = [file EXCEPT ![c] = NoFile]
  /\ UNCHANGED <<probeVars, pos, value, op, reg>>

(* loc, which counts the register files from 0, has to be above 0.         *)
Permitted(c, kind) ==
  kind \in {"read", "write"} => pos[c] < 4 /\ file[c].node > 1

Load(c, kind) ==
  /\ file[c] # NoFile /\ op[c] = NoOp
  /\ Permitted(c, kind)
  /\ op' = [op EXCEPT ![c] = [kind |-> kind, addr |-> pcimap_addr]]
  /\ UNCHANGED <<probeVars, file, pos, value, reg>>

Refused(c, kind) ==
  /\ file[c] # NoFile /\ op[c] = NoOp
  /\ ~Permitted(c, kind)
  /\ UNCHANGED <<probeVars, clientVars>>

Pending(c) == op[c].kind \in {"read", "write", "ioctl_read", "ioctl_write"}
AddrMapped(c) == op[c].addr \in mappings
Reads(kind) == kind \in {"read", "ioctl_read"}
Moves(kind) == kind \in {"read", "write"}

RegAfter(c) ==
  IF Reads(op[c].kind) THEN reg ELSE [reg EXCEPT ![op[c].addr[1]] = value[c]]

Access(c) ==
  /\ Pending(c) /\ AddrMapped(c)
  /\ reg' = RegAfter(c)
  /\ value' = [value EXCEPT ![c] = IF Reads(op[c].kind) THEN reg[op[c].addr[1]] ELSE @]
  /\ pos' = [pos EXCEPT ![c] = IF Moves(op[c].kind) THEN @ + 4 ELSE @]
  /\ op' = [op EXCEPT ![c] = NoOp]
  /\ UNCHANGED <<probeVars, file>>

(* An access to NULL, or to a mapping that is gone, ends the client.       *)
AccessFaults(c) ==
  /\ Pending(c) /\ ~AddrMapped(c)
  /\ op' = [op EXCEPT ![c] = [@ EXCEPT !.kind = "oops"]]
  /\ UNCHANGED <<probeVars, file, pos, value, reg>>

(***************************************************************************)
(* The clients.  The others do what they like; the test program goes       *)
(* through its steps in order.                                             *)
(***************************************************************************)
Kinds == {"read", "write", "ioctl_read", "ioctl_write"}

ClientSets(c, v) ==
  /\ op[c] = NoOp /\ file[c] # NoFile
  /\ value' = [value EXCEPT ![c] = v]
  /\ UNCHANGED <<probeVars, file, pos, op, reg>>

OtherStep(c) ==
  /\ \/ \E d \in Devices, n \in 1..Nodes : char_open(c, d, n)
     \/ char_close(c)
     \/ \E v \in 0..Values - 1 : ClientSets(c, v)
     \/ \E kind \in Kinds : Load(c, kind)
  /\ UNCHANGED tpc

(* File 2 is opened at step 1 and file 1 at step 7.  At step 4 the program *)
(* writes to what it has opened O_RDONLY, which the kernel refuses.        *)
TestOpens ==
  /\ tpc \in {1, 7}
  /\ char_open(Tester, TestDevice, IF tpc = 1 THEN 2 ELSE 1)
  /\ tpc' = tpc + 1

TestCall(step) ==
  CASE step \in {2, 5} -> "read" [] step \in {8, 11} -> "ioctl_read" [] step = 10 -> "ioctl_write"

TestCalls ==
  /\ tpc \in {2, 5, 8, 10, 11}
  /\ Load(Tester, TestCall(tpc)) \/ Refused(Tester, TestCall(tpc))
  /\ tpc' = tpc + 1

TestIncrements ==
  /\ tpc \in {3, 9}
  /\ ClientSets(Tester, (value[Tester] + 1) % Values)
  /\ tpc' = tpc + 1

TestWrites ==
  /\ tpc = 4
  /\ tpc' = 5
  /\ UNCHANGED <<probeVars, clientVars>>

TestCloses ==
  /\ tpc \in {6, 12}
  /\ char_close(Tester)
  /\ tpc' = tpc + 1

TestStep == TestOpens \/ TestCalls \/ TestIncrements \/ TestWrites \/ TestCloses

AccessStep(c) == (Access(c) \/ AccessFaults(c)) /\ UNCHANGED tpc
ProbeStep(d) ==
  cdev_register_init(d) \/ cdev_add(d) \/ CreateFails(d) \/ file_destroy_interfaces(d)

Next ==
  \/ \E d \in Devices : ProbeStep(d)
  \/ \E c \in Others : OtherStep(c)
  \/ \E c \in Clients : AccessStep(c)
  \/ TestStep

Spec == Init /\ [][Next]_vars

(***************************************************************************)
(* Properties.                                                             *)
(***************************************************************************)

TypeOK ==
  /\ stage \in [Devices -> {"init", "add", "destroy", "gone", "oops"}]
  /\ next \in [Devices -> 1..Nodes + 1]
  /\ files \in [Devices -> SUBSET (1..Nodes)]
  /\ pcimap_addr \in Mapping \cup {NoAddr}
  /\ mappings \subseteq Mapping /\ iomap_failed \subseteq Devices
  /\ file \in [Clients -> [dev : Devices, node : 1..Nodes] \cup {NoFile}]
  /\ pos \in [Clients -> {0, 4}] /\ value \in [Clients -> 0..Values - 1]
  /\ op \in [Clients -> [kind : Kinds \cup {"none", "oops"}, addr : Mapping \cup {NoAddr}]]
  /\ reg \in [Devices -> 0..Values - 1]
  /\ tpc \in 1..13

(* What an operation has loaded is mapped when it is used, whatever files  *)
(* are created and destroyed meanwhile: no mapping is undone that somebody *)
(* has loaded; and nobody has loaded NULL as long as every BAR could be    *)
(* mapped, since no file is live before there is a mapping.                *)
AccessMapped ==
  \A c \in Clients :
    Pending(c) /\ (op[c].addr # NoAddr \/ iomap_failed = {}) => AddrMapped(c)

(* An operation on a file goes to the registers of the file's device.      *)
OwnRegisters ==
  \A c \in Clients : Pending(c) /\ AddrMapped(c) => op[c].addr[1] = file[c].dev

(* What the test program prints as written and read, with nobody else at   *)
(* the register, is what the register holds.                               *)
TestReadsBack == tpc = 6 /\ op[Tester] = NoOp => value[Tester] = reg[TestDevice]
=============================================================================
