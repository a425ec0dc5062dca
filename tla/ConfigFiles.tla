---------------------------- MODULE ConfigFiles ----------------------------
(***************************************************************************)
(* The config files of xgpu_drv/cdev_config.c: "config", which shows the   *)
(* configuration space of a device, and the short files for one item of it *)
(* each.  The short files go to the device; the config file is read from   *)
(* config_data, one array for all devices, which is filled whenever a      *)
(* config file of any device is created, and it is written through it.     *)
(*                                                                         *)
(* A byte carries the device and the place it is meant for, and who has    *)
(* written it, so that one that goes astray shows.  The history variable   *)
(* disturbed says whose write the array was changed under.                 *)
(***************************************************************************)
EXTENDS Integers, Sequences, FiniteSets

CONSTANTS
  Devices,
  Clients,       \* those who open, read and write the files, in any order
  DeviceOf,      \* the device whose files a client opens
  Size,          \* PCI_CONFIG_SIZE
  Items,         \* config_items: the offset and length of each, in order
  ReadCounts,    \* ReadCounts[c]: the lengths a client asks for
  WriteCounts,   \* WriteCounts[c]: the lengths a client has data for
  None

Nodes == 1..Len(Items)

(* Items of 4 bytes, which the code treats too, are not in the table.      *)
ASSUME SizeAssumption == Size \in Nat \ {0}
ASSUME ItemsAssumption ==
  /\ Items \in Seq([offset : Nat, length : Nat])
  /\ \A n \in Nodes :
       /\ Items[n].offset + Items[n].length <= Size
       /\ Items[n].length \in (1..3) \cup {Size}
ASSUME CountsAssumption ==
  ReadCounts \in [Clients -> SUBSET Nat] /\ WriteCounts \in [Clients -> SUBSET Nat]
ASSUME ClientsAssumption == DeviceOf \in [Clients -> Devices]

VARIABLES
  space,         \* space[d]: the configuration space of a device
  config_data,
  created,       \* created[d]: how many of its files cdev_add has made live
  init_at,       \* init_at[d]: the byte cdev_config_init is at
  file,          \* file[c]: the item a client has open, 0 for none
  status,        \* what the client knows: "open", "eof" or "failed"
  pos,           \* *pos of the open file
  op,            \* the operation a client is in, and how far
  got,           \* the bytes a client has been given since it opened the file
  disturbed      \* the clients in a write during which somebody else has
                 \* changed config_data

deviceVars == <<created, init_at>>
vars == <<space, config_data, created, init_at, file, status, pos, op, got, disturbed>>

(* The byte for the place k of a device, by a client or as the device has  *)
(* come up with it; and one that nobody has meant for the place where it   *)
(* is: zeroed memory, or what a client has in its buffer for another place *)
(* or behind its data.                                                     *)
Byte(d, k, by) == [dev |-> d, at |-> k, by |-> by]
Stray == Byte(None, Size, None)
Bytes == [dev : Devices, at : 0..(Size - 1), by : Clients \cup {None}] \cup {Stray}

(* Whose and which it is shows in a byte, but not who has written it.      *)
Seen(byte) == [byte EXCEPT !.by = None]

Places == 0..(Size - 1)
NoOp == [kind |-> "none", n |-> 0, k |-> 0, dat |-> <<>>]
Length(c) == Items[file[c]].length
Offset(c) == Items[file[c]].offset
IsWhole(c) == Length(c) = Size

Init ==
  /\ space = [d \in Devices |-> [k \in Places |-> Byte(d, k, None)]]
  /\ config_data = [k \in Places |-> Stray]
  /\ created = [d \in Devices |-> 0] /\ init_at = [d \in Devices |-> 0]
  /\ file = [c \in Clients |-> 0] /\ status = [c \in Clients |-> "open"]
  /\ pos = [c \in Clients |-> 0]
  /\ op = [c \in Clients |-> NoOp] /\ got = [c \in Clients |-> <<>>]
  /\ disturbed = {}

(***************************************************************************)
(* cdev_config_init, for each config file of a device: byte by byte, and   *)
(* then the file is live.                                                  *)
(***************************************************************************)
InitDone(d) == init_at[d] = Size

(* The clients that have begun to write through the array.                 *)
UsingArray == {c \in Clients : op[c].kind \in {"fill", "store"} /\ IsWhole(c)}

cdev_config_init(d) ==
  /\ created[d] < Len(Items) /\ ~InitDone(d)
  /\ config_data' = [config_data EXCEPT ![init_at[d]] = space[d][init_at[d]]]
  /\ init_at' = [init_at EXCEPT ![d] = @ + 1]
  /\ disturbed' = disturbed \cup UsingArray
  /\ UNCHANGED <<space, created, file, status, pos, op, got>>

cdev_add(d) ==
  /\ InitDone(d)
  /\ created' = [created EXCEPT ![d] = @ + 1]
  /\ init_at' = [init_at EXCEPT ![d] = 0]
  /\ UNCHANGED <<space, config_data, file, status, pos, op, got, disturbed>>

char_open(c, n) ==
  /\ file[c] = 0 /\ n <= created[DeviceOf[c]]
  /\ file' = [file EXCEPT ![c] = n]
  /\ UNCHANGED <<space, config_data, deviceVars, status, pos, op, got, disturbed>>

char_close(c) ==
  /\ file[c] # 0 /\ op[c] = NoOp
  /\ status[c] # "open"
  /\ file' = [file EXCEPT ![c] = 0]
  /\ status' = [status EXCEPT ![c] = "open"]
  /\ pos' = [pos EXCEPT ![c] = 0] /\ got' = [got EXCEPT ![c] = <<>>]
  /\ UNCHANGED <<space, config_data, deviceVars, op, disturbed>>

(***************************************************************************)
(* char_config_read.                                                       *)
(***************************************************************************)
Idle(c) == file[c] # 0 /\ status[c] = "open" /\ op[c] = NoOp
Begin(c, o) == op' = [op EXCEPT ![c] = o]
Leave(c, s) ==
  /\ op' = [op EXCEPT ![c] = NoOp]
  /\ status' = [status EXCEPT ![c] = s]
Return(c, s) == Leave(c, s) /\ disturbed' = disturbed \ {c}

CountFrom(p, count) ==
  IF p + count > Size THEN (IF Size - p > 0 THEN Size - p ELSE 0) ELSE count

ReadWhole(c, count) ==
  LET n == CountFrom(pos[c], count) IN
  /\ Idle(c) /\ IsWhole(c)
  /\ IF n = 0 \/ pos[c] >= n
     THEN Return(c, "eof")
     ELSE Begin(c, [NoOp EXCEPT !.kind = "copy", !.n = n]) /\ UNCHANGED <<status, disturbed>>
  /\ UNCHANGED <<space, config_data, deviceVars, file, pos, got>>

(* copy_to_user, a byte at a time, and the end of the read.                *)
(* Mutant: every read starts at the beginning of the array.                *)
CopyByte_FromStart(c) ==
  /\ op[c].kind = "copy" /\ op[c].k < op[c].n
  /\ Begin(c, [op[c] EXCEPT !.dat = Append(@, Seen(config_data[op[c].k])), !.k = @ + 1])
  /\ UNCHANGED <<space, config_data, deviceVars, file, status, pos, got, disturbed>>

CopyByte(c) ==
  /\ op[c].kind = "copy" /\ op[c].k < op[c].n
  /\ Begin(c, [op[c] EXCEPT !.dat = Append(@, Seen(config_data[pos[c] + op[c].k])), !.k = @ + 1])
  /\ UNCHANGED <<space, config_data, deviceVars, file, status, pos, got, disturbed>>

(* Mutant: the position stays, and the next read gives the same again.     *)
Copied_PosKept(c) ==
  /\ op[c].kind = "copy" /\ op[c].k = op[c].n
  /\ got' = [got EXCEPT ![c] = op[c].dat]
  /\ Return(c, "open")
  /\ UNCHANGED <<space, config_data, deviceVars, file, pos>>

Copied(c) ==
  /\ op[c].kind = "copy" /\ op[c].k = op[c].n
  /\ got' = [got EXCEPT ![c] = @ \o op[c].dat]
  /\ pos' = [pos EXCEPT ![c] = @ + op[c].n]
  /\ Return(c, "open")
  /\ UNCHANGED <<space, config_data, deviceVars, file>>

(* A short file reads its item from the device first, three bytes one by   *)
(* one, and then looks at the position; the count is not looked at.        *)
ReadShort(c, count) ==
  /\ Idle(c) /\ ~IsWhole(c)
  /\ Begin(c, [NoOp EXCEPT !.kind = "item"])
  /\ UNCHANGED <<space, config_data, deviceVars, file, status, pos, got, disturbed>>

pci_read_config(c) ==
  LET k == op[c].k  step == IF Length(c) = 3 THEN 1 ELSE Length(c) IN
  /\ op[c].kind = "item" /\ k < Length(c)
  /\ Begin(c, [op[c] EXCEPT !.k = @ + step,
       !.dat = @ \o [b \in 1..step |-> Seen(space[DeviceOf[c]][Offset(c) + k + b - 1])]])
  /\ UNCHANGED <<space, config_data, deviceVars, file, status, pos, got, disturbed>>

(* Mutant: the position is not looked at.                                  *)
Delivered_NoEof(c) ==
  /\ op[c].kind = "item" /\ op[c].k = Length(c)
  /\ got' = [got EXCEPT ![c] = @ \o op[c].dat]
  /\ pos' = [pos EXCEPT ![c] = @ + Length(c)]
  /\ Return(c, "open")
  /\ UNCHANGED <<space, config_data, deviceVars, file>>

Delivered(c) ==
  /\ op[c].kind = "item" /\ op[c].k = Length(c)
  /\ IF pos[c] > 0
     THEN Return(c, "eof") /\ UNCHANGED <<got, pos>>
     ELSE /\ got' = [got EXCEPT ![c] = @ \o op[c].dat]
          /\ pos' = [pos EXCEPT ![c] = @ + Length(c)]
          /\ Return(c, "open")
  /\ UNCHANGED <<space, config_data, deviceVars, file>>

(* copy_to_user meets a page that is not there.                            *)
ReadFaults(c) ==
  /\ \/ op[c].kind = "copy"
     \/ op[c].kind = "item" /\ op[c].k = Length(c) /\ pos[c] = 0
  /\ Return(c, "failed")
  /\ UNCHANGED <<space, config_data, deviceVars, file, pos, got>>

(***************************************************************************)
(* char_config_write.  The count of the client is not looked at: the whole *)
(* item is taken from its buffer, and what lies behind the data goes along.*)
(* The byte j of the buffer is for the place pos + j of the file; for the  *)
(* config file the code takes those from pos on, and puts them to the      *)
(* places from 0 on.  (A short file is only written at its beginning.)     *)
(***************************************************************************)
Data(c, count, j) ==
  IF j < count /\ pos[c] + j < Length(c)
  THEN Byte(DeviceOf[c], Offset(c) + pos[c] + j, c) ELSE Stray

(* Where it is not the byte for its place, it may as well be any.          *)
Put(byte, k) == IF byte.at = k THEN byte ELSE Stray

(* Mutant: the end of the file is not looked for.                          *)
Write_NoEof(c, count) ==
  /\ Idle(c)
  /\ Begin(c, [NoOp EXCEPT !.kind = IF IsWhole(c) THEN "fill" ELSE "store", !.n = count])
  /\ UNCHANGED <<space, config_data, deviceVars, file, status, pos, got, disturbed>>

Write(c, count) ==
  /\ Idle(c)
  /\ IF pos[c] >= Length(c)
     THEN Return(c, "eof")
     ELSE Begin(c, [NoOp EXCEPT !.kind = IF IsWhole(c) THEN "fill" ELSE "store", !.n = count])
          /\ UNCHANGED <<status, disturbed>>
  /\ UNCHANGED <<space, config_data, deviceVars, file, pos, got>>

(* copy_from_user into config_data, for the config file only.              *)
FillByte(c) ==
  LET k == op[c].k IN
  /\ op[c].kind = "fill" /\ k < Size
  /\ config_data' = [config_data EXCEPT ![k] = Put(Data(c, op[c].n, pos[c] + k), k)]
  /\ Begin(c, IF k + 1 = Size THEN [op[c] EXCEPT !.kind = "store", !.k = 0]
                             ELSE [op[c] EXCEPT !.k = @ + 1])
  /\ disturbed' = disturbed \cup (UsingArray \ {c})
  /\ UNCHANGED <<space, deviceVars, file, status, pos, got>>

(* It fails: the rest of the array is set to zero, and nothing is written. *)
(* Mutant: the array is written all the same.                              *)
FillFaults_GoesOn(c) ==
  /\ op[c].kind = "fill"
  /\ config_data' = [k \in Places |-> IF k < op[c].k THEN config_data[k] ELSE Stray]
  /\ Begin(c, [op[c] EXCEPT !.kind = "store", !.k = 0])
  /\ disturbed' = disturbed \cup (UsingArray \ {c})
  /\ UNCHANGED <<space, deviceVars, file, status, pos, got>>

FillFaults(c) ==
  /\ op[c].kind = "fill"
  /\ config_data' = [k \in Places |-> IF k < op[c].k THEN config_data[k] ELSE Stray]
  /\ Leave(c, "failed")
  /\ disturbed' = (disturbed \cup UsingArray) \ {c}
  /\ UNCHANGED <<space, deviceVars, file, pos, got>>

(* The copy_from_user of a short item fails, before anything is written.   *)
FetchFaults(c) ==
  /\ op[c].kind = "store" /\ ~IsWhole(c) /\ op[c].k = 0
  /\ Return(c, "failed")
  /\ UNCHANGED <<space, config_data, deviceVars, file, pos, got>>

(* The bytes of the item that one write to the device covers.              *)
StepOf(c, k) == IF IsWhole(c) \/ Length(c) = 3 THEN {k} ELSE 0..(Length(c) - 1)

(* Mutant: the bytes of a class code are taken from the value backwards.   *)
StoredByte_Backwards(c, k) ==
  IF IsWhole(c) THEN config_data[k]
  ELSE Put(Data(c, op[c].n, IF Length(c) = 3 THEN 2 - k ELSE k), Offset(c) + k)
StoredByte(c, k) ==
  IF IsWhole(c) THEN config_data[k] ELSE Put(Data(c, op[c].n, k), Offset(c) + k)

pci_write_config(c) ==
  LET k == op[c].k IN
  /\ op[c].kind = "store" /\ k < Length(c)
  /\ LET step == StepOf(c, k) IN
       /\ space' = [space EXCEPT ![DeviceOf[c]] = [b \in Places |->
            IF b - Offset(c) \in step THEN StoredByte(c, b - Offset(c)) ELSE @[b]]]
       /\ Begin(c, [op[c] EXCEPT !.k = @ + Cardinality(step)])
  /\ UNCHANGED <<config_data, deviceVars, file, status, pos, got, disturbed>>

Written(c) ==
  /\ op[c].kind = "store" /\ op[c].k = Length(c)
  /\ pos' = [pos EXCEPT ![c] = @ + Length(c)]
  /\ Return(c, "open")
  /\ UNCHANGED <<space, config_data, deviceVars, file, got>>

CreateStep(d) == cdev_config_init(d) \/ cdev_add(d)
ReadStep(c) ==
  \/ \E count \in ReadCounts[c] : ReadWhole(c, count) \/ ReadShort(c, count)
  \/ CopyByte(c) \/ Copied(c) \/ pci_read_config(c) \/ Delivered(c)
WriteStep(c) ==
  \/ \E count \in WriteCounts[c] : Write(c, count)
  \/ FillByte(c) \/ pci_write_config(c) \/ Written(c)
Fault(c) == ReadFaults(c) \/ FillFaults(c) \/ FetchFaults(c)

Next ==
  \/ \E d \in Devices : CreateStep(d)
  \/ \E c \in Clients :
       \/ \E n \in Nodes : char_open(c, n)
       \/ char_close(c) \/ ReadStep(c) \/ WriteStep(c) \/ Fault(c)

Spec == Init /\ [][Next]_vars

(* A client that has begun to read or write goes on with it.               *)
FairSpec == Spec /\ \A c \in Clients : WF_vars(ReadStep(c)) /\ WF_vars(WriteStep(c))

(***************************************************************************)
(* Properties.                                                             *)
(***************************************************************************)

(* What an operation of a client is made of.                               *)
OpKinds == {"none", "copy", "item", "fill", "store"}
Operations == [kind : OpKinds, n : Nat, k : 0..Size, dat : Seq(Bytes)]

(* The variables keep their types.  A write adds the length of the file to *)
(* the position, wherever it has started, so that the position gets behind *)
(* the end; but no operation goes on from there.                           *)
TypeOK ==
  /\ space \in [Devices -> [Places -> Bytes]]
  /\ config_data \in [Places -> Bytes]
  /\ created \in [Devices -> 0..Len(Items)] /\ init_at \in [Devices -> 0..Size]
  /\ file \in [Clients -> 0..Len(Items)]
  /\ status \in [Clients -> {"open", "eof", "failed"}]
  /\ pos \in [Clients -> 0..(2 * Size - 1)]
  /\ op \in [Clients -> Operations] /\ got \in [Clients -> Seq(Bytes)]
  /\ disturbed \subseteq UsingArray

(* A byte for the place k, of whatever device, or one that is for none.    *)
ForPlace(byte, k) == byte = Stray \/ byte.at = k

(* A client that reads a short file is given its item once, every byte in  *)
(* its place, also while the item is being written; and it meets the end   *)
(* when it has been given the item or has written it, and no sooner.       *)
ShortFilesOnce ==
  \A c \in Clients :
    (file[c] # 0 /\ ~IsWhole(c)) =>
      /\ got[c] # <<>> =>
           /\ Len(got[c]) = Length(c)
           /\ \A b \in 1..Length(c) : ForPlace(got[c][b], Offset(c) + b - 1)
      /\ status[c] = "eof" => pos[c] = Length(c)

(* In whatever parts a client takes the config file, it is given the bytes *)
(* in their order, none twice and none left out before the end it meets,   *)
(* also while the file is being written or its array filled once more, for *)
(* any device.  The position is that of the bytes given, and Size further  *)
(* when the client has written.                                            *)
WholeInOrder ==
  \A c \in Clients : (file[c] # 0 /\ IsWhole(c)) =>
    /\ pos[c] - Len(got[c]) \in {0, Size}
    /\ \A k \in 1..Len(got[c]) : ForPlace(got[c][k], k - 1)

(* A client that takes the config file to its end has been given all of    *)
(* the configuration of its device.                                        *)
WholeGiven ==
  \A c \in Clients :
    (file[c] # 0 /\ IsWhole(c) /\ status[c] = "eof") =>
      /\ Len(got[c]) = Size
      /\ \A b \in 1..Size : got[c][b].dev = DeviceOf[c] /\ got[c][b].at = b - 1

(* Every byte of the configuration of a device is one that it has come up  *)
(* with or that a client has meant for it, and for this place.             *)
SpaceKept ==
  \A d \in Devices, k \in Places : space[d][k].dev = d /\ space[d][k].at = k

(* What a write changes in the device is what its client has given for the *)
(* place, whatever failed writes, other devices and earlier users have     *)
(* left in the array.  That is so for every write but one that did not     *)
(* have data for the whole item, one of the config file that did not start *)
(* at its beginning, and one that somebody else, a client or a probe, has  *)
(* changed the array under.                                                *)
Excused(c) == c \in disturbed \/ pos[c] > 0 \/ op[c].n < Length(c)
Stores(c, d) == DeviceOf[c] = d /\ op[c].kind = "store" /\ op'[c] # op[c]

WritesOwn ==
  [][\A d \in Devices, k \in Places : space'[d][k] # space[d][k] =>
       \E c \in Clients :
         Stores(c, d) /\ (space'[d][k] = Byte(d, k, c) \/ Excused(c))]_vars

(* Reading and writing a file comes to an end.                             *)
ReadersEnd ==
  \A c \in Clients : (file[c] # 0 /\ status[c] = "open") ~> (status[c] # "open")
=============================================================================
