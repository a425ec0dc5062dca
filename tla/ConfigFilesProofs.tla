------------------------- MODULE ConfigFilesProofs -------------------------
(***************************************************************************)
(* Proofs about ConfigFiles, for any number of devices and of clients that *)
(* read and write in any order, any space and any table of items: how far  *)
(* positions get, that every byte read is one for its place, in the order  *)
(* of the file, and whose bytes a write puts into a device.                *)
(***************************************************************************)
EXTENDS ConfigFiles, SequenceTheorems, FiniteSetTheorems, TLAPS

(***************************************************************************)
(* The inductive invariant: the types, and how far each operation and each *)
(* client is.                                                              *)
(***************************************************************************)

(* A file is being filled for only while there is one left to create.      *)
DeviceInv(d) == init_at[d] > 0 => created[d] < Len(Items)

(* The bytes that an operation has read or written so far, of an item that *)
(* is not read in single bytes either none or all.                         *)
AllAtOnce(c) == ~IsWhole(c) /\ Length(c) # 3

CopyInv(c) ==
  op[c].kind = "copy" =>
    /\ IsWhole(c) /\ pos[c] < Size
    /\ op[c].k <= op[c].n /\ pos[c] + op[c].n <= Size
    /\ Len(op[c].dat) = op[c].k

ItemInv(c) ==
  op[c].kind = "item" =>
    /\ ~IsWhole(c)
    /\ op[c].k <= Length(c) /\ (AllAtOnce(c) => op[c].k \in {0, Length(c)})
    /\ Len(op[c].dat) = op[c].k

FillInv(c) ==
  op[c].kind = "fill" => IsWhole(c) /\ op[c].k < Size /\ pos[c] < Size

StoreInv(c) ==
  op[c].kind = "store" =>
    /\ pos[c] < Length(c)
    /\ op[c].k <= Length(c) /\ (AllAtOnce(c) => op[c].k \in {0, Length(c)})

(* A closed file has been forgotten; a short file is at its beginning or   *)
(* at its end, and the end is met there only; in the config file the       *)
(* client is where it has been given the bytes up to, or Size further.     *)
ShortPos(c) ==
  /\ pos[c] \in {0, Length(c)} /\ Len(got[c]) \in {0, pos[c]}
  /\ status[c] = "eof" => pos[c] = Length(c)

WholePos(c) ==
  \/ pos[c] = Len(got[c]) /\ pos[c] <= Size
  \/ pos[c] = Len(got[c]) + Size /\ Len(got[c]) < Size

PosInv(c) ==
  /\ op[c].kind # "none" => file[c] # 0 /\ status[c] = "open"
  /\ file[c] = 0 => pos[c] = 0 /\ status[c] = "open" /\ got[c] = <<>>
  /\ file[c] # 0 => IF IsWhole(c) THEN WholePos(c) ELSE ShortPos(c)

ClientInv(c) == CopyInv(c) /\ ItemInv(c) /\ FillInv(c) /\ StoreInv(c) /\ PosInv(c)

IInv ==
  /\ TypeOK
  /\ \A d \in Devices : DeviceInv(d)
  /\ \A c \in Clients : ClientInv(c)

(***************************************************************************)
(* The items, and what operations are made of.                             *)
(***************************************************************************)

LEMMA ItemFacts ==
  ASSUME NEW n \in Nodes
  PROVE  /\ Items[n].offset \in Nat /\ Items[n].length \in Nat
         /\ Items[n].offset + Items[n].length <= Size
         /\ Items[n].length \in (1..3) \cup {Size}
  <1>1. Items[n] \in [offset : Nat, length : Nat]
    BY ItemsAssumption, ElementOfSeq DEF Nodes
  <1> QED BY <1>1, ItemsAssumption

LEMMA ClientItem ==
  ASSUME TypeOK, NEW c \in Clients, file[c] # 0
  PROVE  /\ Length(c) \in Nat /\ Offset(c) \in Nat /\ Offset(c) + Length(c) <= Size
         /\ Length(c) \in (1..3) \cup {Size} /\ Length(c) >= 1
         /\ ~IsWhole(c) => Length(c) \in 1..3
         /\ IsWhole(c) => Length(c) = Size /\ Offset(c) = 0
  <1>1. file[c] \in Nodes
    <2>1. file[c] \in 0..Len(Items) BY DEF TypeOK
    <2>2. Len(Items) \in Nat BY ItemsAssumption, LenProperties
    <2> QED BY <2>1, <2>2 DEF Nodes
  <1>2. /\ Offset(c) \in Nat /\ Length(c) \in Nat
        /\ Offset(c) + Length(c) <= Size /\ Length(c) \in (1..3) \cup {Size}
    BY <1>1, ItemFacts DEF Length, Offset
  <1> QED BY <1>2, SizeAssumption DEF IsWhole

LEMMA BytesTyped ==
  /\ \A d \in Devices, k \in Places, c \in Clients \cup {None} : Byte(d, k, c) \in Bytes
  /\ Stray \in Bytes
  /\ \A b \in Bytes : Seen(b) \in Bytes /\ Seen(b).at = b.at /\ (b = Stray => Seen(b) = Stray)
  /\ \A b \in Bytes, k \in Nat : Put(b, k) \in Bytes
  BY DEF Byte, Bytes, Stray, Seen, Places, Put

LEMMA NoOpTyped == NoOp \in Operations
  <1>1. <<>> \in Seq(Bytes) BY EmptySeq
  <1> QED BY <1>1, SizeAssumption DEF NoOp, Operations, OpKinds

LEMMA BeginTyped ==
  ASSUME TypeOK, NEW c \in Clients, NEW o \in Operations, Begin(c, o)
  PROVE  op' \in [Clients -> Operations] /\ op'[c] = o /\ \A b \in Clients \ {c} : op'[b] = op[b]
  BY DEF TypeOK, Begin

LEMMA LeaveTyped ==
  ASSUME TypeOK, NEW c \in Clients, NEW s \in {"open", "eof", "failed"}, Leave(c, s)
  PROVE  /\ op' \in [Clients -> Operations] /\ op'[c] = NoOp /\ op'[c].kind = "none"
         /\ status' \in [Clients -> {"open", "eof", "failed"}] /\ status'[c] = s
         /\ \A b \in Clients \ {c} : op'[b] = op[b] /\ status'[b] = status[b]
  BY NoOpTyped DEF TypeOK, Leave, NoOp

(***************************************************************************)
(* A step of one client keeps the invariant if it keeps the types, and the *)
(* conjunct of this client.                                                *)
(***************************************************************************)
Others(c) ==
  \A b \in Clients \ {c} :
    /\ file'[b] = file[b] /\ status'[b] = status[b] /\ pos'[b] = pos[b]
    /\ op'[b] = op[b] /\ got'[b] = got[b]

LEMMA ClientStep ==
  ASSUME IInv, NEW c \in Clients, TypeOK', UNCHANGED deviceVars, Others(c), ClientInv(c)'
  PROVE  IInv'
  <1>1. ASSUME NEW b \in Clients \ {c} PROVE ClientInv(b)'
    BY DEF IInv, Others, ClientInv, CopyInv, ItemInv, FillInv, StoreInv, PosInv,
           ShortPos, WholePos, AllAtOnce, IsWhole, Length
  <1>2. ASSUME NEW d \in Devices PROVE DeviceInv(d)' BY DEF IInv, DeviceInv, deviceVars
  <1> QED BY <1>1, <1>2 DEF IInv

(* The clients that use the array: the others still do.                    *)
LEMMA UsingKept ==
  ASSUME NEW c \in Clients, NEW D, D \subseteq UsingArray,
         \A b \in Clients \ {c} : op'[b] = op[b] /\ file'[b] = file[b],
         c \in D => c \in UsingArray'
  PROVE  D \subseteq UsingArray'
  <1> SUFFICES ASSUME NEW b \in D, b # c PROVE b \in UsingArray' OBVIOUS
  <1>1. b \in Clients /\ op'[b] = op[b] /\ file'[b] = file[b] BY DEF UsingArray
  <1> QED BY <1>1 DEF UsingArray, IsWhole, Length

(* A client in no operation.                                               *)
LEMMA NoOperation ==
  ASSUME NEW c \in Clients, op[c].kind = "none", PosInv(c) PROVE ClientInv(c)
  BY DEF ClientInv, CopyInv, ItemInv, FillInv, StoreInv

LEMMA NoOperationNext ==
  ASSUME NEW c \in Clients, op'[c].kind = "none", PosInv(c)' PROVE ClientInv(c)'
  BY DEF ClientInv, CopyInv, ItemInv, FillInv, StoreInv

(***************************************************************************)
(* Creating, opening and closing files.                                    *)
(***************************************************************************)

LEMMA CreateKeeps == ASSUME IInv, NEW d \in Devices, CreateStep(d) PROVE IInv'
  <1>1. Len(Items) \in Nat BY ItemsAssumption, LenProperties
  <1>2. UNCHANGED <<space, file, status, pos, op, got>>
    BY DEF CreateStep, cdev_config_init, cdev_add
  <1>3. ASSUME NEW c \in Clients PROVE ClientInv(c)'
    BY <1>2 DEF IInv, ClientInv, CopyInv, ItemInv, FillInv, StoreInv, PosInv,
                ShortPos, WholePos, AllAtOnce, IsWhole, Length
  <1>4. init_at[d] \in 0..Size /\ created[d] \in 0..Len(Items) BY DEF IInv, TypeOK
  <1>5. disturbed' \subseteq UsingArray'
    <2>1. disturbed' \subseteq UsingArray
      BY DEF IInv, TypeOK, CreateStep, cdev_config_init, cdev_add
    <2> QED BY <1>2, <2>1 DEF UsingArray, IsWhole, Length
  <1>6. CASE cdev_config_init(d)
    <2>1. init_at[d] \in Places /\ created[d] < Len(Items)
      BY <1>4, <1>6, SizeAssumption DEF cdev_config_init, InitDone, Places
    <2>2. space[d][init_at[d]] \in Bytes BY <2>1 DEF IInv, TypeOK
    <2>3. config_data' \in [Places -> Bytes]
      BY <1>6, <2>2 DEF IInv, TypeOK, cdev_config_init
    <2>4. init_at' \in [Devices -> 0..Size]
      <3>1. init_at[d] + 1 \in 0..Size BY <2>1, SizeAssumption DEF Places
      <3> QED BY <1>6, <3>1 DEF IInv, TypeOK, cdev_config_init
    <2>5. TypeOK' BY <1>2, <1>6, <1>5, <2>3, <2>4 DEF IInv, TypeOK, cdev_config_init
    <2>6. ASSUME NEW e \in Devices PROVE DeviceInv(e)'
      BY <1>6, <2>1 DEF IInv, TypeOK, DeviceInv, cdev_config_init
    <2> QED BY <1>3, <2>5, <2>6 DEF IInv
  <1>7. CASE cdev_add(d)
    <2>1. created[d] < Len(Items)
      BY <1>7, SizeAssumption DEF IInv, DeviceInv, cdev_add, InitDone
    <2>2. created[d] + 1 \in 0..Len(Items) BY <1>1, <1>4, <2>1
    <2>3. TypeOK' BY <1>2, <1>7, <1>5, <2>2, SizeAssumption DEF IInv, TypeOK, cdev_add
    <2>4. ASSUME NEW e \in Devices PROVE DeviceInv(e)'
      BY <1>7 DEF IInv, TypeOK, DeviceInv, cdev_add
    <2> QED BY <1>3, <2>3, <2>4 DEF IInv
  <1> QED BY <1>6, <1>7 DEF CreateStep

LEMMA char_openKeeps ==
  ASSUME IInv, NEW c \in Clients, NEW n \in Nodes, char_open(c, n) PROVE IInv'
  <1>1. n \in 0..Len(Items) /\ n # 0
    BY ItemsAssumption, LenProperties DEF Nodes
  <1>2. op[c].kind = "none" /\ UNCHANGED <<op, disturbed>>
    BY DEF IInv, ClientInv, PosInv, char_open
  <1>3. disturbed' \subseteq UsingArray'
    <2>1. disturbed \subseteq UsingArray /\ c \notin UsingArray
      BY <1>2 DEF IInv, TypeOK, UsingArray
    <2>2. \A b \in Clients \ {c} : op'[b] = op[b] /\ file'[b] = file[b]
      BY DEF IInv, TypeOK, char_open
    <2> QED BY <1>2, <2>1, <2>2, UsingKept
  <1>4. TypeOK' BY <1>1, <1>3 DEF IInv, TypeOK, char_open, deviceVars
  <1>5. /\ file'[c] # 0 /\ pos'[c] = 0 /\ status'[c] = "open" /\ got'[c] = <<>>
        /\ op'[c].kind = "none"
    BY <1>1, <1>2 DEF IInv, TypeOK, ClientInv, PosInv, char_open
  <1>6. Len(got'[c]) = 0 BY <1>5
  <1>7. PosInv(c)' BY <1>5, <1>6, SizeAssumption DEF PosInv, WholePos, ShortPos
  <1>8. Others(c) BY DEF IInv, TypeOK, Others, char_open
  <1> QED BY <1>4, <1>5, <1>7, <1>8, ClientStep, NoOperationNext DEF char_open

LEMMA char_closeKeeps == ASSUME IInv, NEW c \in Clients, char_close(c) PROVE IInv'
  <1>1. <<>> \in Seq(Bytes) BY EmptySeq
  <1>2. op[c].kind = "none" /\ UNCHANGED <<op, disturbed>> BY DEF NoOp, char_close
  <1>3. disturbed' \subseteq UsingArray'
    <2>1. disturbed \subseteq UsingArray /\ c \notin UsingArray
      BY <1>2 DEF IInv, TypeOK, UsingArray
    <2>2. \A b \in Clients \ {c} : op'[b] = op[b] /\ file'[b] = file[b]
      BY DEF IInv, TypeOK, char_close
    <2> QED BY <1>2, <2>1, <2>2, UsingKept
  <1>4. pos' \in [Clients -> 0..(2 * Size - 1)]
    <2>1. 0 \in 0..(2 * Size - 1) BY SizeAssumption
    <2> QED BY <2>1 DEF IInv, TypeOK, char_close
  <1>5. TypeOK'
    BY <1>1, <1>3, <1>4, ItemsAssumption, LenProperties
    DEF IInv, TypeOK, char_close, deviceVars
  <1>6. file'[c] = 0 /\ pos'[c] = 0 /\ got'[c] = <<>> /\ status'[c] = "open"
    BY DEF IInv, TypeOK, char_close
  <1>7. PosInv(c)' BY <1>2, <1>6 DEF PosInv
  <1>8. Others(c) BY DEF IInv, TypeOK, Others, char_close
  <1> QED BY <1>2, <1>5, <1>7, <1>8, ClientStep, NoOperationNext DEF char_close

(***************************************************************************)
(* Reading.                                                                *)
(***************************************************************************)

LEMMA CountFits ==
  ASSUME NEW p \in Nat, NEW count \in Nat, CountFrom(p, count) # 0
  PROVE  /\ CountFrom(p, count) \in Nat /\ p < Size
         /\ p + CountFrom(p, count) <= Size
  BY SizeAssumption DEF CountFrom

(* An operation ends and the client has the position and data it had.      *)
LEMMA EndsKeep ==
  ASSUME IInv, NEW c \in Clients, NEW s \in {"eof", "failed"}, Leave(c, s), file[c] # 0,
         disturbed' \subseteq UsingArray \ {c},
         s = "eof" /\ ~IsWhole(c) => pos[c] = Length(c),
         UNCHANGED <<space, deviceVars, file, pos, got>>, config_data' \in [Places -> Bytes]
  PROVE  IInv'
  <1>1. /\ op' \in [Clients -> Operations] /\ op'[c].kind = "none" /\ status'[c] = s
        /\ status' \in [Clients -> {"open", "eof", "failed"}]
        /\ \A b \in Clients \ {c} : op'[b] = op[b] /\ status'[b] = status[b]
    BY LeaveTyped DEF IInv
  <1>2. disturbed' \subseteq UsingArray' BY <1>1, UsingKept
  <1>3. TypeOK' BY <1>1, <1>2 DEF IInv, TypeOK, deviceVars
  <1>4. PosInv(c)'
    BY <1>1 DEF IInv, ClientInv, PosInv, ShortPos, WholePos, IsWhole, Length
  <1> QED BY <1>1, <1>3, <1>4, ClientStep, NoOperationNext DEF Others

(* An operation begins or goes on.                                         *)
LEMMA GoesOn ==
  ASSUME IInv, NEW c \in Clients, NEW o \in Operations, Begin(c, o), file[c] # 0,
         status[c] = "open", disturbed' \subseteq UsingArray,
         c \in UsingArray => o.kind \in {"fill", "store"},
         UNCHANGED <<deviceVars, file, status, pos, got>>,
         space' \in [Devices -> [Places -> Bytes]], config_data' \in [Places -> Bytes],
         op'[c] = o => CopyInv(c)' /\ ItemInv(c)' /\ FillInv(c)' /\ StoreInv(c)'
  PROVE  IInv'
  <1>1. /\ op' \in [Clients -> Operations] /\ op'[c] = o
        /\ \A b \in Clients \ {c} : op'[b] = op[b]
    BY BeginTyped DEF IInv
  <1>2. c \in UsingArray => c \in UsingArray' BY <1>1 DEF UsingArray, IsWhole, Length
  <1>3. disturbed' \subseteq UsingArray' BY <1>1, <1>2, UsingKept
  <1>4. TypeOK' BY <1>1, <1>3 DEF IInv, TypeOK, deviceVars
  <1>5. PosInv(c)'
    BY <1>1 DEF IInv, ClientInv, PosInv, ShortPos, WholePos, IsWhole, Length
  <1> QED BY <1>1, <1>4, <1>5, ClientStep DEF Others, ClientInv

(* The variable disturbed, when an operation begins, goes on and ends.     *)
LEMMA DisturbedTyped ==
  ASSUME IInv
  PROVE  disturbed \subseteq UsingArray /\ \A c \in Clients : disturbed \ {c} \subseteq UsingArray \ {c}
  BY DEF IInv, TypeOK

LEMMA NotUsing ==
  ASSUME NEW c \in Clients, op[c].kind \notin {"fill", "store"} PROVE c \notin UsingArray
  BY DEF UsingArray

LEMMA ReadWholeKeeps ==
  ASSUME IInv, NEW c \in Clients, NEW count \in ReadCounts[c], ReadWhole(c, count) PROVE IInv'
  <1> DEFINE n == CountFrom(pos[c], count)
             o == [NoOp EXCEPT !.kind = "copy", !.n = n]
  <1>1. count \in Nat /\ pos[c] \in Nat
    BY CountsAssumption, SizeAssumption DEF IInv, TypeOK
  <1>2. n # 0 => n \in Nat /\ pos[c] < Size /\ pos[c] + n <= Size BY <1>1, CountFits
  <1>3. file[c] # 0 /\ status[c] = "open" /\ IsWhole(c) /\ op[c] = NoOp
    BY DEF ReadWhole, Idle
  <1>4. config_data' \in [Places -> Bytes] /\ space' \in [Devices -> [Places -> Bytes]]
    BY DEF IInv, TypeOK, ReadWhole
  <1>5. \/ Return(c, "eof")
        \/ n # 0 /\ Begin(c, o) /\ UNCHANGED <<status, disturbed>>
    BY DEF ReadWhole
  <1> HIDE DEF n
  <1>6. CASE Return(c, "eof")
    BY <1>3, <1>4, <1>6, EndsKeep, DisturbedTyped DEF ReadWhole, Return
  <1>7. CASE n # 0 /\ Begin(c, o) /\ UNCHANGED <<status, disturbed>>
    <2>1. o \in Operations /\ o.kind = "copy" /\ o.n = n /\ o.k = 0 /\ o.dat = <<>>
      BY <1>2, <1>7, NoOpTyped DEF NoOp, Operations, OpKinds
    <2>2. Begin(c, o) BY <1>7
    <2> HIDE DEF o
    <2>3. Len(<<>>) = 0 OBVIOUS
    <2>4. op'[c] = o => CopyInv(c)' /\ ItemInv(c)' /\ FillInv(c)' /\ StoreInv(c)'
      BY <1>2, <1>3, <1>7, <2>1, <2>3
      DEF CopyInv, ItemInv, FillInv, StoreInv, ReadWhole, IsWhole, Length
    <2>5. c \notin UsingArray BY <1>3, NotUsing DEF NoOp
    <2> QED BY <1>3, <1>4, <1>7, <2>1, <2>2, <2>4, <2>5, GoesOn, DisturbedTyped DEF ReadWhole
  <1> QED BY <1>5, <1>6, <1>7

LEMMA ReadShortKeeps ==
  ASSUME IInv, NEW c \in Clients, NEW count, ReadShort(c, count) PROVE IInv'
  <1> DEFINE o == [NoOp EXCEPT !.kind = "item"]
  <1>1. file[c] # 0 /\ status[c] = "open" /\ op[c] = NoOp BY DEF ReadShort, Idle
  <1>2. Length(c) \in Nat BY <1>1, ClientItem DEF IInv
  <1>3. o \in Operations /\ o.kind = "item" /\ o.k = 0 /\ o.dat = <<>>
    BY NoOpTyped DEF NoOp, Operations, OpKinds
  <1>4. Begin(c, o) BY DEF ReadShort
  <1> HIDE DEF o
  <1>5. Len(<<>>) = 0 OBVIOUS
  <1>6. op'[c] = o => CopyInv(c)' /\ ItemInv(c)' /\ FillInv(c)' /\ StoreInv(c)'
    BY <1>2, <1>3, <1>5
    DEF CopyInv, ItemInv, FillInv, StoreInv, ReadShort, IsWhole, Length, AllAtOnce
  <1>7. c \notin UsingArray BY <1>1, NotUsing DEF NoOp
  <1> QED BY <1>1, <1>3, <1>4, <1>6, <1>7, GoesOn, DisturbedTyped DEF ReadShort, IInv, TypeOK

LEMMA AppendTyped ==
  ASSUME NEW S, NEW s \in Seq(S), NEW x \in S
  PROVE  /\ Append(s, x) \in Seq(S) /\ Len(Append(s, x)) = Len(s) + 1
         /\ \A b \in 1..Len(s) : Append(s, x)[b] = s[b]
         /\ Append(s, x)[Len(s) + 1] = x
  BY AppendProperties

LEMMA Concat ==
  ASSUME NEW S, NEW s \in Seq(S), NEW t \in Seq(S)
  PROVE  /\ s \o t \in Seq(S) /\ Len(s \o t) = Len(s) + Len(t)
         /\ \A b \in 1..Len(s) : (s \o t)[b] = s[b]
         /\ \A b \in 1..Len(t) : (s \o t)[Len(s) + b] = t[b]
  <1>1. Len(s) \in Nat /\ Len(t) \in Nat BY LenProperties
  <1> QED BY <1>1, ConcatProperties

(* What one step of a copy adds to the bytes there are.                    *)
LEMMA CopyFacts ==
  ASSUME IInv, NEW c \in Clients, CopyByte(c)
  PROVE  LET place == pos[c] + op[c].k  dat == Append(op[c].dat, Seen(config_data[place])) IN
         /\ op[c].k \in Nat /\ place \in Places /\ config_data[place] \in Bytes
         /\ op[c].dat \in Seq(Bytes) /\ Len(op[c].dat) = op[c].k
         /\ dat \in Seq(Bytes) /\ Len(dat) = op[c].k + 1
         /\ dat[op[c].k + 1] = Seen(config_data[place])
         /\ \A b \in 1..op[c].k : dat[b] = op[c].dat[b]
         /\ op' = [op EXCEPT ![c] = [op[c] EXCEPT !.dat = dat, !.k = op[c].k + 1]]
  <1> DEFINE place == pos[c] + op[c].k
             byte == Seen(config_data[place])
             dat == Append(op[c].dat, byte)
  <1>1. CopyInv(c) /\ op[c].kind = "copy" BY DEF IInv, ClientInv, CopyByte
  <1>2. op[c].k \in Nat /\ op[c].n \in Nat /\ op[c].dat \in Seq(Bytes) /\ pos[c] \in Nat
    BY SizeAssumption DEF IInv, TypeOK, Operations
  <1>3. /\ op[c].k < op[c].n /\ pos[c] + op[c].n <= Size /\ Len(op[c].dat) = op[c].k
    BY <1>1 DEF CopyInv, CopyByte
  <1>4. place \in Places BY <1>2, <1>3, SizeAssumption DEF Places
  <1>5. config_data[place] \in Bytes BY <1>4 DEF IInv, TypeOK
  <1>6. byte \in Bytes BY <1>5, BytesTyped
  <1>7. op' = [op EXCEPT ![c] = [op[c] EXCEPT !.dat = dat, !.k = op[c].k + 1]]
    BY DEF CopyByte, Begin
  <1> HIDE DEF byte
  <1>8. /\ dat \in Seq(Bytes) /\ Len(dat) = op[c].k + 1 /\ dat[op[c].k + 1] = byte
        /\ \A b \in 1..op[c].k : dat[b] = op[c].dat[b]
    BY <1>2, <1>3, <1>6, AppendTyped
  <1> QED BY <1>2, <1>3, <1>4, <1>5, <1>7, <1>8 DEF byte

LEMMA CopyByteKeeps == ASSUME IInv, NEW c \in Clients, CopyByte(c) PROVE IInv'
  <1> DEFINE dat == Append(op[c].dat, Seen(config_data[pos[c] + op[c].k]))
             o == [op[c] EXCEPT !.dat = dat, !.k = op[c].k + 1]
  <1>1. /\ op[c].k \in Nat /\ dat \in Seq(Bytes) /\ Len(dat) = op[c].k + 1
        /\ pos[c] + op[c].k \in Places /\ op' = [op EXCEPT ![c] = o]
    BY CopyFacts
  <1>2. /\ CopyInv(c) /\ op[c].kind = "copy" /\ file[c] # 0 /\ status[c] = "open"
        /\ op[c].k < op[c].n /\ op[c] \in Operations /\ pos[c] \in Nat
    BY SizeAssumption DEF IInv, TypeOK, ClientInv, PosInv, CopyByte
  <1> HIDE DEF dat
  <1>3. o \in Operations /\ o.kind = "copy" /\ o.n = op[c].n /\ o.k = op[c].k + 1 /\ o.dat = dat
    <2>1. op[c].k + 1 \in 0..Size BY <1>1, <1>2, SizeAssumption DEF Places
    <2> QED BY <1>1, <1>2, <2>1 DEF Operations
  <1>4. Begin(c, o) BY <1>1 DEF Begin
  <1> HIDE DEF o
  <1>5. op[c].n \in Nat BY <1>2 DEF Operations
  <1>6. op'[c] = o => CopyInv(c)' /\ ItemInv(c)' /\ FillInv(c)' /\ StoreInv(c)'
    BY <1>1, <1>2, <1>3, <1>5
    DEF CopyInv, ItemInv, FillInv, StoreInv, CopyByte, IsWhole, Length
  <1>7. c \notin UsingArray BY <1>2, NotUsing
  <1> QED BY <1>2, <1>3, <1>4, <1>6, <1>7, GoesOn, DisturbedTyped DEF CopyByte, IInv, TypeOK

(* What an operation has gathered is given to the client, and the position *)
(* moves on by as much.                                                    *)
LEMMA GivenKeeps ==
  ASSUME IInv, NEW c \in Clients, file[c] # 0,
         got' = [got EXCEPT ![c] = @ \o op[c].dat],
         NEW n \in Nat, pos' = [pos EXCEPT ![c] = @ + n], n = Len(op[c].dat),
         Len(got[c]) = pos[c], pos[c] + n <= Size,
         IsWhole(c) \/ pos[c] + n = Length(c),
         Return(c, "open"), UNCHANGED <<space, config_data, deviceVars, file>>
  PROVE  IInv'
  <1>1. /\ op' \in [Clients -> Operations] /\ op'[c].kind = "none" /\ status'[c] = "open"
        /\ status' \in [Clients -> {"open", "eof", "failed"}]
        /\ \A b \in Clients \ {c} : op'[b] = op[b] /\ status'[b] = status[b]
    BY LeaveTyped DEF IInv, Return
  <1>2. op[c].dat \in Seq(Bytes) /\ got[c] \in Seq(Bytes) /\ pos[c] \in Nat
    BY SizeAssumption DEF IInv, TypeOK, Operations
  <1>3. got[c] \o op[c].dat \in Seq(Bytes) /\ Len(got[c] \o op[c].dat) = pos[c] + n
    <2>1. \A s, t \in Seq(Bytes) : s \o t \in Seq(Bytes) /\ Len(s \o t) = Len(s) + Len(t)
      BY Concat
    <2>2. /\ got[c] \o op[c].dat \in Seq(Bytes)
          /\ Len(got[c] \o op[c].dat) = Len(got[c]) + Len(op[c].dat)
      BY <1>2, <2>1, Zenon
    <2> QED BY <2>2
  <1>4. pos[c] + n \in 0..(2 * Size - 1) BY <1>2, SizeAssumption
  <1>5. disturbed' \subseteq UsingArray'
    <2>1. disturbed' \subseteq UsingArray \ {c} BY DisturbedTyped DEF Return
    <2> QED BY <1>1, <2>1, UsingKept
  <1>6. TypeOK' BY <1>1, <1>3, <1>4, <1>5 DEF IInv, TypeOK, deviceVars
  <1>7. pos'[c] = pos[c] + n /\ Len(got'[c]) = pos[c] + n BY <1>3 DEF IInv, TypeOK
  <1>8. PosInv(c)'
    BY <1>1, <1>7 DEF PosInv, ShortPos, WholePos, IsWhole, Length
  <1>9. Others(c) BY <1>1 DEF IInv, TypeOK, Others
  <1> QED BY <1>1, <1>6, <1>8, <1>9, ClientStep, NoOperationNext

LEMMA CopyPos ==
  ASSUME IInv, NEW c \in Clients, op[c].kind = "copy"
  PROVE  IsWhole(c) /\ file[c] # 0 /\ Len(got[c]) = pos[c] /\ CopyInv(c) /\ got[c] \in Seq(Bytes)
  <1>1. CopyInv(c) /\ PosInv(c) /\ file[c] # 0 /\ got[c] \in Seq(Bytes)
    BY DEF IInv, TypeOK, ClientInv, PosInv
  <1>2. IsWhole(c) /\ pos[c] < Size /\ pos[c] \in Nat /\ WholePos(c) /\ Len(got[c]) \in Nat
    BY <1>1, SizeAssumption, LenProperties DEF CopyInv, PosInv, IInv, TypeOK
  <1> QED BY <1>1, <1>2, SizeAssumption DEF WholePos

LEMMA CopiedKeeps == ASSUME IInv, NEW c \in Clients, Copied(c) PROVE IInv'
  <1>1. op[c].kind = "copy" /\ op[c].k = op[c].n BY DEF Copied
  <1>2. IsWhole(c) /\ file[c] # 0 /\ Len(got[c]) = pos[c] /\ CopyInv(c) BY <1>1, CopyPos
  <1>3. op[c].n \in Nat BY DEF IInv, TypeOK, Operations
  <1>4. op[c].n = Len(op[c].dat) /\ pos[c] + op[c].n <= Size BY <1>1, <1>2 DEF CopyInv
  <1> QED BY <1>2, <1>3, <1>4, GivenKeeps DEF Copied

LEMMA FunctionIsSeq ==
  ASSUME NEW S, NEW n \in Nat, NEW f \in [1..n -> S] PROVE f \in Seq(S) /\ Len(f) = n
  OBVIOUS

(* The bytes that one access to the device reads.                          *)
StepLen(c) == IF Length(c) = 3 THEN 1 ELSE Length(c)
StepBytes(c) ==
  [b \in 1..StepLen(c) |-> Seen(space[DeviceOf[c]][Offset(c) + op[c].k + b - 1])]

LEMMA StepFacts ==
  ASSUME IInv, NEW c \in Clients, pci_read_config(c)
  PROVE  /\ op[c].k \in Nat /\ op[c].dat \in Seq(Bytes) /\ Len(op[c].dat) = op[c].k
         /\ StepLen(c) \in 1..3 /\ op[c].k + StepLen(c) <= Length(c)
         /\ AllAtOnce(c) => op[c].k + StepLen(c) = Length(c)
         /\ StepBytes(c) \in Seq(Bytes) /\ Len(StepBytes(c)) = StepLen(c)
  <1>1. ItemInv(c) /\ op[c].kind = "item" /\ file[c] # 0 /\ op[c].k < Length(c)
    BY DEF IInv, ClientInv, PosInv, pci_read_config
  <1>2. op[c].k \in Nat /\ op[c].dat \in Seq(Bytes) /\ Len(op[c].dat) = op[c].k
    BY <1>1 DEF IInv, TypeOK, Operations, ItemInv
  <1>3. Length(c) \in 1..3 /\ Offset(c) \in Nat /\ Offset(c) + Length(c) <= Size
    BY <1>1, ClientItem DEF IInv, ItemInv
  <1>4. /\ StepLen(c) \in 1..3 /\ op[c].k + StepLen(c) <= Length(c)
        /\ AllAtOnce(c) => op[c].k + StepLen(c) = Length(c)
    BY <1>1, <1>2, <1>3 DEF StepLen, ItemInv, AllAtOnce
  <1>5. StepBytes(c) \in [1..StepLen(c) -> Bytes]
    <2>1. ASSUME NEW b \in 1..StepLen(c)
          PROVE  Seen(space[DeviceOf[c]][Offset(c) + op[c].k + b - 1]) \in Bytes
      <3>1. /\ Offset(c) \in Int /\ op[c].k \in Int /\ b \in Int /\ StepLen(c) \in Int
            /\ Length(c) \in Int /\ Size \in Int
        BY <1>2, <1>3, <1>4, SizeAssumption
      <3>2. /\ 0 <= Offset(c) /\ 0 <= op[c].k /\ 1 <= b /\ b <= StepLen(c)
            /\ op[c].k + StepLen(c) <= Length(c) /\ Offset(c) + Length(c) <= Size
        BY <1>2, <1>3, <1>4
      <3>3. Offset(c) + op[c].k + b - 1 \in Places BY <3>1, <3>2 DEF Places
      <3>4. DeviceOf[c] \in Devices BY ClientsAssumption
      <3>5. space[DeviceOf[c]][Offset(c) + op[c].k + b - 1] \in Bytes
        BY <3>3, <3>4 DEF IInv, TypeOK
      <3> QED BY <3>5, BytesTyped
    <2> QED BY <2>1 DEF StepBytes
  <1>6. StepBytes(c) \in Seq(Bytes) /\ Len(StepBytes(c)) = StepLen(c)
    <2>1. StepLen(c) \in Nat BY <1>4
    <2> QED BY <1>5, <2>1, FunctionIsSeq
  <1> QED BY <1>2, <1>4, <1>6

LEMMA Shift ==
  ASSUME NEW m \in Nat, NEW n \in Nat, NEW b \in (m + 1)..(m + n)
  PROVE  b - m \in 1..n /\ m + (b - m) = b
  OBVIOUS

LEMMA StepConcat ==
  ASSUME IInv, NEW c \in Clients, pci_read_config(c)
  PROVE  LET dat == op[c].dat \o StepBytes(c) IN
         /\ op' = [op EXCEPT ![c] = [@ EXCEPT !.k = op[c].k + StepLen(c), !.dat = dat]]
         /\ dat \in Seq(Bytes) /\ Len(dat) = op[c].k + StepLen(c)
         /\ \A b \in 1..op[c].k : dat[b] = op[c].dat[b]
         /\ \A b \in (op[c].k + 1)..(op[c].k + StepLen(c)) :
              dat[b] = Seen(space[DeviceOf[c]][Offset(c) + b - 1])
  <1> DEFINE dat == op[c].dat \o StepBytes(c)
  <1>1. /\ op[c].k \in Nat /\ op[c].dat \in Seq(Bytes) /\ Len(op[c].dat) = op[c].k
        /\ StepLen(c) \in 1..3
        /\ StepBytes(c) \in Seq(Bytes) /\ Len(StepBytes(c)) = StepLen(c)
    BY StepFacts
  <1>2. /\ dat \in Seq(Bytes) /\ Len(dat) = Len(op[c].dat) + Len(StepBytes(c))
        /\ \A b \in 1..Len(op[c].dat) : dat[b] = op[c].dat[b]
        /\ \A b \in 1..Len(StepBytes(c)) : dat[Len(op[c].dat) + b] = StepBytes(c)[b]
    <2>1. \A s, t \in Seq(Bytes) :
            /\ s \o t \in Seq(Bytes) /\ Len(s \o t) = Len(s) + Len(t)
            /\ \A b \in 1..Len(s) : (s \o t)[b] = s[b]
            /\ \A b \in 1..Len(t) : (s \o t)[Len(s) + b] = t[b]
      BY Concat
    <2> QED BY <1>1, <2>1, Zenon
  <1> HIDE DEF dat
  <1>3. \A b \in 1..op[c].k : dat[b] = op[c].dat[b] BY <1>1, <1>2
  <1>4. ASSUME NEW b \in (op[c].k + 1)..(op[c].k + StepLen(c))
        PROVE  dat[b] = Seen(space[DeviceOf[c]][Offset(c) + b - 1])
    <2>1. dat[b] = StepBytes(c)[b - op[c].k] /\ b - op[c].k \in 1..StepLen(c)
      <3>1. StepLen(c) \in Nat BY <1>1
      <3>2. b - op[c].k \in 1..StepLen(c) /\ op[c].k + (b - op[c].k) = b
        BY <1>1, <3>1, Shift
      <3> QED BY <1>1, <1>2, <3>2
    <2>2. Offset(c) \in Nat
      BY ClientItem DEF IInv, ClientInv, PosInv, pci_read_config
    <2>3. Offset(c) + op[c].k + (b - op[c].k) - 1 = Offset(c) + b - 1 BY <1>1, <2>2
    <2> QED BY <2>1, <2>3 DEF StepBytes
  <1>5. op' = [op EXCEPT ![c] = [@ EXCEPT !.k = op[c].k + StepLen(c), !.dat = dat]]
    BY DEF pci_read_config, Begin, StepLen, StepBytes, dat, IInv, TypeOK
  <1> QED BY <1>1, <1>2, <1>3, <1>4, <1>5 DEF dat

LEMMA pci_read_configKeeps == ASSUME IInv, NEW c \in Clients, pci_read_config(c) PROVE IInv'
  <1> DEFINE dat == op[c].dat \o StepBytes(c)
             o == [op[c] EXCEPT !.k = op[c].k + StepLen(c), !.dat = dat]
  <1>1. /\ op' = [op EXCEPT ![c] = o]
        /\ dat \in Seq(Bytes) /\ Len(dat) = op[c].k + StepLen(c)
    BY StepConcat
  <1>2. /\ op[c].k \in Nat /\ StepLen(c) \in 1..3 /\ op[c].k + StepLen(c) <= Length(c)
        /\ AllAtOnce(c) => op[c].k + StepLen(c) = Length(c)
    BY StepFacts
  <1>3. op[c].kind = "item" /\ file[c] # 0 /\ status[c] = "open" /\ ItemInv(c)
    BY DEF IInv, ClientInv, PosInv, pci_read_config
  <1>4. Length(c) \in 1..3 /\ Length(c) <= Size
    BY <1>3, ClientItem, SizeAssumption DEF IInv, ItemInv
  <1> HIDE DEF dat
  <1>5. o \in Operations /\ o.kind = "item" /\ o.k = op[c].k + StepLen(c) /\ o.dat = dat
    <2>1. op[c].k + StepLen(c) \in 0..Size BY <1>2, <1>4, SizeAssumption
    <2>2. op[c] \in Operations BY DEF IInv, TypeOK
    <2> QED BY <1>1, <1>3, <2>1, <2>2 DEF Operations
  <1>6. Begin(c, o) BY <1>1 DEF Begin
  <1> HIDE DEF o
  <1>7. op'[c] = o => CopyInv(c)' /\ ItemInv(c)' /\ FillInv(c)' /\ StoreInv(c)'
    BY <1>1, <1>2, <1>3, <1>5
    DEF CopyInv, ItemInv, FillInv, StoreInv, pci_read_config, IsWhole, Length, AllAtOnce
  <1>8. c \notin UsingArray BY <1>3, NotUsing
  <1> QED BY <1>3, <1>5, <1>6, <1>7, <1>8, GoesOn, DisturbedTyped
          DEF pci_read_config, IInv, TypeOK

LEMMA DeliveredKeeps == ASSUME IInv, NEW c \in Clients, Delivered(c) PROVE IInv'
  <1>1. /\ ItemInv(c) /\ PosInv(c) /\ op[c].kind = "item" /\ op[c].k = Length(c)
        /\ file[c] # 0
    BY DEF IInv, ClientInv, PosInv, Delivered
  <1>2. ~IsWhole(c) /\ ShortPos(c) BY <1>1 DEF ItemInv, PosInv
  <1>3. CASE pos[c] > 0
    <2>1. pos[c] = Length(c) BY <1>2, <1>3 DEF ShortPos
    <2> QED BY <1>1, <1>3, <2>1, EndsKeep, DisturbedTyped DEF Delivered, Return, IInv, TypeOK
  <1>4. CASE ~(pos[c] > 0)
    <2>1. pos[c] = 0 BY <1>4 DEF IInv, TypeOK
    <2>2. Length(c) \in Nat /\ Length(c) <= Size
      BY <1>1, ClientItem, SizeAssumption DEF IInv
    <2>3. Len(op[c].dat) = Length(c) /\ Len(got[c]) = 0
      BY <1>1, <1>2, <2>1 DEF ItemInv, ShortPos
    <2>4. /\ got' = [got EXCEPT ![c] = @ \o op[c].dat]
          /\ pos' = [pos EXCEPT ![c] = @ + Length(c)]
          /\ Return(c, "open") /\ UNCHANGED <<space, config_data, deviceVars, file>>
      BY <1>4 DEF Delivered
    <2>5. pos[c] + Length(c) <= Size /\ pos[c] + Length(c) = Length(c)
      BY <2>1, <2>2
    <2> QED BY <1>1, <2>1, <2>2, <2>3, <2>4, <2>5, GivenKeeps
  <1> QED BY <1>3, <1>4

LEMMA ReadFaultsKeeps == ASSUME IInv, NEW c \in Clients, ReadFaults(c) PROVE IInv'
  <1>1. file[c] # 0 BY DEF IInv, ClientInv, PosInv, ReadFaults
  <1> QED BY <1>1, EndsKeep, DisturbedTyped DEF ReadFaults, Return, IInv, TypeOK

(***************************************************************************)
(* Writing.                                                                *)
(***************************************************************************)

LEMMA WriteKeeps ==
  ASSUME IInv, NEW c \in Clients, NEW count \in WriteCounts[c], Write(c, count) PROVE IInv'
  <1> DEFINE o == [NoOp EXCEPT !.kind = IF IsWhole(c) THEN "fill" ELSE "store", !.n = count]
  <1>1. file[c] # 0 /\ status[c] = "open" /\ op[c] = NoOp BY DEF Write, Idle
  <1>2. config_data' \in [Places -> Bytes] /\ space' \in [Devices -> [Places -> Bytes]]
    BY DEF IInv, TypeOK, Write
  <1>3. Length(c) \in Nat /\ pos[c] \in Nat /\ (IsWhole(c) => Length(c) = Size)
    BY <1>1, ClientItem, SizeAssumption DEF IInv, TypeOK
  <1>4. CASE pos[c] >= Length(c)
    <2>1. ~IsWhole(c) => pos[c] = Length(c)
      BY <1>1, <1>3, <1>4 DEF IInv, ClientInv, PosInv, ShortPos
    <2> QED BY <1>1, <1>2, <1>4, <2>1, EndsKeep, DisturbedTyped DEF Write, Return
  <1>5. CASE ~(pos[c] >= Length(c))
    <2>1. /\ o \in Operations /\ o.k = 0
          /\ o.kind = IF IsWhole(c) THEN "fill" ELSE "store"
      BY CountsAssumption, NoOpTyped DEF NoOp, Operations, OpKinds
    <2>2. Begin(c, o) /\ UNCHANGED <<status, disturbed>> BY <1>5 DEF Write
    <2> HIDE DEF o
    <2>3. op'[c] = o => CopyInv(c)' /\ ItemInv(c)' /\ FillInv(c)' /\ StoreInv(c)'
      BY <1>1, <1>3, <1>5, <2>1, SizeAssumption
      DEF CopyInv, ItemInv, FillInv, StoreInv, Write, IsWhole, Length, AllAtOnce
    <2>4. c \notin UsingArray BY <1>1, NotUsing DEF NoOp
    <2> QED BY <1>1, <1>2, <2>1, <2>2, <2>3, <2>4, GoesOn, DisturbedTyped DEF Write
  <1> QED BY <1>4, <1>5

(* What is taken from a client, and what is put where.                     *)
LEMMA PutTyped ==
  ASSUME NEW c \in Clients, NEW count, NEW j, NEW k \in Nat
  PROVE  k < Size => Put(Data(c, count, j), k) \in Bytes /\ ForPlace(Put(Data(c, count, j), k), k)
  <1>1. DeviceOf[c] \in Devices BY ClientsAssumption
  <1> QED BY <1>1, SizeAssumption DEF Data, Put, Byte, Bytes, Stray, ForPlace

LEMMA FillStep ==
  ASSUME IInv, NEW c \in Clients, FillByte(c)
  PROVE  LET o == IF op[c].k + 1 = Size THEN [op[c] EXCEPT !.kind = "store", !.k = 0]
                                        ELSE [op[c] EXCEPT !.k = op[c].k + 1]
             byte == Put(Data(c, op[c].n, pos[c] + op[c].k), op[c].k) IN
         /\ op[c].k \in Places /\ IsWhole(c) /\ file[c] # 0 /\ status[c] = "open"
         /\ byte \in Bytes /\ ForPlace(byte, op[c].k)
         /\ config_data' = [config_data EXCEPT ![op[c].k] = byte]
         /\ Begin(c, o) /\ o \in Operations /\ o.n = op[c].n
         /\ IF op[c].k + 1 = Size THEN o.kind = "store" /\ o.k = 0
                                  ELSE o.kind = "fill" /\ o.k = op[c].k + 1
  <1> DEFINE o == IF op[c].k + 1 = Size THEN [op[c] EXCEPT !.kind = "store", !.k = 0]
                                        ELSE [op[c] EXCEPT !.k = op[c].k + 1]
             byte == Put(Data(c, op[c].n, pos[c] + op[c].k), op[c].k)
             last == [op[c] EXCEPT !.kind = "store", !.k = 0]
             more == [op[c] EXCEPT !.k = op[c].k + 1]
  <1>1. /\ FillInv(c) /\ op[c].kind = "fill" /\ file[c] # 0 /\ status[c] = "open"
        /\ op[c] \in Operations
    BY DEF IInv, TypeOK, ClientInv, PosInv, FillByte
  <1>2. op[c].k \in Nat /\ op[c].k < Size BY <1>1 DEF Operations, FillInv
  <1>3. op[c].k \in Places /\ IsWhole(c) BY <1>1, <1>2, SizeAssumption DEF Places, FillInv
  <1>4. byte \in Bytes /\ ForPlace(byte, op[c].k) BY <1>2, PutTyped
  <1>5. config_data' = [config_data EXCEPT ![op[c].k] = byte] /\ Begin(c, o) BY DEF FillByte
  <1>6. last \in Operations /\ last.n = op[c].n /\ last.kind = "store" /\ last.k = 0
    <2> DEFINE store == [op[c] EXCEPT !.kind = "store"]
    <2>1. store \in Operations /\ store.n = op[c].n /\ store.kind = "store"
      BY <1>1 DEF Operations, OpKinds
    <2>2. last = [store EXCEPT !.k = 0] BY <1>1 DEF Operations
    <2>3. 0 \in 0..Size BY SizeAssumption
    <2> HIDE DEF store, last
    <2> QED BY <2>1, <2>2, <2>3 DEF Operations
  <1>7. /\ more \in Operations /\ more.n = op[c].n
        /\ more.kind = "fill" /\ more.k = op[c].k + 1
    <2>1. op[c].k + 1 \in 0..Size BY <1>2, SizeAssumption
    <2> QED BY <1>1, <2>1 DEF Operations
  <1>8. o = IF op[c].k + 1 = Size THEN last ELSE more OBVIOUS
  <1> HIDE DEF o, byte, last, more
  <1>9. /\ o \in Operations /\ o.n = op[c].n
        /\ IF op[c].k + 1 = Size THEN o.kind = "store" /\ o.k = 0
                                 ELSE o.kind = "fill" /\ o.k = op[c].k + 1
    BY <1>6, <1>7, <1>8
  <1> QED BY <1>1, <1>3, <1>4, <1>5, <1>9 DEF o, byte

LEMMA FillByteKeeps == ASSUME IInv, NEW c \in Clients, FillByte(c) PROVE IInv'
  <1> DEFINE o == IF op[c].k + 1 = Size THEN [op[c] EXCEPT !.kind = "store", !.k = 0]
                                        ELSE [op[c] EXCEPT !.k = op[c].k + 1]
             byte == Put(Data(c, op[c].n, pos[c] + op[c].k), op[c].k)
  <1>1. /\ op[c].k \in Places /\ IsWhole(c) /\ file[c] # 0 /\ status[c] = "open"
        /\ byte \in Bytes /\ config_data' = [config_data EXCEPT ![op[c].k] = byte]
        /\ Begin(c, o) /\ o \in Operations
        /\ IF op[c].k + 1 = Size THEN o.kind = "store" /\ o.k = 0
                                 ELSE o.kind = "fill" /\ o.k = op[c].k + 1
    BY FillStep
  <1> HIDE DEF o, byte
  <1>2. config_data' \in [Places -> Bytes] BY <1>1 DEF IInv, TypeOK
  <1>3. Length(c) = Size /\ pos[c] < Size
    BY <1>1 DEF IInv, ClientInv, FillInv, IsWhole, FillByte
  <1>4. op'[c] = o => CopyInv(c)' /\ ItemInv(c)' /\ FillInv(c)' /\ StoreInv(c)'
    BY <1>1, <1>3, SizeAssumption
    DEF CopyInv, ItemInv, FillInv, StoreInv, FillByte, IsWhole, Length, AllAtOnce, Places
  <1>5. disturbed' \subseteq UsingArray BY DisturbedTyped DEF FillByte
  <1> QED BY <1>1, <1>2, <1>4, <1>5, GoesOn DEF FillByte, IInv, TypeOK

LEMMA FillFaultsKeeps == ASSUME IInv, NEW c \in Clients, FillFaults(c) PROVE IInv'
  <1>1. file[c] # 0 BY DEF IInv, ClientInv, PosInv, FillFaults
  <1>2. config_data' \in [Places -> Bytes] BY BytesTyped DEF IInv, TypeOK, FillFaults
  <1>3. disturbed' \subseteq UsingArray \ {c} BY DisturbedTyped DEF FillFaults
  <1> QED BY <1>1, <1>2, <1>3, EndsKeep DEF FillFaults

LEMMA FetchFaultsKeeps == ASSUME IInv, NEW c \in Clients, FetchFaults(c) PROVE IInv'
  <1>1. file[c] # 0 BY DEF IInv, ClientInv, PosInv, FetchFaults
  <1> QED BY <1>1, EndsKeep, DisturbedTyped DEF FetchFaults, Return, IInv, TypeOK

(* One access writes a byte, or all bytes of the item.                     *)
LEMMA StoreStep ==
  ASSUME IInv, NEW c \in Clients, pci_write_config(c)
  PROVE  /\ op[c].k \in Nat /\ Length(c) \in Nat /\ Offset(c) \in Nat
         /\ op[c].k + Cardinality(StepOf(c, op[c].k)) <= Length(c)
         /\ Cardinality(StepOf(c, op[c].k)) \in Nat \ {0}
         /\ AllAtOnce(c) => op[c].k + Cardinality(StepOf(c, op[c].k)) = Length(c)
         /\ StepOf(c, op[c].k) \subseteq 0..(Length(c) - 1)
  <1>1. StoreInv(c) /\ op[c].kind = "store" /\ file[c] # 0 /\ op[c].k < Length(c)
    BY DEF IInv, ClientInv, PosInv, pci_write_config
  <1>2. op[c].k \in Nat BY DEF IInv, TypeOK, Operations
  <1>3. Length(c) \in Nat /\ Offset(c) \in Nat BY <1>1, ClientItem DEF IInv
  <1>4. CASE AllAtOnce(c)
    <2>1. op[c].k = 0 BY <1>1, <1>2, <1>3, <1>4 DEF StoreInv
    <2>2. StepOf(c, op[c].k) = 0..(Length(c) - 1) BY <1>4 DEF StepOf, AllAtOnce
    <2>3. Cardinality(0..(Length(c) - 1)) = Length(c)
      <3>1. Length(c) - 1 \in Int /\ 0 <= Length(c) - 1 BY <1>1, <1>2, <1>3
      <3>2. Cardinality(0..(Length(c) - 1)) = (Length(c) - 1) - 0 + 1
        BY <3>1, FS_Interval
      <3> QED BY <1>3, <3>2
    <2> QED BY <1>1, <1>2, <1>3, <2>1, <2>2, <2>3
  <1>5. CASE ~AllAtOnce(c)
    <2>1. StepOf(c, op[c].k) = {op[c].k} BY <1>5 DEF StepOf, AllAtOnce
    <2>2. Cardinality({op[c].k}) = 1 BY FS_Singleton
    <2> QED BY <1>1, <1>2, <1>3, <1>5, <2>1, <2>2
  <1> QED BY <1>4, <1>5

(* What is put where: of the array, or of what the client has.             *)
LEMMA StoredTyped ==
  ASSUME IInv, NEW c \in Clients, pci_write_config(c), NEW b \in Places,
         b - Offset(c) \in StepOf(c, op[c].k)
  PROVE  /\ StoredByte(c, b - Offset(c)) \in Bytes
         /\ IsWhole(c) => StoredByte(c, b - Offset(c)) = config_data[b]
         /\ ~IsWhole(c) => StoredByte(c, b - Offset(c)) =
                             Put(Data(c, op[c].n, b - Offset(c)), b)
  <1>1. op[c].kind = "store" /\ file[c] # 0 BY DEF IInv, ClientInv, PosInv, pci_write_config
  <1>2. Offset(c) \in Nat /\ (IsWhole(c) => Offset(c) = 0) BY <1>1, ClientItem DEF IInv
  <1>3. b \in Nat /\ b < Size BY SizeAssumption DEF Places
  <1>4. CASE IsWhole(c)
    <2>1. b - Offset(c) = b BY <1>2, <1>3, <1>4
    <2>2. config_data[b] \in Bytes BY DEF IInv, TypeOK
    <2> QED BY <1>4, <2>1, <2>2 DEF StoredByte
  <1>5. CASE ~IsWhole(c)
    <2>1. Offset(c) + (b - Offset(c)) = b BY <1>2, <1>3
    <2>2. StoredByte(c, b - Offset(c)) = Put(Data(c, op[c].n, b - Offset(c)), b)
      BY <1>5, <2>1 DEF StoredByte
    <2> QED BY <1>3, <1>5, <2>2, PutTyped
  <1> QED BY <1>4, <1>5

(* A write to the device puts these bytes in their places, and leaves the  *)
(* others.                                                                 *)
LEMMA SpaceWritten ==
  ASSUME IInv, NEW c \in Clients, pci_write_config(c), NEW d \in Devices, NEW b \in Places
  PROVE  /\ space' \in [Devices -> [Places -> Bytes]]
         /\ \/ space'[d][b] = space[d][b]
            \/ /\ d = DeviceOf[c]
               /\ \/ IsWhole(c) /\ space'[d][b] = config_data[b]
                  \/ /\ ~IsWhole(c) /\ b - Offset(c) \in 0..(Length(c) - 1)
                     /\ space'[d][b] = Put(Data(c, op[c].n, b - Offset(c)), b)
  <1> DEFINE step == StepOf(c, op[c].k)
             row == [p \in Places |-> IF p - Offset(c) \in step
                                      THEN StoredByte(c, p - Offset(c))
                                      ELSE space[DeviceOf[c]][p]]
  <1>1. DeviceOf[c] \in Devices /\ space[DeviceOf[c]] \in [Places -> Bytes]
    BY ClientsAssumption DEF IInv, TypeOK
  <1>2. space' = [space EXCEPT ![DeviceOf[c]] = row] BY DEF pci_write_config
  <1>3. row[b] = IF b - Offset(c) \in step THEN StoredByte(c, b - Offset(c))
                 ELSE space[DeviceOf[c]][b]
    OBVIOUS
  <1>4. row \in [Places -> Bytes] BY <1>1, StoredTyped
  <1>5. step \subseteq 0..(Length(c) - 1) BY StoreStep
  <1>6. b - Offset(c) \in step =>
          /\ IsWhole(c) => row[b] = config_data[b]
          /\ ~IsWhole(c) => row[b] = Put(Data(c, op[c].n, b - Offset(c)), b)
    BY <1>3, StoredTyped
  <1> HIDE DEF step, row
  <1>7. space' \in [Devices -> [Places -> Bytes]] BY <1>2, <1>4 DEF IInv, TypeOK
  <1>8. CASE d # DeviceOf[c] BY <1>2, <1>7, <1>8 DEF IInv, TypeOK
  <1>9. CASE d = DeviceOf[c]
    <2>1. space'[d][b] = row[b] BY <1>1, <1>2, <1>9 DEF IInv, TypeOK
    <2>2. CASE b - Offset(c) \notin step BY <1>3, <1>7, <1>9, <2>1, <2>2
    <2>3. CASE b - Offset(c) \in step BY <1>5, <1>6, <1>7, <1>9, <2>1, <2>3
    <2> QED BY <2>2, <2>3
  <1> QED BY <1>8, <1>9

(* How far the write is then.                                              *)
LEMMA StoreGoesOn ==
  ASSUME IInv, NEW c \in Clients, pci_write_config(c)
  PROVE  LET o == [op[c] EXCEPT !.k = @ + Cardinality(StepOf(c, op[c].k))] IN
         /\ Begin(c, o) /\ o \in Operations /\ o # op[c]
         /\ o.kind = "store" /\ o.n = op[c].n
         /\ o.k \in Nat /\ o.k <= Length(c) /\ (AllAtOnce(c) => o.k = Length(c))
  <1> DEFINE count == Cardinality(StepOf(c, op[c].k))
             o == [op[c] EXCEPT !.k = @ + count]
  <1>1. op[c].kind = "store" /\ file[c] # 0 /\ op[c] \in Operations
    BY DEF IInv, TypeOK, ClientInv, PosInv, pci_write_config
  <1>2. /\ op[c].k \in Nat /\ count \in Nat \ {0} /\ op[c].k + count <= Length(c)
        /\ Length(c) \in Nat /\ (AllAtOnce(c) => op[c].k + count = Length(c))
    BY StoreStep
  <1>3. Length(c) <= Size BY <1>1, ClientItem, SizeAssumption DEF IInv
  <1>4. Begin(c, o) BY DEF pci_write_config
  <1> HIDE DEF count
  <1>5. o \in Operations /\ o.n = op[c].n /\ o.kind = "store" /\ o.k = op[c].k + count
    <2>1. op[c].k + count \in 0..Size BY <1>2, <1>3, SizeAssumption
    <2> QED BY <1>1, <2>1 DEF Operations
  <1>6. o # op[c]
    <2> HIDE DEF o
    <2>1. o.k # op[c].k BY <1>2, <1>5
    <2> QED BY <2>1
  <1> QED BY <1>2, <1>4, <1>5, <1>6 DEF count

LEMMA pci_write_configKeeps == ASSUME IInv, NEW c \in Clients, pci_write_config(c) PROVE IInv'
  <1> DEFINE o == [op[c] EXCEPT !.k = @ + Cardinality(StepOf(c, op[c].k))]
  <1>1. /\ StoreInv(c) /\ op[c].kind = "store" /\ file[c] # 0 /\ status[c] = "open"
    BY DEF IInv, ClientInv, PosInv, pci_write_config
  <1>2. /\ Begin(c, o) /\ o \in Operations /\ o.kind = "store" /\ o.n = op[c].n
        /\ o.k \in Nat /\ o.k <= Length(c) /\ (AllAtOnce(c) => o.k = Length(c))
    BY StoreGoesOn
  <1> HIDE DEF o
  <1>3. space' \in [Devices -> [Places -> Bytes]]
    <2>1. DeviceOf[c] \in Devices BY ClientsAssumption
    <2>2. 0 \in Places BY SizeAssumption DEF Places
    <2> QED BY <2>1, <2>2, SpaceWritten
  <1>4. op'[c] = o => CopyInv(c)' /\ ItemInv(c)' /\ FillInv(c)' /\ StoreInv(c)'
    BY <1>1, <1>2
    DEF CopyInv, ItemInv, FillInv, StoreInv, pci_write_config, IsWhole, Length, AllAtOnce
  <1> QED BY <1>1, <1>2, <1>3, <1>4, GoesOn, DisturbedTyped DEF pci_write_config, IInv, TypeOK

LEMMA WrittenKeeps == ASSUME IInv, NEW c \in Clients, Written(c) PROVE IInv'
  <1>1. StoreInv(c) /\ PosInv(c) /\ op[c].kind = "store" /\ file[c] # 0
    BY DEF IInv, ClientInv, PosInv, Written
  <1>2. /\ Length(c) \in Nat /\ Length(c) <= Size /\ (IsWhole(c) => Length(c) = Size)
    BY <1>1, ClientItem, SizeAssumption DEF IInv
  <1>3. /\ op' \in [Clients -> Operations] /\ op'[c].kind = "none" /\ status'[c] = "open"
        /\ status' \in [Clients -> {"open", "eof", "failed"}]
        /\ \A b \in Clients \ {c} : op'[b] = op[b] /\ status'[b] = status[b]
    BY LeaveTyped DEF IInv, Written, Return
  <1>4. pos[c] \in Nat /\ pos[c] < Length(c) /\ got[c] \in Seq(Bytes) /\ Len(got[c]) \in Nat
    BY <1>1, SizeAssumption, LenProperties DEF IInv, TypeOK, StoreInv
  <1>5. pos' = [pos EXCEPT ![c] = pos[c] + Length(c)] /\ pos'[c] = pos[c] + Length(c)
    BY DEF IInv, TypeOK, Written
  <1>6. pos[c] + Length(c) \in 0..(2 * Size - 1) BY <1>2, <1>4, SizeAssumption
  <1>7. disturbed' \subseteq UsingArray'
    <2>1. disturbed' \subseteq UsingArray \ {c} BY DisturbedTyped DEF Written, Return
    <2>2. UNCHANGED file BY DEF Written
    <2> QED BY <1>3, <2>1, <2>2, UsingKept
  <1>8. TypeOK'
    <2>1. pos' \in [Clients -> 0..(2 * Size - 1)] BY <1>5, <1>6 DEF IInv, TypeOK
    <2> QED BY <1>3, <1>7, <2>1 DEF IInv, TypeOK, deviceVars, Written
  <1>9. PosInv(c)'
    <2>1. IsWhole(c) => pos[c] = Len(got[c])
      BY <1>1, <1>2, <1>4 DEF PosInv, WholePos
    <2>2. ~IsWhole(c) => pos[c] = 0 /\ Len(got[c]) = 0
      BY <1>1, <1>2, <1>4 DEF PosInv, ShortPos
    <2>3. file'[c] = file[c] /\ got'[c] = got[c] BY DEF Written
    <2> QED BY <1>1, <1>2, <1>3, <1>4, <1>5, <2>1, <2>2, <2>3
            DEF PosInv, ShortPos, WholePos, IsWhole, Length
  <1>10. Others(c) BY <1>3, <1>5 DEF IInv, TypeOK, Others, Written
  <1> QED BY <1>3, <1>8, <1>9, <1>10, ClientStep, NoOperationNext DEF Written

(***************************************************************************)
(* The invariant.                                                          *)
(***************************************************************************)

LEMMA InitInv == Init => IInv
  <1> SUFFICES ASSUME Init PROVE IInv OBVIOUS
  <1>1. TypeOK
    <2>1. <<>> \in Seq(Bytes) /\ Len(Items) \in Nat
      BY EmptySeq, ItemsAssumption, LenProperties
    <2>2. 0 \in 0..(2 * Size - 1) /\ 0 \in 0..Size BY SizeAssumption
    <2> QED BY <2>1, <2>2, BytesTyped, NoOpTyped DEF Init, TypeOK
  <1>2. ASSUME NEW d \in Devices PROVE DeviceInv(d) BY DEF Init, DeviceInv
  <1>3. ASSUME NEW c \in Clients PROVE ClientInv(c)
    <2>1. op[c].kind = "none" BY DEF Init, NoOp
    <2>2. PosInv(c) BY <2>1 DEF Init, PosInv
    <2> QED BY <2>1, <2>2, NoOperation
  <1> QED BY <1>1, <1>2, <1>3 DEF IInv

LEMMA StutterKeeps == ASSUME IInv, UNCHANGED vars PROVE IInv'
  BY DEF IInv, TypeOK, DeviceInv, ClientInv, CopyInv, ItemInv, FillInv, StoreInv, PosInv,
         ShortPos, WholePos, UsingArray, AllAtOnce, IsWhole, Length, vars, deviceVars

LEMMA NextKeeps == ASSUME IInv, [Next]_vars PROVE IInv'
  <1>1. ASSUME NEW c \in Clients, ReadStep(c) PROVE IInv'
    BY <1>1, ReadWholeKeeps, ReadShortKeeps, CopyByteKeeps, CopiedKeeps,
       pci_read_configKeeps, DeliveredKeeps DEF ReadStep
  <1>2. ASSUME NEW c \in Clients, WriteStep(c) PROVE IInv'
    BY <1>2, WriteKeeps, FillByteKeeps, pci_write_configKeeps, WrittenKeeps DEF WriteStep
  <1>3. ASSUME NEW c \in Clients, Fault(c) PROVE IInv'
    BY <1>3, ReadFaultsKeeps, FillFaultsKeeps, FetchFaultsKeeps DEF Fault
  <1> QED BY <1>1, <1>2, <1>3, CreateKeeps, char_openKeeps, char_closeKeeps, StutterKeeps
          DEF Next

(* How far every operation, client and probe is, for any devices and       *)
(* clients.                                                                *)
THEOREM ConfigInvariant == Spec => []IInv
  BY InitInv, NextKeeps, PTL DEF Spec

(* However reads and writes of a file follow each other, its position      *)
(* stays below twice the size of the space, and no byte is taken from      *)
(* outside it.                                                             *)
THEOREM ConfigTypes == Spec => []TypeOK
  <1>1. IInv => TypeOK BY DEF IInv
  <1> QED BY <1>1, ConfigInvariant, PTL

(***************************************************************************)
(* Every byte is one for the place where it is: in the array, in the       *)
(* devices, and in what clients are given, in whatever parts.              *)
(***************************************************************************)
AtPlaces(row) == \A k \in Places : ForPlace(row[k], k)
InPlaces(bytes, from) == \A b \in 1..Len(bytes) : ForPlace(bytes[b], from + b - 1)

DataInv == AtPlaces(config_data) /\ \A d \in Devices : AtPlaces(space[d])

GivenInv(c) ==
  /\ op[c].kind = "copy" => InPlaces(op[c].dat, pos[c])
  /\ op[c].kind = "item" => InPlaces(op[c].dat, Offset(c))
  /\ file[c] # 0 => InPlaces(got[c], Offset(c))

PlacesInv == DataInv /\ \A c \in Clients : GivenInv(c)

LEMMA SpaceSteps ==
  ASSUME [Next]_vars PROVE UNCHANGED space \/ \E c \in Clients : pci_write_config(c)
  BY DEF Next, CreateStep, ReadStep, WriteStep, Fault, cdev_config_init, cdev_add,
         char_open, char_close, ReadWhole, ReadShort, CopyByte, Copied, pci_read_config,
         Delivered, ReadFaults, Write, FillByte, FillFaults, FetchFaults, Written, vars

LEMMA DataSteps ==
  ASSUME [Next]_vars
  PROVE  \/ UNCHANGED config_data
         \/ \E d \in Devices : cdev_config_init(d)
         \/ \E c \in Clients : FillByte(c) \/ FillFaults(c)
  BY DEF Next, CreateStep, ReadStep, WriteStep, Fault, cdev_add,
         char_open, char_close, ReadWhole, ReadShort, CopyByte, Copied, pci_read_config,
         Delivered, ReadFaults, Write, FetchFaults, pci_write_config, Written, vars

LEMMA DataKeeps == ASSUME IInv, DataInv, [Next]_vars PROVE DataInv'
  <1>1. config_data \in [Places -> Bytes] BY DEF IInv, TypeOK
  <1>2. ASSUME NEW d \in Devices, NEW k \in Places PROVE ForPlace(space'[d][k], k)
    <2>1. ForPlace(space[d][k], k) /\ ForPlace(config_data[k], k) BY DEF DataInv, AtPlaces
    <2>2. CASE UNCHANGED space BY <2>1, <2>2
    <2>3. ASSUME NEW c \in Clients, pci_write_config(c) PROVE ForPlace(space'[d][k], k)
      <3>1. k \in Nat /\ k < Size BY SizeAssumption DEF Places
      <3>2. ForPlace(Put(Data(c, op[c].n, k - Offset(c)), k), k) BY <3>1, PutTyped
      <3> QED BY <2>1, <2>3, <3>2, SpaceWritten
    <2> QED BY <2>2, <2>3, SpaceSteps
  <1>3. ASSUME NEW k \in Places PROVE ForPlace(config_data'[k], k)
    <2>1. ForPlace(config_data[k], k) BY DEF DataInv, AtPlaces
    <2>2. CASE UNCHANGED config_data BY <2>1, <2>2
    <2>3. ASSUME NEW d \in Devices, cdev_config_init(d) PROVE ForPlace(config_data'[k], k)
      <3>1. ForPlace(space[d][k], k) BY DEF DataInv, AtPlaces
      <3> QED BY <1>1, <2>1, <2>3, <3>1 DEF cdev_config_init
    <2>4. ASSUME NEW c \in Clients, FillByte(c) PROVE ForPlace(config_data'[k], k)
      <3> DEFINE byte == Put(Data(c, op[c].n, pos[c] + op[c].k), op[c].k)
      <3>1. /\ op[c].k \in Places /\ ForPlace(byte, op[c].k)
            /\ config_data' = [config_data EXCEPT ![op[c].k] = byte]
        BY <2>4, FillStep
      <3> HIDE DEF byte
      <3>2. config_data'[k] = IF k = op[c].k THEN byte ELSE config_data[k] BY <1>1, <3>1
      <3> QED BY <2>1, <3>1, <3>2
    <2>5. ASSUME NEW c \in Clients, FillFaults(c) PROVE ForPlace(config_data'[k], k)
      BY <2>1, <2>5 DEF FillFaults, ForPlace
    <2> QED BY <2>2, <2>3, <2>4, <2>5, DataSteps
  <1> QED BY <1>2, <1>3 DEF DataInv, AtPlaces

(***************************************************************************)
(* What a client is given.                                                 *)
(***************************************************************************)
Kept(c) ==
  /\ file'[c] = file[c] /\ status'[c] = status[c] /\ pos'[c] = pos[c]
  /\ op'[c] = op[c] /\ got'[c] = got[c]

LEMMA GivenFrame ==
  ASSUME NEW c \in Clients, Kept(c), GivenInv(c) PROVE GivenInv(c)'
  BY DEF Kept, GivenInv, InPlaces, Offset

(* Nothing is being read, and what has been given is still the same.       *)
LEMMA GivenStays ==
  ASSUME NEW c \in Clients, GivenInv(c), UNCHANGED <<file, got>>,
         op'[c].kind \notin {"copy", "item"}
  PROVE  GivenInv(c)'
  BY DEF GivenInv, InPlaces, Offset

LEMMA NothingInPlaces == \A from : InPlaces(<<>>, from)
  <1>1. Len(<<>>) = 0 OBVIOUS
  <1> QED BY <1>1 DEF InPlaces

LEMMA SeenForPlace ==
  ASSUME NEW b \in Bytes, NEW k, ForPlace(b, k) PROVE ForPlace(Seen(b), k)
  BY BytesTyped DEF ForPlace

LEMMA CopyByteGiven ==
  ASSUME IInv, DataInv, NEW c \in Clients, GivenInv(c), CopyByte(c) PROVE GivenInv(c)'
  <1> DEFINE place == pos[c] + op[c].k
             dat == Append(op[c].dat, Seen(config_data[place]))
             o == [op[c] EXCEPT !.dat = dat, !.k = op[c].k + 1]
  <1>1. /\ op[c].k \in Nat /\ place \in Places /\ config_data[place] \in Bytes
        /\ Len(op[c].dat) = op[c].k /\ Len(dat) = op[c].k + 1 /\ dat \in Seq(Bytes)
        /\ dat[op[c].k + 1] = Seen(config_data[place])
        /\ \A b \in 1..op[c].k : dat[b] = op[c].dat[b]
        /\ op' = [op EXCEPT ![c] = o]
    BY CopyFacts
  <1>2. op[c].kind = "copy" /\ pos[c] \in Nat /\ op[c] \in Operations
    BY SizeAssumption DEF IInv, TypeOK, CopyByte
  <1>3. ForPlace(Seen(config_data[place]), place)
    BY <1>1, SeenForPlace DEF DataInv, AtPlaces
  <1> HIDE DEF dat, place
  <1>4. o.kind = "copy" /\ o.dat = dat BY <1>1, <1>2 DEF Operations
  <1> HIDE DEF o
  <1>5. InPlaces(dat, pos[c])
    <2> SUFFICES ASSUME NEW b \in 1..Len(dat) PROVE ForPlace(dat[b], pos[c] + b - 1)
      BY DEF InPlaces
    <2>1. CASE b \in 1..op[c].k BY <1>1, <1>2, <2>1 DEF GivenInv, InPlaces
    <2>2. CASE b \notin 1..op[c].k
      <3>1. b = op[c].k + 1 BY <1>1, <2>2
      <3>2. pos[c] + b - 1 = place BY <1>1, <1>2, <3>1 DEF place
      <3> QED BY <1>1, <1>3, <3>1, <3>2
    <2> QED BY <2>1, <2>2
  <1>6. op'[c].kind = "copy" /\ op'[c].dat = dat BY <1>1, <1>4 DEF IInv, TypeOK
  <1>7. UNCHANGED <<file, pos, got>> BY DEF CopyByte
  <1> QED BY <1>5, <1>6, <1>7 DEF GivenInv, InPlaces, Offset

(* Bytes in their places, and the next ones behind them.                   *)
LEMMA JoinInPlaces ==
  ASSUME NEW s \in Seq(Bytes), NEW t \in Seq(Bytes), NEW from \in Nat, NEW next \in Nat,
         next = from + Len(s), InPlaces(s, from), InPlaces(t, next)
  PROVE  InPlaces(s \o t, from)
  <1> DEFINE all == s \o t
  <1>1. Len(s) \in Nat /\ Len(t) \in Nat BY LenProperties
  <1>2. /\ Len(all) = Len(s) + Len(t)
        /\ \A b \in 1..Len(s) : all[b] = s[b]
        /\ \A b \in 1..Len(t) : all[Len(s) + b] = t[b]
    BY Concat
  <1> HIDE DEF all
  <1>3. ASSUME NEW b \in 1..Len(all) PROVE ForPlace(all[b], from + b - 1)
    <2>1. CASE b \in 1..Len(s) BY <1>2, <2>1 DEF InPlaces
    <2>2. CASE b \notin 1..Len(s)
      <3>1. b \in (Len(s) + 1)..(Len(s) + Len(t)) BY <1>1, <1>2, <2>2
      <3>2. b - Len(s) \in 1..Len(t) /\ Len(s) + (b - Len(s)) = b BY <1>1, <3>1, Shift
      <3>3. all[b] = t[b - Len(s)] BY <1>2, <3>2
      <3>4. next + (b - Len(s)) - 1 = from + b - 1 BY <1>1, <3>1
      <3>5. ForPlace(t[b - Len(s)], next + (b - Len(s)) - 1) BY <3>2 DEF InPlaces
      <3> QED BY <3>3, <3>4, <3>5
    <2> QED BY <2>1, <2>2
  <1> QED BY <1>3 DEF InPlaces, all

LEMMA CopiedGiven ==
  ASSUME IInv, NEW c \in Clients, GivenInv(c), Copied(c) PROVE GivenInv(c)'
  <1>1. op[c].kind = "copy" BY DEF Copied
  <1>2. IsWhole(c) /\ file[c] # 0 /\ Len(got[c]) = pos[c] /\ got[c] \in Seq(Bytes)
    BY <1>1, CopyPos
  <1>3. Offset(c) = 0 BY <1>2, ClientItem DEF IInv
  <1>4. op[c].dat \in Seq(Bytes) /\ pos[c] \in Nat
    BY SizeAssumption DEF IInv, TypeOK, Operations
  <1>5. InPlaces(op[c].dat, pos[c]) /\ InPlaces(got[c], 0) BY <1>1, <1>2, <1>3 DEF GivenInv
  <1>6. pos[c] = 0 + Len(got[c]) BY <1>2, <1>4
  <1>7. InPlaces(got[c] \o op[c].dat, 0) BY <1>2, <1>4, <1>5, <1>6, JoinInPlaces
  <1>8. op'[c].kind = "none" BY LeaveTyped DEF IInv, Copied, Return
  <1>9. got'[c] = got[c] \o op[c].dat /\ UNCHANGED file BY DEF Copied, IInv, TypeOK
  <1>10. InPlaces(got'[c], 0) BY <1>7, <1>9
  <1>11. Offset(c)' = 0 BY <1>3, <1>9 DEF Offset
  <1> QED BY <1>8, <1>10, <1>11 DEF GivenInv, InPlaces

LEMMA pci_read_configGiven ==
  ASSUME IInv, DataInv, NEW c \in Clients, GivenInv(c), pci_read_config(c)
  PROVE  GivenInv(c)'
  <1> DEFINE dat == op[c].dat \o StepBytes(c)
             o == [op[c] EXCEPT !.k = op[c].k + StepLen(c), !.dat = dat]
  <1>1. /\ op[c].k \in Nat /\ Len(op[c].dat) = op[c].k
        /\ StepLen(c) \in 1..3 /\ op[c].k + StepLen(c) <= Length(c)
    BY StepFacts
  <1>2. /\ op' = [op EXCEPT ![c] = o]
        /\ dat \in Seq(Bytes) /\ Len(dat) = op[c].k + StepLen(c)
        /\ \A b \in 1..op[c].k : dat[b] = op[c].dat[b]
        /\ \A b \in (op[c].k + 1)..(op[c].k + StepLen(c)) :
             dat[b] = Seen(space[DeviceOf[c]][Offset(c) + b - 1])
    BY StepConcat
  <1> HIDE DEF dat
  <1>3. op[c].kind = "item" /\ file[c] # 0 /\ op[c] \in Operations
    BY DEF IInv, TypeOK, ClientInv, PosInv, pci_read_config
  <1>4. /\ Offset(c) \in Nat /\ Length(c) \in Nat /\ Offset(c) + Length(c) <= Size
    BY <1>3, ClientItem DEF IInv
  <1>5. InPlaces(dat, Offset(c))
    <2> SUFFICES ASSUME NEW b \in 1..Len(dat) PROVE ForPlace(dat[b], Offset(c) + b - 1)
      BY DEF InPlaces
    <2>1. CASE b \in 1..op[c].k BY <1>1, <1>2, <1>3, <2>1 DEF GivenInv, InPlaces
    <2>2. CASE b \notin 1..op[c].k
      <3>1. StepLen(c) \in Nat BY <1>1
      <3>2. b \in (op[c].k + 1)..(op[c].k + StepLen(c)) BY <1>1, <1>2, <2>2, <3>1
      <3>3. b \in Nat /\ 1 <= b /\ b <= Length(c) BY <1>1, <1>4, <3>1, <3>2
      <3>4. Offset(c) + b - 1 \in Places BY <1>4, <3>3, SizeAssumption DEF Places
      <3>5. DeviceOf[c] \in Devices BY ClientsAssumption
      <3>6. space[DeviceOf[c]][Offset(c) + b - 1] \in Bytes BY <3>4, <3>5 DEF IInv, TypeOK
      <3>7. ForPlace(space[DeviceOf[c]][Offset(c) + b - 1], Offset(c) + b - 1)
        BY <3>4, <3>5 DEF DataInv, AtPlaces
      <3> QED BY <1>2, <3>2, <3>6, <3>7, SeenForPlace
    <2> QED BY <2>1, <2>2
  <1>6. o.kind = "item" /\ o.dat = dat BY <1>2, <1>3 DEF Operations
  <1> HIDE DEF o
  <1>7. op'[c].kind = "item" /\ op'[c].dat = dat BY <1>2, <1>6 DEF IInv, TypeOK
  <1>8. UNCHANGED <<file, pos, got>> BY DEF pci_read_config
  <1> QED BY <1>5, <1>7, <1>8 DEF GivenInv, InPlaces, Offset

LEMMA DeliveredGiven ==
  ASSUME IInv, NEW c \in Clients, GivenInv(c), Delivered(c) PROVE GivenInv(c)'
  <1>1. /\ op[c].kind = "item" /\ file[c] # 0 /\ ItemInv(c) /\ PosInv(c)
    BY DEF IInv, ClientInv, PosInv, Delivered
  <1>2. op[c].dat \in Seq(Bytes) /\ got[c] \in Seq(Bytes) BY DEF IInv, TypeOK, Operations
  <1>3. Return(c, "eof") \/ Return(c, "open") BY DEF Delivered
  <1>4. op'[c].kind = "none" BY <1>3, LeaveTyped DEF IInv, Return
  <1>5. CASE pos[c] > 0 BY <1>4, <1>5, GivenStays DEF Delivered
  <1>6. CASE ~(pos[c] > 0)
    <2>1. pos[c] = 0 BY <1>6 DEF IInv, TypeOK
    <2>2. got[c] = <<>>
      <3>1. Len(got[c]) = 0 BY <1>1, <2>1 DEF ItemInv, PosInv, ShortPos
      <3> QED BY <1>2, <3>1, EmptySeq
    <2>3. got'[c] = op[c].dat /\ UNCHANGED file
      <3>1. got' = [got EXCEPT ![c] = @ \o op[c].dat] /\ UNCHANGED file
        BY <1>6 DEF Delivered
      <3>2. got'[c] = got[c] \o op[c].dat BY <3>1 DEF IInv, TypeOK
      <3>3. <<>> \o op[c].dat = op[c].dat BY <1>2, ConcatEmptySeq
      <3> QED BY <2>2, <3>1, <3>2, <3>3
    <2>4. InPlaces(got'[c], Offset(c)) BY <1>1, <2>3 DEF GivenInv
    <2> QED BY <1>4, <2>3, <2>4 DEF GivenInv, InPlaces, Offset
  <1> QED BY <1>5, <1>6

(* A read begins.                                                          *)
LEMMA BeginsGiven ==
  ASSUME IInv, NEW c \in Clients, GivenInv(c), NEW count \in ReadCounts[c],
         ReadWhole(c, count) \/ ReadShort(c, count)
  PROVE  GivenInv(c)'
  <1>1. UNCHANGED <<file, got>> BY DEF ReadWhole, ReadShort
  <1>2. op'[c].dat = <<>>
    <2> DEFINE n == CountFrom(pos[c], count)
               copy == [NoOp EXCEPT !.kind = "copy", !.n = n]
               item == [NoOp EXCEPT !.kind = "item"]
    <2>1. copy.dat = <<>> /\ item.dat = <<>> BY DEF NoOp
    <2>2. Return(c, "eof") \/ Begin(c, copy) \/ Begin(c, item) BY DEF ReadWhole, ReadShort
    <2> HIDE DEF copy, item
    <2>3. op \in [Clients -> Operations] BY DEF IInv, TypeOK
    <2>4. CASE Return(c, "eof") BY <2>3, <2>4 DEF Return, Leave, NoOp
    <2>5. CASE Begin(c, copy) BY <2>1, <2>3, <2>5 DEF Begin
    <2>6. CASE Begin(c, item) BY <2>1, <2>3, <2>6 DEF Begin
    <2> QED BY <2>2, <2>4, <2>5, <2>6
  <1>3. \A from : InPlaces(op'[c].dat, from) BY <1>2, NothingInPlaces
  <1> QED BY <1>1, <1>3 DEF GivenInv, InPlaces, Offset

(* A write, and an operation that fails, give nothing.                     *)
LEMMA OthersGiven ==
  ASSUME IInv, NEW c \in Clients, GivenInv(c), WriteStep(c) \/ Fault(c) PROVE GivenInv(c)'
  <1>1. UNCHANGED <<file, got>>
    BY DEF WriteStep, Fault, Write, FillByte, pci_write_config, Written, ReadFaults,
           FillFaults, FetchFaults
  <1>2. op'[c].kind \notin {"copy", "item"}
    <2>1. CASE \E s \in {"open", "eof", "failed"} : Leave(c, s) BY <2>1, LeaveTyped DEF IInv
    <2>2. ASSUME NEW count \in WriteCounts[c], Write(c, count)
          PROVE  op'[c].kind \notin {"copy", "item"}
      <3> DEFINE o == [NoOp EXCEPT !.kind = IF IsWhole(c) THEN "fill" ELSE "store", !.n = count]
      <3>1. Leave(c, "eof") \/ Begin(c, o) BY <2>2 DEF Write, Return
      <3>2. o.kind \notin {"copy", "item"} BY DEF NoOp
      <3> HIDE DEF o
      <3> QED BY <2>1, <3>1, <3>2 DEF Begin, IInv, TypeOK
    <2>3. CASE FillByte(c)
      <3> DEFINE o == IF op[c].k + 1 = Size THEN [op[c] EXCEPT !.kind = "store", !.k = 0]
                                            ELSE [op[c] EXCEPT !.k = op[c].k + 1]
      <3>1. Begin(c, o) /\ o \in Operations /\ o.kind \in {"fill", "store"}
        BY <2>3, FillStep
      <3> HIDE DEF o
      <3> QED BY <3>1, BeginTyped DEF IInv
    <2>4. CASE pci_write_config(c)
      <3> DEFINE o == [op[c] EXCEPT !.k = @ + Cardinality(StepOf(c, op[c].k))]
      <3>1. Begin(c, o) /\ o \in Operations /\ o.kind = "store" BY <2>4, StoreGoesOn
      <3> HIDE DEF o
      <3> QED BY <3>1, BeginTyped DEF IInv
    <2>5. CASE Written(c) BY <2>1, <2>5 DEF Written, Return
    <2>6. CASE Fault(c)
      BY <2>1, <2>6 DEF Fault, ReadFaults, FillFaults, FetchFaults, Return
    <2> QED BY <2>2, <2>3, <2>4, <2>5, <2>6 DEF WriteStep
  <1> QED BY <1>1, <1>2, GivenStays

LEMMA OpenGiven ==
  ASSUME IInv, NEW c \in Clients, (\E n \in Nodes : char_open(c, n)) \/ char_close(c)
  PROVE  GivenInv(c)'
  <1>1. op'[c].kind = "none"
    BY DEF IInv, ClientInv, PosInv, char_open, char_close, NoOp
  <1>2. got'[c] = <<>> BY DEF IInv, TypeOK, ClientInv, PosInv, char_open, char_close
  <1>3. \A from : InPlaces(got'[c], from) BY <1>2, NothingInPlaces
  <1> QED BY <1>1, <1>3 DEF GivenInv, InPlaces

(* Who acts, and who does not.                                             *)
ClientActs(c) ==
  \/ \E n \in Nodes : char_open(c, n)
  \/ char_close(c) \/ ReadStep(c) \/ WriteStep(c) \/ Fault(c)

LEMMA OthersKept ==
  ASSUME IInv, NEW c \in Clients, ClientActs(c), NEW b \in Clients, b # c PROVE Kept(b)
  BY DEF IInv, TypeOK, ClientActs, ReadStep, WriteStep, Fault, char_open, char_close,
         ReadWhole, ReadShort, CopyByte, Copied, pci_read_config, Delivered, ReadFaults,
         Write, FillByte, FillFaults, FetchFaults, pci_write_config, Written, Begin,
         Return, Leave, Kept

LEMMA CreateKept ==
  ASSUME NEW d \in Devices, CreateStep(d), NEW b \in Clients PROVE Kept(b)
  BY DEF CreateStep, cdev_config_init, cdev_add, Kept

LEMMA PlacesKeep == ASSUME IInv, PlacesInv, [Next]_vars PROVE PlacesInv'
  <1>1. DataInv' BY DataKeeps DEF PlacesInv
  <1>2. ASSUME NEW b \in Clients PROVE GivenInv(b)'
    <2>1. GivenInv(b) /\ DataInv BY DEF PlacesInv
    <2>2. ASSUME NEW d \in Devices, CreateStep(d) PROVE GivenInv(b)'
      BY <2>1, <2>2, CreateKept, GivenFrame
    <2>3. ASSUME NEW c \in Clients, ClientActs(c) PROVE GivenInv(b)'
      <3>1. CASE b # c BY <2>1, <2>3, <3>1, OthersKept, GivenFrame
      <3>2. CASE b = c
        <4>1. CASE (\E n \in Nodes : char_open(c, n)) \/ char_close(c)
          BY <3>2, <4>1, OpenGiven
        <4>2. CASE ReadStep(c)
          BY <2>1, <3>2, <4>2, BeginsGiven, CopyByteGiven, CopiedGiven,
             pci_read_configGiven, DeliveredGiven DEF ReadStep
        <4>3. CASE WriteStep(c) \/ Fault(c) BY <2>1, <3>2, <4>3, OthersGiven
        <4> QED BY <2>3, <4>1, <4>2, <4>3 DEF ClientActs
      <3> QED BY <3>1, <3>2
    <2>4. CASE UNCHANGED vars
      <3>1. Kept(b) BY <2>4 DEF Kept, vars
      <3> QED BY <2>1, <3>1, GivenFrame
    <2> QED BY <2>2, <2>3, <2>4 DEF Next, ClientActs
  <1> QED BY <1>1, <1>2 DEF PlacesInv

(* Every byte in the array, in the devices and given to a client is one    *)
(* for its place.                                                          *)
THEOREM BytesInPlaces == Spec => []PlacesInv
  <1>1. Init => PlacesInv
    <2> SUFFICES ASSUME Init PROVE PlacesInv OBVIOUS
    <2>1. DataInv BY DEF Init, DataInv, AtPlaces, ForPlace, Byte
    <2>2. ASSUME NEW c \in Clients PROVE GivenInv(c)
      BY DEF Init, GivenInv, NoOp
    <2> QED BY <2>1, <2>2 DEF PlacesInv
  <1>2. IInv /\ PlacesInv /\ [Next]_vars => PlacesInv' BY PlacesKeep
  <1> QED BY <1>1, <1>2, ConfigInvariant, PTL DEF Spec

(* A client of a short file is given its item once, every byte in its      *)
(* place, and meets the end only when it has been given it or has written  *)
(* it, whatever other clients and probes do meanwhile.                     *)
THEOREM ShortFilesGivenOnce == Spec => []ShortFilesOnce
  <1>1. IInv /\ PlacesInv => ShortFilesOnce
    <2> SUFFICES ASSUME IInv, PlacesInv, NEW c \in Clients, file[c] # 0, ~IsWhole(c)
                 PROVE  /\ got[c] # <<>> =>
                             /\ Len(got[c]) = Length(c)
                             /\ \A b \in 1..Length(c) : ForPlace(got[c][b], Offset(c) + b - 1)
                        /\ status[c] = "eof" => pos[c] = Length(c)
      BY DEF ShortFilesOnce
    <2>1. ShortPos(c) /\ got[c] \in Seq(Bytes) BY DEF IInv, TypeOK, ClientInv, PosInv
    <2>2. InPlaces(got[c], Offset(c)) BY DEF PlacesInv, GivenInv
    <2>3. ASSUME got[c] # <<>> PROVE Len(got[c]) = Length(c)
      <3>1. Len(got[c]) # 0 BY <2>1, <2>3, EmptySeq
      <3> QED BY <2>1, <3>1 DEF ShortPos
    <2> QED BY <2>1, <2>2, <2>3 DEF ShortPos, InPlaces
  <1> QED BY <1>1, ConfigInvariant, BytesInPlaces, PTL

(* A client is given the config file in order, none of its bytes twice or  *)
(* left out before the end it meets, in whatever parts it reads and writes *)
(* it, whatever other clients write and probes fill the array with.        *)
THEOREM WholeFilesInOrder == Spec => []WholeInOrder
  <1>1. IInv /\ PlacesInv => WholeInOrder
    <2> SUFFICES ASSUME IInv, PlacesInv, NEW c \in Clients, file[c] # 0, IsWhole(c)
                 PROVE  /\ pos[c] - Len(got[c]) \in {0, Size}
                        /\ \A k \in 1..Len(got[c]) : ForPlace(got[c][k], k - 1)
      BY DEF WholeInOrder
    <2>1. WholePos(c) /\ Len(got[c]) \in Nat
      BY LenProperties DEF IInv, TypeOK, ClientInv, PosInv
    <2>2. InPlaces(got[c], 0)
      <3>1. Offset(c) = 0 BY ClientItem DEF IInv
      <3> QED BY <3>1 DEF PlacesInv, GivenInv
    <2>3. pos[c] - Len(got[c]) \in {0, Size} BY <2>1, SizeAssumption DEF WholePos
    <2>4. ASSUME NEW k \in 1..Len(got[c]) PROVE ForPlace(got[c][k], k - 1)
      <3>1. 0 + k - 1 = k - 1 OBVIOUS
      <3> QED BY <2>2, <3>1 DEF InPlaces
    <2> QED BY <2>3, <2>4
  <1> QED BY <1>1, ConfigInvariant, BytesInPlaces, PTL

(***************************************************************************)
(* Whose bytes a write of the config file puts into the array, and then    *)
(* into the device: its own, unless it is one of those that WritesOwn      *)
(* excuses.                                                                *)
(***************************************************************************)
OwnInv(c) ==
  c \in UsingArray /\ ~Excused(c) =>
    \A j \in Places :
      op[c].kind = "store" \/ j < op[c].k => config_data[j] = Byte(DeviceOf[c], j, c)

AllOwn == \A c \in Clients : OwnInv(c)

(* The bytes of a client with data for the whole item, from its beginning. *)
LEMMA OwnData ==
  ASSUME IInv, NEW c \in Clients, file[c] # 0, op[c].kind \in {"fill", "store"}, ~Excused(c),
         NEW j \in Nat, j < Length(c)
  PROVE  /\ pos[c] = 0
         /\ Put(Data(c, op[c].n, j), Offset(c) + j) = Byte(DeviceOf[c], Offset(c) + j, c)
  <1>1. Length(c) \in Nat /\ Offset(c) \in Nat BY ClientItem DEF IInv
  <1>2. pos[c] \in Nat /\ op[c].n \in Nat BY SizeAssumption DEF IInv, TypeOK, Operations
  <1>3. pos[c] = 0 /\ op[c].n >= Length(c) BY <1>1, <1>2 DEF Excused
  <1>4. j < op[c].n /\ pos[c] + j < Length(c) /\ Offset(c) + pos[c] + j = Offset(c) + j
    BY <1>1, <1>2, <1>3
  <1>5. Data(c, op[c].n, j) = Byte(DeviceOf[c], Offset(c) + j, c) BY <1>4 DEF Data
  <1>6. Byte(DeviceOf[c], Offset(c) + j, c).at = Offset(c) + j BY DEF Byte
  <1> QED BY <1>3, <1>5, <1>6 DEF Put

(* Nobody changes the array under a client that then is not in disturbed.  *)
LEMMA OtherOwn ==
  ASSUME NEW c \in Clients, OwnInv(c), Kept(c),
         c \in disturbed => c \in disturbed',
         UNCHANGED config_data \/ (c \in UsingArray => c \in disturbed')
  PROVE  OwnInv(c)'
  <1>1. c \in UsingArray' <=> c \in UsingArray BY DEF Kept, UsingArray, IsWhole, Length
  <1>2. c \in disturbed' \/ (Excused(c)' <=> Excused(c))
    BY DEF Kept, Excused, Length
  <1>3. CASE c \in disturbed' BY <1>3 DEF OwnInv, Excused
  <1>4. CASE c \notin disturbed' /\ c \in UsingArray
    BY <1>1, <1>2, <1>4 DEF OwnInv, Kept
  <1>5. CASE c \notin UsingArray BY <1>1, <1>5 DEF OwnInv
  <1> QED BY <1>3, <1>4, <1>5

LEMMA CreateOwn ==
  ASSUME NEW d \in Devices, CreateStep(d), NEW c \in Clients, OwnInv(c) PROVE OwnInv(c)'
  <1>1. Kept(c) BY CreateKept
  <1>2. c \in disturbed => c \in disturbed' BY DEF CreateStep, cdev_config_init, cdev_add
  <1>3. UNCHANGED config_data \/ (c \in UsingArray => c \in disturbed')
    BY DEF CreateStep, cdev_config_init, cdev_add
  <1> QED BY <1>1, <1>2, <1>3, OtherOwn

LEMMA OthersOwn ==
  ASSUME IInv, NEW b \in Clients, ClientActs(b), NEW c \in Clients, b # c, OwnInv(c)
  PROVE  OwnInv(c)'
  <1>1. Kept(c) BY OthersKept
  <1>2. c \in disturbed => c \in disturbed'
    BY DEF ClientActs, ReadStep, WriteStep, Fault, char_open, char_close, ReadWhole,
           ReadShort, CopyByte, Copied, pci_read_config, Delivered, ReadFaults, Write,
           FillByte, FillFaults, FetchFaults, pci_write_config, Written, Return
  <1>3. UNCHANGED config_data \/ (c \in UsingArray => c \in disturbed')
    BY DEF ClientActs, ReadStep, WriteStep, Fault, char_open, char_close, ReadWhole,
           ReadShort, CopyByte, Copied, pci_read_config, Delivered, ReadFaults, Write,
           FillByte, FillFaults, FetchFaults, pci_write_config, Written
  <1> QED BY <1>1, <1>2, <1>3, OtherOwn

LEMMA FillByteOwn ==
  ASSUME IInv, NEW c \in Clients, FillByte(c), OwnInv(c) PROVE OwnInv(c)'
  <1> DEFINE o == IF op[c].k + 1 = Size THEN [op[c] EXCEPT !.kind = "store", !.k = 0]
                                        ELSE [op[c] EXCEPT !.k = op[c].k + 1]
             byte == Put(Data(c, op[c].n, pos[c] + op[c].k), op[c].k)
  <1>1. /\ op[c].k \in Places /\ IsWhole(c) /\ file[c] # 0
        /\ config_data' = [config_data EXCEPT ![op[c].k] = byte]
        /\ Begin(c, o) /\ o \in Operations /\ o.n = op[c].n
        /\ IF op[c].k + 1 = Size THEN o.kind = "store" /\ o.k = 0
                                 ELSE o.kind = "fill" /\ o.k = op[c].k + 1
    BY FillStep
  <1> HIDE DEF o, byte
  <1>2. op'[c] = o BY <1>1, BeginTyped DEF IInv
  <1>3. UNCHANGED <<file, pos>> /\ op[c].kind = "fill" BY DEF FillByte
  <1> SUFFICES ASSUME ~Excused(c)', NEW j \in Places, op'[c].kind = "store" \/ j < op'[c].k
               PROVE  config_data'[j] = Byte(DeviceOf[c], j, c)
    BY DEF OwnInv
  <1>4. ~Excused(c)
    <2>1. c \in disturbed => c \in disturbed' BY DEF FillByte
    <2> QED BY <1>1, <1>2, <1>3, <2>1 DEF Excused, Length
  <1>5. c \in UsingArray BY <1>1, <1>3 DEF UsingArray
  <1>6. config_data \in [Places -> Bytes] BY DEF IInv, TypeOK
  <1>7. op[c].k \in Nat /\ op[c].k < Length(c) /\ Offset(c) = 0 /\ j \in Nat /\ j < Size
    BY <1>1, ClientItem, SizeAssumption DEF IInv, IsWhole, Places
  <1>8. CASE j = op[c].k
    <2>1. pos[c] = 0 /\ Put(Data(c, op[c].n, j), Offset(c) + j) = Byte(DeviceOf[c], Offset(c) + j, c)
      BY <1>1, <1>3, <1>4, <1>7, <1>8, OwnData
    <2>2. Offset(c) + j = j /\ pos[c] + op[c].k = j BY <1>7, <1>8, <2>1
    <2>3. byte = Byte(DeviceOf[c], j, c) BY <1>8, <2>1, <2>2 DEF byte
    <2> QED BY <1>1, <1>6, <1>8, <2>3
  <1>9. CASE j # op[c].k
    <2>1. j < op[c].k
      <3>1. CASE op[c].k + 1 = Size BY <1>7, <1>9, <3>1
      <3>2. CASE op[c].k + 1 # Size
        <4>1. op'[c].kind = "fill" /\ op'[c].k = op[c].k + 1 BY <1>1, <1>2, <3>2
        <4>2. j < op[c].k + 1 BY <4>1
        <4> QED BY <1>7, <1>9, <4>2
      <3> QED BY <3>1, <3>2
    <2>2. config_data[j] = Byte(DeviceOf[c], j, c) BY <1>4, <1>5, <2>1 DEF OwnInv
    <2> QED BY <1>1, <1>6, <1>9, <2>2
  <1> QED BY <1>8, <1>9

LEMMA pci_write_configOwn ==
  ASSUME IInv, NEW c \in Clients, pci_write_config(c), OwnInv(c) PROVE OwnInv(c)'
  <1> DEFINE o == [op[c] EXCEPT !.k = @ + Cardinality(StepOf(c, op[c].k))]
  <1>1. Begin(c, o) /\ o \in Operations /\ o.kind = "store" /\ o.n = op[c].n
    BY StoreGoesOn
  <1> HIDE DEF o
  <1>2. op'[c] = o BY <1>1, BeginTyped DEF IInv
  <1>3. UNCHANGED <<config_data, file, pos, disturbed>> /\ op[c].kind = "store"
    BY DEF pci_write_config
  <1>4. (c \in UsingArray' <=> c \in UsingArray) /\ (Excused(c)' <=> Excused(c))
    BY <1>1, <1>2, <1>3 DEF UsingArray, Excused, IsWhole, Length
  <1> QED BY <1>1, <1>2, <1>3, <1>4 DEF OwnInv

LEMMA WriteOwn ==
  ASSUME IInv, NEW c \in Clients, NEW count \in WriteCounts[c], Write(c, count)
  PROVE  OwnInv(c)'
  <1> DEFINE o == [NoOp EXCEPT !.kind = IF IsWhole(c) THEN "fill" ELSE "store", !.n = count]
  <1>1. Leave(c, "eof") \/ Begin(c, o) BY DEF Write, Return
  <1>2. CASE Leave(c, "eof")
    <2>1. op'[c].kind = "none" BY <1>2, LeaveTyped DEF IInv
    <2> QED BY <2>1 DEF OwnInv, UsingArray
  <1>3. CASE Begin(c, o)
    <2>1. /\ o \in Operations /\ o.k = 0
          /\ o.kind = IF IsWhole(c) THEN "fill" ELSE "store"
      BY CountsAssumption, NoOpTyped DEF NoOp, Operations, OpKinds
    <2> HIDE DEF o
    <2>2. op'[c] = o BY <1>3, <2>1, BeginTyped DEF IInv
    <2>3. IsWhole(c)' <=> IsWhole(c) BY DEF Write, IsWhole, Length
    <2>4. \A j \in Places : ~(j < 0) BY SizeAssumption DEF Places
    <2> QED BY <2>1, <2>2, <2>3, <2>4 DEF OwnInv, UsingArray
  <1> QED BY <1>1, <1>2, <1>3

(* The other steps of the client leave it outside of a write.              *)
LEMMA ElseOwn ==
  ASSUME IInv, NEW c \in Clients,
         \/ \E n \in Nodes : char_open(c, n)
         \/ char_close(c) \/ ReadStep(c) \/ Written(c) \/ Fault(c)
  PROVE  OwnInv(c)'
  <1> SUFFICES op'[c].kind \notin {"fill", "store"} BY DEF OwnInv, UsingArray
  <1>1. CASE (\E n \in Nodes : char_open(c, n)) \/ char_close(c)
    BY <1>1 DEF IInv, ClientInv, PosInv, char_open, char_close, NoOp
  <1>2. CASE \E s \in {"open", "eof", "failed"} : Leave(c, s) BY <1>2, LeaveTyped DEF IInv
  <1>3. ASSUME NEW count \in ReadCounts[c], ReadWhole(c, count) \/ ReadShort(c, count)
        PROVE  op'[c].kind \notin {"fill", "store"}
    <2> DEFINE n == CountFrom(pos[c], count)
               copy == [NoOp EXCEPT !.kind = "copy", !.n = n]
               item == [NoOp EXCEPT !.kind = "item"]
    <2>1. copy.kind = "copy" /\ item.kind = "item" BY DEF NoOp
    <2>2. Leave(c, "eof") \/ Begin(c, copy) \/ Begin(c, item)
      BY <1>3 DEF ReadWhole, ReadShort, Return
    <2> HIDE DEF copy, item
    <2> QED BY <1>2, <2>1, <2>2 DEF Begin, IInv, TypeOK
  <1>4. CASE CopyByte(c)
    <2> DEFINE dat == Append(op[c].dat, Seen(config_data[pos[c] + op[c].k]))
               o == [op[c] EXCEPT !.dat = dat, !.k = op[c].k + 1]
    <2>1. op' = [op EXCEPT ![c] = o] BY <1>4, CopyFacts
    <2> HIDE DEF dat
    <2>2. o.kind = "copy" BY <1>4 DEF CopyByte, IInv, TypeOK, Operations
    <2> HIDE DEF o
    <2> QED BY <2>1, <2>2 DEF IInv, TypeOK
  <1>5. CASE pci_read_config(c)
    <2> DEFINE dat == op[c].dat \o StepBytes(c)
               o == [op[c] EXCEPT !.k = op[c].k + StepLen(c), !.dat = dat]
    <2>1. op' = [op EXCEPT ![c] = o] BY <1>5, StepConcat
    <2> HIDE DEF dat
    <2>2. o.kind = "item" BY <1>5 DEF pci_read_config, IInv, TypeOK, Operations
    <2> HIDE DEF o
    <2> QED BY <2>1, <2>2 DEF IInv, TypeOK
  <1>6. CASE Copied(c) \/ Delivered(c) \/ Written(c) \/ Fault(c)
    BY <1>2, <1>6 DEF Copied, Delivered, Written, Fault, ReadFaults, FillFaults,
                      FetchFaults, Return
  <1> QED BY <1>1, <1>3, <1>4, <1>5, <1>6 DEF ReadStep

LEMMA OwnKeeps == ASSUME IInv, AllOwn, [Next]_vars PROVE AllOwn'
  <1> SUFFICES ASSUME NEW c \in Clients PROVE OwnInv(c)' BY DEF AllOwn
  <1>1. OwnInv(c) BY DEF AllOwn
  <1>2. ASSUME NEW d \in Devices, CreateStep(d) PROVE OwnInv(c)' BY <1>1, <1>2, CreateOwn
  <1>3. ASSUME NEW b \in Clients, ClientActs(b) PROVE OwnInv(c)'
    <2>1. CASE b # c BY <1>1, <1>3, <2>1, OthersOwn
    <2>2. CASE b = c
      <3>1. CASE \/ \E n \in Nodes : char_open(c, n)
                 \/ char_close(c) \/ ReadStep(c) \/ Written(c) \/ Fault(c)
        BY <3>1, ElseOwn
      <3>2. CASE \E count \in WriteCounts[c] : Write(c, count) BY <3>2, WriteOwn
      <3>3. CASE FillByte(c) \/ pci_write_config(c)
        BY <1>1, <3>3, FillByteOwn, pci_write_configOwn
      <3> QED BY <1>3, <2>2, <3>1, <3>2, <3>3 DEF ClientActs, WriteStep
    <2> QED BY <2>1, <2>2
  <1>4. CASE UNCHANGED vars
    BY <1>1, <1>4 DEF OwnInv, Excused, UsingArray, IsWhole, Length, vars
  <1> QED BY <1>2, <1>3, <1>4 DEF Next, ClientActs

(* What a step changes in a device.                                        *)
LEMMA StoresOwn ==
  ASSUME IInv, AllOwn, [Next]_vars, NEW d \in Devices, NEW k \in Places,
         space'[d][k] # space[d][k]
  PROVE  \E c \in Clients :
           Stores(c, d) /\ (space'[d][k] = Byte(d, k, c) \/ Excused(c))
  <1>1. PICK c \in Clients : pci_write_config(c) BY SpaceSteps
  <1>2. /\ d = DeviceOf[c]
        /\ \/ IsWhole(c) /\ space'[d][k] = config_data[k]
           \/ /\ ~IsWhole(c) /\ k - Offset(c) \in 0..(Length(c) - 1)
              /\ space'[d][k] = Put(Data(c, op[c].n, k - Offset(c)), k)
    BY <1>1, SpaceWritten
  <1>3. op[c].kind = "store" /\ file[c] # 0
    BY <1>1 DEF IInv, ClientInv, PosInv, pci_write_config
  <1>4. op'[c] # op[c]
    <2> DEFINE o == [op[c] EXCEPT !.k = @ + Cardinality(StepOf(c, op[c].k))]
    <2>1. Begin(c, o) /\ o \in Operations /\ o # op[c] BY <1>1, StoreGoesOn
    <2> HIDE DEF o
    <2> QED BY <2>1, BeginTyped DEF IInv
  <1>5. Stores(c, d) BY <1>2, <1>3, <1>4 DEF Stores
  <1>6. ASSUME ~Excused(c) PROVE space'[d][k] = Byte(d, k, c)
    <2>1. CASE IsWhole(c)
      <3>1. c \in UsingArray BY <1>3, <2>1 DEF UsingArray
      <3>2. config_data[k] = Byte(DeviceOf[c], k, c) BY <1>3, <1>6, <3>1 DEF AllOwn, OwnInv
      <3> QED BY <1>2, <2>1, <3>2
    <2>2. CASE ~IsWhole(c)
      <3>1. Length(c) \in Nat /\ Offset(c) \in Nat BY <1>3, ClientItem DEF IInv
      <3>2. k - Offset(c) \in Nat /\ k - Offset(c) < Length(c) BY <1>2, <2>2, <3>1
      <3>3. Offset(c) + (k - Offset(c)) = k BY <3>1 DEF Places
      <3>4. Put(Data(c, op[c].n, k - Offset(c)), Offset(c) + (k - Offset(c)))
              = Byte(DeviceOf[c], Offset(c) + (k - Offset(c)), c)
        BY <1>3, <1>6, <3>2, OwnData
      <3> QED BY <1>2, <2>2, <3>3, <3>4
    <2> QED BY <2>1, <2>2
  <1> QED BY <1>5, <1>6

(* What a write changes in a device are its own bytes, byte for byte, also *)
(* when other clients write, have failed to, or a probe fills the array    *)
(* between its steps, unless it is one of those that are excused.          *)
THEOREM WritesPutOwn == Spec => WritesOwn
  <1>1. Init => AllOwn BY DEF Init, AllOwn, OwnInv, UsingArray, NoOp
  <1>2. IInv /\ AllOwn /\ [Next]_vars => AllOwn' BY OwnKeeps
  <1>3. IInv /\ AllOwn /\ [Next]_vars =>
          [\A d \in Devices, k \in Places : space'[d][k] # space[d][k] =>
             \E c \in Clients :
               Stores(c, d) /\ (space'[d][k] = Byte(d, k, c) \/ Excused(c))]_vars
    BY StoresOwn
  <1> QED BY <1>1, <1>2, <1>3, ConfigInvariant, PTL DEF Spec, WritesOwn
=============================================================================
