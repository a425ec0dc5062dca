----------------------------- MODULE CtrlFiles -----------------------------
(***************************************************************************)
(* The control files of xgpu_drv/cdev_ctrl.c: reading and writing words of *)
(* a BAR, and mapping it.  The three files of ifwi_items stand for the     *)
(* config BAR and the two after it, whether they are there or not          *)
(* (file_create_interface gives the n-th file the BAR config_bar_idx + n). *)
(* The arithmetic of bridge_mmap is that of unsigned long, of Word values. *)
(*                                                                         *)
(* The ioctls that set and clear the offline flag are in LibXgpu.          *)
(***************************************************************************)
EXTENDS Integers

CONSTANTS
  Lengths,       \* the lengths a BAR may have, 0 for a BAR that is absent
  Start,         \* Start[b]: the physical address of a BAR, 0 if absent
  PageSize, Word,
  Counts,        \* the lengths a client reads and writes
  Positions,     \* the positions of the reads and writes that name one
  Offsets,       \* the offsets and sizes, in pages, that are mapped
  MaxPos         \* bound: how far a client reads on

config_bar_idx == 1
NodeBars == config_bar_idx..config_bar_idx + 2

(* A BAR lies in the address space, and what a client names in pages is an *)
(* address too.                                                            *)
ASSUME PageAssumption == PageSize \in Nat /\ PageSize > 1 /\ Word \in Nat \ {0}
ASSUME LengthsAssumption == \A n \in Lengths : n \in 0..Word - 1 /\ n % PageSize = 0
ASSUME StartAssumption ==
  /\ Start \in [NodeBars -> 0..Word - 1]
  /\ \A b \in NodeBars : Start[b] % PageSize = 0 /\ \A n \in Lengths : Start[b] + n <= Word
ASSUME PositionsAssumption == Positions \subseteq Nat
ASSUME OffsetsAssumption == Offsets \subseteq Nat /\ \A o \in Offsets : o * PageSize < Word

VARIABLES
  bar_len,       \* pci_resource_len of each BAR that has a file
  bar,           \* xcdev->bar of the open file, 0 if none is open
  pos,           \* *pos of the file
  access,        \* the last access to the device: BAR, address in it, count
  result,        \* what the last call has returned
  vma            \* what the client has mapped: BAR, offset, address and size

vars == <<bar_len, bar, pos, access, result, vma>>

NoAccess == [bar |-> 0, at |-> 0, count |-> 0]
NoVma == [bar |-> 0, off |-> 0, phys |-> 0, size |-> 0]

Init ==
  /\ bar_len \in [NodeBars -> Lengths]
  /\ bar = 0 /\ pos = 0
  /\ access = NoAccess /\ result = "ok" /\ vma = NoVma

char_open(b) ==
  /\ bar = 0
  /\ bar' = b /\ pos' = 0 /\ result' = "ok"
  /\ UNCHANGED <<bar_len, access, vma>>

(* The mapping of a client outlives the file.                              *)
char_close ==
  /\ bar # 0
  /\ bar' = 0 /\ access' = NoAccess
  /\ UNCHANGED <<bar_len, pos, result, vma>>

(***************************************************************************)
(* char_ctrl_read and char_ctrl_write, which differ in the direction only, *)
(* at the position of the file or at one that the call names.  They go on  *)
(* when the buffer of the client cannot be copied.                         *)
(***************************************************************************)
Refused(at) == at % 4 # 0

(* Mutant: the position advances by the count that was asked for.          *)
Advance_Count(count) == count
Advance(count) == 4

Transfer(at, count) ==
  IF Refused(at)
  THEN result' = "EPROTO" /\ UNCHANGED access
  ELSE result' = "ok" /\ access' = [bar |-> bar, at |-> at, count |-> count]

char_ctrl_read_write(count) ==
  /\ bar # 0 /\ pos < MaxPos
  /\ Transfer(pos, count)
  /\ pos' = IF Refused(pos) THEN pos ELSE pos + Advance(count)
  /\ UNCHANGED <<bar_len, bar, vma>>

(* pread and pwrite: the position of the file stays.                       *)
char_ctrl_read_write_at(at, count) ==
  /\ bar # 0
  /\ at % 4 # 0 \/ at < MaxPos
  /\ Transfer(at, count)
  /\ UNCHANGED <<bar_len, bar, pos, vma>>

(***************************************************************************)
(* bridge_mmap.  The size of the resource is computed from its first and   *)
(* last address, both 0 when it is absent, and from it the offset is taken *)
(* away, each time modulo the size of a word.                              *)
(***************************************************************************)
resource_start(b) == IF bar_len[b] = 0 THEN 0 ELSE Start[b]
resource_end(b) == IF bar_len[b] = 0 THEN 0 ELSE Start[b] + bar_len[b] - 1

(* Mutant: the offset is not taken away.                                   *)
psize_Whole(b, off) == (resource_end(b) - resource_start(b) + 1) % Word
psize(b, off) == (resource_end(b) - resource_start(b) + 1 - off) % Word

bridge_mmap(off, vsize) ==
  LET phys == (resource_start(bar) + off) % Word IN
  /\ bar # 0 /\ vma = NoVma
  /\ IF vsize > psize(bar, off)
     THEN result' = "EINVAL" /\ UNCHANGED vma
     ELSE /\ result' = "ok"
          /\ vma' = [bar |-> bar, off |-> off, phys |-> phys, size |-> vsize]
  /\ UNCHANGED <<bar_len, bar, pos, access>>

munmap ==
  /\ vma # NoVma
  /\ vma' = NoVma
  /\ UNCHANGED <<bar_len, bar, pos, access, result>>

Next ==
  \/ \E b \in NodeBars : char_open(b)
  \/ char_close
  \/ \E count \in Counts :
       \/ char_ctrl_read_write(count)
       \/ \E at \in Positions : char_ctrl_read_write_at(at, count)
  \/ \E off, n \in Offsets : n > 0 /\ bridge_mmap(off * PageSize, n * PageSize)
  \/ munmap

Spec == Init /\ [][Next]_vars

(***************************************************************************)
(* Properties.                                                             *)
(***************************************************************************)

(* The type invariant; a client that only reads and writes on stays at a   *)
(* multiple of 4.                                                          *)
TypeOK ==
  /\ bar_len \in [NodeBars -> Lengths]
  /\ bar \in NodeBars \cup {0}
  /\ pos \in Nat /\ pos % 4 = 0
  /\ access.bar \in NodeBars \cup {0} /\ access.at \in Nat
  /\ result \in {"ok", "EPROTO", "EINVAL"}
  /\ vma \in [bar : NodeBars \cup {0}, off : Nat, phys : 0..Word - 1, size : Nat]

VmaInBar ==
  /\ resource_start(vma.bar) <= vma.phys
  /\ vma.phys + vma.size <= resource_start(vma.bar) + bar_len[vma.bar]

(* A mapping at an offset up to the end of the BAR lies within the BAR,    *)
(* whatever its size, and there is none of an absent BAR, although its     *)
(* length comes out as 1.                                                  *)
MmapInBar == vma # NoVma /\ vma.off <= bar_len[vma.bar] => VmaInBar

(* A mapping at any offset lies within the BAR.                            *)
MmapStaysInBar == vma # NoVma => VmaInBar

(* An access to the device lies within a BAR that is there, at the start   *)
(* of it plus the position.                                                *)
AccessInBar ==
  access # NoAccess => bar_len[access.bar] > 0 /\ access.at + 4 <= bar_len[access.bar]
=============================================================================
