-------------------------- MODULE CtrlFilesProofs --------------------------
(***************************************************************************)
(* Proofs about CtrlFiles, for any BARs, size of a page and of a word: a   *)
(* mapping that bridge_mmap allows lies within the BAR of the file.        *)
(***************************************************************************)
EXTENDS CtrlFiles, TLAPS

(***************************************************************************)
(* The arithmetic of unsigned long.                                        *)
(***************************************************************************)

(* What fits a word is not changed by it.                                  *)
LEMMA FitsWord ==
  ASSUME NEW w \in Nat, NEW n \in Int, 0 <= n, n < w PROVE n % w = n
  OBVIOUS

LEMMA InWord ==
  ASSUME NEW n \in Int PROVE n % Word \in 0..Word - 1
  BY PageAssumption

(* A mapping of at least one page is longer than 1, which is the length    *)
(* that an absent BAR has.                                                 *)
LEMMA PagesAreLong ==
  ASSUME NEW n \in Nat, n > 0 PROVE n * PageSize \in Nat /\ n * PageSize > 1
  <1>1. PageSize \in Nat /\ PageSize > 1 BY PageAssumption
  <1>2. n * PageSize = PageSize + (n - 1) * PageSize /\ (n - 1) * PageSize >= 0 BY <1>1
  <1> QED BY <1>1, <1>2

(***************************************************************************)
(* The inductive invariant.                                                *)
(***************************************************************************)

(* A mapping is one of a file's BAR.                                       *)
IInv == TypeOK /\ (vma # NoVma => vma.bar \in NodeBars) /\ MmapInBar

LEMMA BarInSpace ==
  ASSUME TypeOK, NEW b \in NodeBars
  PROVE  /\ Word \in Nat \ {0} /\ bar_len[b] \in 0..Word - 1
         /\ Start[b] \in 0..Word - 1 /\ Start[b] + bar_len[b] <= Word
  BY PageAssumption, LengthsAssumption, StartAssumption DEF TypeOK

(* The check of bridge_mmap leaves no more than what is behind the offset, *)
(* if that is not behind the BAR; of an absent BAR it leaves nothing.      *)
LEMMA SizeLeft ==
  ASSUME TypeOK, NEW b \in NodeBars, NEW off \in Nat, off <= bar_len[b],
         NEW size \in Nat, size > 1, size <= psize(b, off)
  PROVE  /\ (resource_start(b) + off) % Word = resource_start(b) + off
         /\ off + size <= bar_len[b]
  <1>1. /\ Word \in Nat \ {0} /\ bar_len[b] \in 0..Word - 1
        /\ Start[b] \in 0..Word - 1 /\ Start[b] + bar_len[b] <= Word
    BY BarInSpace
  <1>2. CASE bar_len[b] = 0
    <2>1. off = 0 /\ psize(b, off) = 1 % Word
      BY <1>2 DEF psize, resource_start, resource_end
    <2>2. CASE Word = 1 BY <1>1, <2>1, <2>2
    <2>3. CASE Word > 1
      <3>1. 1 % Word = 1 BY <1>1, <2>3, FitsWord
      <3> QED BY <2>1, <3>1
    <2> QED BY <1>1, <2>2, <2>3
  <1>3. CASE bar_len[b] # 0
    <2>1. psize(b, off) = (bar_len[b] - off) % Word /\ resource_start(b) = Start[b]
      BY <1>1, <1>3 DEF psize, resource_start, resource_end
    <2>2. bar_len[b] - off \in Int /\ 0 <= bar_len[b] - off /\ bar_len[b] - off < Word
      BY <1>1
    <2>3. psize(b, off) = bar_len[b] - off BY <1>1, <2>1, <2>2, FitsWord
    <2>4. off + size <= bar_len[b] BY <1>1, <2>3
    <2>5. Start[b] + off \in Int /\ 0 <= Start[b] + off /\ Start[b] + off < Word
      BY <1>1, <2>4
    <2> QED BY <1>1, <2>1, <2>4, <2>5, FitsWord
  <1> QED BY <1>2, <1>3

LEMMA bridge_mmapKeeps ==
  ASSUME IInv, NEW off \in Offsets, NEW n \in Offsets, n > 0,
         bridge_mmap(off * PageSize, n * PageSize)
  PROVE  IInv'
  <1> DEFINE o == off * PageSize
             size == n * PageSize
             phys == (resource_start(bar) + o) % Word
  <1>1. o \in Nat /\ size \in Nat /\ size > 1
    BY OffsetsAssumption, PageAssumption, PagesAreLong
  <1>2. bar \in NodeBars /\ UNCHANGED <<bar_len, bar, pos, access>>
    BY DEF bridge_mmap, IInv, TypeOK
  <1>3. resource_start(bar) \in Nat
    BY <1>2, StartAssumption DEF resource_start
  <1>4. phys \in 0..Word - 1 BY <1>1, <1>3, InWord
  <1>5. bridge_mmap(o, size) OBVIOUS
  <1> HIDE DEF o, size
  <1>6. CASE size > psize(bar, o)
    <2>1. UNCHANGED vma /\ result' = "EINVAL" BY <1>5, <1>6 DEF bridge_mmap
    <2> QED BY <1>2, <2>1 DEF IInv, TypeOK, MmapInBar, VmaInBar, resource_start
  <1>7. CASE ~(size > psize(bar, o))
    <2>1. result' = "ok" /\ vma' = [bar |-> bar, off |-> o, phys |-> phys, size |-> size]
      BY <1>5, <1>7 DEF bridge_mmap
    <2>2. psize(bar, o) \in Nat
      <3>1. resource_end(bar) \in Int
        BY <1>2, BarInSpace DEF IInv, resource_end
      <3> QED BY <1>1, <1>3, <3>1, InWord DEF psize
    <2>3. o <= bar_len[bar] => resource_start(bar) <= phys
                               /\ phys + size <= resource_start(bar) + bar_len[bar]
      <3> SUFFICES ASSUME o <= bar_len[bar]
                   PROVE  resource_start(bar) <= phys
                          /\ phys + size <= resource_start(bar) + bar_len[bar]
        OBVIOUS
      <3>1. phys = resource_start(bar) + o /\ o + size <= bar_len[bar]
        BY <1>1, <1>2, <1>7, <2>2, SizeLeft DEF IInv
      <3>2. bar_len[bar] \in Nat BY <1>2, BarInSpace DEF IInv
      <3> QED BY <1>1, <1>3, <3>1, <3>2
    <2>4. TypeOK' BY <1>1, <1>2, <1>4, <2>1 DEF IInv, TypeOK
    <2>5. MmapInBar'
      BY <1>2, <2>1, <2>3 DEF MmapInBar, VmaInBar, resource_start
    <2> QED BY <1>2, <2>1, <2>4, <2>5 DEF IInv
  <1> QED BY <1>6, <1>7

(***************************************************************************)
(* The other operations leave the mapping as it is, or undo it.            *)
(***************************************************************************)

LEMMA TransferTyped ==
  ASSUME TypeOK, bar # 0, NEW at \in Nat, NEW count, Transfer(at, count)
  PROVE  /\ (access.bar \in NodeBars \cup {0} /\ access.at \in Nat)'
         /\ result' \in {"ok", "EPROTO"}
  BY DEF TypeOK, Transfer

LEMMA KeepsMapping ==
  ASSUME IInv, UNCHANGED <<bar_len, vma>>, TypeOK' PROVE IInv'
  BY DEF IInv, MmapInBar, VmaInBar, resource_start

LEMMA FileKeeps ==
  ASSUME IInv,
         \/ \E b \in NodeBars : char_open(b)
         \/ char_close
         \/ \E count \in Counts :
              \/ char_ctrl_read_write(count)
              \/ \E at \in Positions : char_ctrl_read_write_at(at, count)
  PROVE  IInv'
  <1>1. CASE \E b \in NodeBars : char_open(b)
    <2>1. TypeOK' BY <1>1 DEF IInv, TypeOK, char_open
    <2> QED BY <1>1, <2>1, KeepsMapping DEF char_open
  <1>2. CASE char_close
    <2>1. TypeOK' BY <1>2 DEF IInv, TypeOK, char_close, NoAccess
    <2> QED BY <1>2, <2>1, KeepsMapping DEF char_close
  <1>3. ASSUME NEW count \in Counts, char_ctrl_read_write(count) PROVE IInv'
    <2>1. pos' \in Nat /\ pos' % 4 = 0
      BY <1>3 DEF IInv, TypeOK, char_ctrl_read_write, Advance
    <2>2. TypeOK'
      BY <1>3, <2>1, TransferTyped DEF IInv, TypeOK, char_ctrl_read_write
    <2> QED BY <1>3, <2>2, KeepsMapping DEF char_ctrl_read_write
  <1>4. ASSUME NEW count \in Counts, NEW at \in Positions, char_ctrl_read_write_at(at, count)
        PROVE  IInv'
    <2>1. at \in Nat BY PositionsAssumption
    <2>2. TypeOK'
      BY <1>4, <2>1, TransferTyped DEF IInv, TypeOK, char_ctrl_read_write_at
    <2> QED BY <1>4, <2>2, KeepsMapping DEF char_ctrl_read_write_at
  <1> QED BY <1>1, <1>2, <1>3, <1>4

LEMMA munmapKeeps == ASSUME IInv, munmap PROVE IInv'
  <1>1. TypeOK' BY PageAssumption DEF IInv, TypeOK, munmap, NoVma
  <1> QED BY <1>1 DEF IInv, MmapInBar, munmap

(***************************************************************************)
(* The theorems.                                                           *)
(***************************************************************************)

LEMMA InitInv == Init => IInv
  BY PageAssumption DEF Init, IInv, TypeOK, MmapInBar, NoAccess, NoVma

LEMMA NextKeeps == ASSUME IInv, [Next]_vars PROVE IInv'
  <1>1. CASE UNCHANGED vars
    BY <1>1 DEF IInv, TypeOK, MmapInBar, VmaInBar, resource_start, vars
  <1> QED BY <1>1, FileKeeps, bridge_mmapKeeps, munmapKeeps DEF Next

(* The invariant of any sequence of calls on the control files.            *)
THEOREM CtrlInvariant == Spec => []IInv
  BY InitInv, NextKeeps, PTL DEF Spec

(* The positions and results of the control files, and what is mapped.     *)
THEOREM CtrlTypes == Spec => []TypeOK
  <1>1. IInv => TypeOK BY DEF IInv
  <1> QED BY <1>1, CtrlInvariant, PTL

(* A mapping at an offset up to the end of its BAR lies within the BAR,    *)
(* although the size left is computed modulo the size of a word.           *)
THEOREM MappingsInBars == Spec => []MmapInBar
  <1>1. IInv => MmapInBar BY DEF IInv
  <1> QED BY <1>1, CtrlInvariant, PTL
=============================================================================
