--------------------------- MODULE PcieEnumProofs ---------------------------
(***************************************************************************)
(* Proofs about the enumeration tool, for any devices, machines and        *)
(* options, whatever is plugged while it runs.                             *)
(***************************************************************************)
EXTENDS PcieEnum, SequenceTheorems, FiniteSetTheorems, WellFoundedInduction, TLAPS

(***************************************************************************)
(* Induction, for a set of numbers: the library's theorem is for an        *)
(* operator, so that this one is from the order of the numbers.            *)
(***************************************************************************)
LEMMA SetInduction ==
  ASSUME NEW S, 0 \in S, \A n \in Nat : n \in S => n + 1 \in S
  PROVE  Nat \subseteq S
  <1> DEFINE Less == OpToRel(<, Nat)
             Others == {n \in Nat : n \notin S}
  <1>1. IsWellFoundedOn(Less, Nat) BY NatLessThanWellFounded
  <1>2. \A x, y \in Nat : x < y => <<x, y>> \in Less BY DEF OpToRel
  <1> HIDE DEF Less
  <1>3. ASSUME Others # {} PROVE FALSE
    <2>1. PICK x \in Others : \A y \in Others : <<y, x>> \notin Less
      <3>1. \E x \in Others : \A y \in Others : <<y, x>> \notin Less BY <1>1, <1>3, WFMin
      <3> QED BY <3>1
    <2>2. x # 0 /\ x - 1 \in Nat /\ x = (x - 1) + 1 OBVIOUS
    <2>3. x - 1 \in Others BY <2>2
    <2>4. <<x - 1, x>> \in Less BY <1>2, <2>2
    <2> QED BY <2>1, <2>3, <2>4
  <1> QED BY <1>3

(***************************************************************************)
(* aaa is the function its equation describes.                             *)
(***************************************************************************)
Digits(f, n) == IF n < 10 THEN <<n>> ELSE Append(f[n \div 10], n % 10)

(* A function that is it up to a number.                                   *)
UpTo(f, m) == f = [n \in 0..m |-> Digits(f, n)]

LEMMA Tenth ==
  ASSUME NEW n \in Nat, n >= 10 PROVE n \div 10 \in Nat /\ n \div 10 < n
  OBVIOUS

LEMMA UpToExists == \A m \in Nat : \E f : UpTo(f, m)
  <1> DEFINE S == {m \in Nat : \E f : UpTo(f, m)}
  <1>1. 0 \in S
    <2> DEFINE g == [n \in 0..0 |-> <<n>>]
    <2>1. \A n \in 0..0 : Digits(g, n) = <<n>> BY DEF Digits
    <2>2. UpTo(g, 0) BY <2>1 DEF UpTo
    <2> QED BY <2>2
  <1>2. ASSUME NEW m \in Nat, m \in S PROVE m + 1 \in S
    <2>1. PICK g : UpTo(g, m) BY <1>2
    <2> DEFINE h == [n \in 0..(m + 1) |-> Digits(g, n)]
    <2>2. \A n \in 0..m : g[n] = Digits(g, n) BY <2>1 DEF UpTo
    <2>3. \A n \in 0..m : h[n] = g[n] BY <2>2
    <2>4. ASSUME NEW n \in 0..(m + 1) PROVE Digits(g, n) = Digits(h, n)
      <3>1. CASE n < 10 BY <3>1 DEF Digits
      <3>2. CASE n >= 10
        <4>1. n \div 10 \in 0..m BY <3>2, Tenth
        <4>2. h[n \div 10] = g[n \div 10] BY <2>3, <4>1
        <4> HIDE DEF h
        <4> QED BY <3>2, <4>2 DEF Digits
      <3> QED BY <3>1, <3>2
    <2>5. h = [n \in 0..(m + 1) |-> Digits(h, n)] BY <2>4
    <2>6. UpTo(h, m + 1) BY <2>5 DEF UpTo
    <2> QED BY <2>6
  <1>3. Nat \subseteq S
    <2> HIDE DEF S
    <2> QED BY <1>1, <1>2, SetInduction
  <1> QED BY <1>3

LEMMA UpToAgree ==
  ASSUME NEW m \in Nat, NEW k \in Nat, NEW f, UpTo(f, m), NEW g, UpTo(g, k), NEW n \in Nat,
         n <= m, n <= k
  PROVE  f[n] = g[n]
  <1> DEFINE S == {l \in Nat : \A j \in 0..l : j <= m /\ j <= k => f[j] = g[j]}
  <1>1. ASSUME NEW j \in Nat, j <= m, j <= k PROVE f[j] = Digits(f, j) /\ g[j] = Digits(g, j)
    BY <1>1 DEF UpTo
  <1>2. 0 \in S
    <2>1. Digits(f, 0) = Digits(g, 0) BY DEF Digits
    <2> QED BY <1>1, <2>1
  <1>3. ASSUME NEW l \in Nat, l \in S PROVE l + 1 \in S
    <2> SUFFICES ASSUME NEW j \in 0..(l + 1), j <= m, j <= k PROVE f[j] = g[j]
      OBVIOUS
    <2>1. f[j] = Digits(f, j) /\ g[j] = Digits(g, j) BY <1>1
    <2>2. CASE j < 10 BY <2>1, <2>2 DEF Digits
    <2>3. CASE j >= 10
      <3>1. j \div 10 \in 0..l /\ j \div 10 <= m /\ j \div 10 <= k BY <2>3, Tenth
      <3>2. f[j \div 10] = g[j \div 10] BY <1>3, <3>1
      <3> QED BY <2>1, <3>2 DEF Digits
    <2> QED BY <2>2, <2>3
  <1>4. Nat \subseteq S
    <2> HIDE DEF S
    <2> QED BY <1>2, <1>3, SetInduction
  <1> QED BY <1>4

LEMMA aaaUnfolds == aaa = [n \in Nat |-> Digits(aaa, n)]
  <1> DEFINE part(m) == CHOOSE f : UpTo(f, m)
             all == [n \in Nat |-> part(n)[n]]
  <1>1. \A m \in Nat : UpTo(part(m), m) BY UpToExists
  <1> HIDE DEF part
  <1>2. ASSUME NEW n \in Nat PROVE all[n] = Digits(all, n)
    <2>1. all[n] = part(n)[n] OBVIOUS
    <2>2. part(n)[n] = Digits(part(n), n) BY <1>1 DEF UpTo
    <2>3. CASE n < 10 BY <2>1, <2>2, <2>3 DEF Digits
    <2>4. CASE n >= 10
      <3>1. n \div 10 \in Nat /\ n \div 10 <= n BY <2>4, Tenth
      <3>2. all[n \div 10] = part(n \div 10)[n \div 10] BY <3>1
      <3>3. part(n)[n \div 10] = part(n \div 10)[n \div 10]
        BY <1>1, <3>1, UpToAgree
      <3> HIDE DEF all
      <3> QED BY <2>1, <2>2, <3>2, <3>3 DEF Digits
    <2> QED BY <2>3, <2>4
  <1>3. all = [n \in Nat |-> Digits(all, n)] BY <1>2
  <1> HIDE DEF all
  <1>4. \E f : f = [n \in Nat |-> IF n < 10 THEN <<n>> ELSE Append(f[n \div 10], n % 10)]
    BY <1>3 DEF Digits
  <1> QED BY <1>4 DEF aaa, Digits

(* Numbers of one digit.                                                   *)
LEMMA Numeral == \A n \in 0..9 : aaa[n] = <<n>>
  <1>1. \A n \in Nat : aaa[n] = Digits(aaa, n) BY aaaUnfolds
  <1>2. \A n \in 0..9 : Digits(aaa, n) = <<n>> BY DEF Digits
  <1> QED BY <1>1, <1>2

(***************************************************************************)
(* The inductive invariant: what has been counted has been found, and what *)
(* the lists of devices are made of.                                       *)
(***************************************************************************)
MachineInv ==
  /\ id \in DOMAIN files
  /\ \A d \in DOMAIN files : files[d] \subseteq Numerals

Counting == {"region_count", "main_count"}

(* While main counts, the file looked for is the one behind those found,   *)
(* and these have had a resource file at the time.                         *)
CountInv ==
  /\ pc \notin Counting => count = 0 /\ P = <<>>
  /\ pc = "main_count" =>
       /\ count \in 0..7
       /\ P = IF count = 0 THEN <<>> ELSE <<count - 1>>
       /\ \A n \in 0..(count - 2) : <<n>> \in files[id]

AmountInv == amount \in -1..6 /\ AmountBacked

ListInv ==
  /\ scan \in Scans /\ DOMAIN list = Scans
  /\ \A s \in Scans :
       /\ IsFiniteSet(DOMAIN list[s])
       /\ \A d \in DOMAIN list[s] : list[s][d] \in {0, ConfigSize}
  /\ pc = "look" => scan # "region"

IInv == MachineInv /\ CountInv /\ AmountInv /\ ListInv

LEMMA InitInv == Init => IInv
  <1> SUFFICES ASSUME Init PROVE IInv OBVIOUS
  <1>1. MachineInv BY MachinesAssumption DEF Init, MachineInv
  <1>2. CountInv BY DEF Init, CountInv, Counting
  <1>3. AmountInv BY DEF Init, AmountInv, AmountBacked
  <1>4. ListInv
    <2>1. DOMAIN Empty = {} BY DEF Empty
    <2>2. IsFiniteSet({}) BY FS_EmptySet
    <2> QED BY <2>1, <2>2 DEF Init, ListInv, Scans
  <1> QED BY <1>1, <1>2, <1>3, <1>4 DEF IInv

(* One more resource file of the device main asks for.                     *)
LEMMA CountMoreKeeps ==
  ASSUME IInv, pc = "main_count", CountMore(id) PROVE CountInv'
  <1>1. count \in 0..7 BY DEF IInv, CountInv
  <1>2. count # 0 => P = <<count - 1>> BY DEF IInv, CountInv
  <1>3. \A n \in 0..(count - 2) : <<n>> \in files[id] BY DEF IInv, CountInv
  <1>4. count' = count + 1 /\ UNCHANGED <<files, id>> /\ pc' = "main_count"
    BY DEF CountMore, sysfs
  <1>5. count \in 0..9 BY <1>1
  <1>6. P' = <<count>> BY <1>5, Numeral DEF CountMore
  <1>7. count' # 0 /\ count' - 1 = count BY <1>1, <1>4
  <1>8. P' = IF count' = 0 THEN <<>> ELSE <<count' - 1>> BY <1>6, <1>7
  <1>9. ASSUME count # 0 PROVE <<count - 1>> \in files[id] /\ count - 1 \in 0..5
    <2>1. P # <<>> BY <1>2, <1>9
    <2>2. <<count - 1>> \in files[id] BY <1>2, <1>9, <2>1 DEF CountMore, Exists
    <2>3. <<count - 1>> \in Numerals BY <2>2 DEF IInv, MachineInv
    <2>4. PICK n \in 0..5 : <<count - 1>> = <<n>> BY <2>3 DEF Numerals
    <2>5. count - 1 = n BY <2>4
    <2> QED BY <2>2, <2>5
  <1>10. count' \in 0..7
    <2>1. CASE count = 0 BY <1>4, <2>1
    <2>2. CASE count # 0
      <3>1. count - 1 \in 0..5 BY <1>9, <2>2
      <3> QED BY <1>1, <1>4, <3>1
    <2> QED BY <2>1, <2>2
  <1>11. ASSUME NEW n \in 0..(count' - 2) PROVE <<n>> \in files'[id']
    <2>1. count # 0 BY <1>4
    <2>2. n \in 0..(count - 2) \/ n = count - 1 BY <1>1, <1>4
    <2>3. CASE n \in 0..(count - 2) BY <1>3, <1>4, <2>3
    <2>4. CASE n = count - 1 BY <1>4, <1>9, <2>1, <2>4
    <2> QED BY <2>2, <2>3, <2>4
  <1> QED BY <1>4, <1>8, <1>10, <1>11 DEF CountInv, Counting

LEMMA CountAskedKeeps == ASSUME IInv, CountAsked PROVE IInv'
  <1>1. MachineInv' /\ UNCHANGED list BY DEF IInv, MachineInv, CountAsked, CountMore, sysfs
  <1>2. CASE CountMore(id)
    <2>1. CountInv' BY <1>2, CountMoreKeeps DEF CountAsked
    <2>2. AmountInv' BY <1>2 DEF IInv, AmountInv, AmountBacked, CountMore, sysfs
    <2>3. ListInv' BY <1>2 DEF IInv, ListInv, CountMore
    <2> QED BY <1>1, <2>1, <2>2, <2>3 DEF IInv
  <1>3. CASE ~CountMore(id)
    <2>1. /\ pc = "main_count" /\ amount' = count - 1 /\ pc' = "enumerate" /\ scan' = "region"
          /\ P' = <<>> /\ count' = 0 /\ UNCHANGED <<files, id>>
      BY <1>3 DEF CountAsked, Amount, sysfs
    <2>2. count \in 0..7 /\ \A n \in 0..(count - 2) : <<n>> \in files[id]
      BY <2>1 DEF IInv, CountInv
    <2>3. AmountInv'
      <3>1. count - 1 \in -1..6 /\ count - 1 - 1 = count - 2 BY <2>2
      <3> QED BY <2>1, <2>2, <3>1 DEF AmountInv, AmountBacked
    <2>4. CountInv' BY <2>1 DEF CountInv, Counting
    <2>5. ListInv' BY <1>1, <2>1 DEF IInv, ListInv, Scans
    <2> QED BY <1>1, <2>3, <2>4, <2>5 DEF IInv
  <1> QED BY <1>2, <1>3

LEMMA ReadConfigKeeps == ASSUME IInv, ReadConfig PROVE IInv'
  <1> DEFINE size == IF dev \in present THEN ConfigSize ELSE 0
             read == [d \in DOMAIN list[scan] \cup {dev} |->
                        IF d = dev THEN size ELSE list[scan][d]]
  <1>1. list' = [list EXCEPT ![scan] = read] /\ scan \in Scans /\ DOMAIN list = Scans
    BY DEF IInv, ListInv, ReadConfig
  <1>2. IsFiniteSet(DOMAIN read)
    <2>1. IsFiniteSet(DOMAIN list[scan]) BY <1>1 DEF IInv, ListInv
    <2> QED BY <2>1, FS_AddElement
  <1>3. ASSUME NEW d \in DOMAIN read PROVE read[d] \in {0, ConfigSize}
    BY <1>1 DEF IInv, ListInv
  <1> HIDE DEF read
  <1>4. ListInv' BY <1>1, <1>2, <1>3 DEF IInv, ListInv, ReadConfig
  <1>5. MachineInv' /\ CountInv' /\ AmountInv'
    BY DEF IInv, MachineInv, CountInv, Counting, AmountInv, AmountBacked, ReadConfig, sysfs
  <1> QED BY <1>4, <1>5 DEF IInv

LEMMA PlugKeeps == ASSUME IInv, NEW d \in Devices, Plug(d) PROVE IInv'
  BY DEF IInv, MachineInv, CountInv, AmountInv, AmountBacked, ListInv, Plug, local

(* The other steps leave what has been counted and read as it is.          *)
LEMMA OthersKeep ==
  ASSUME IInv,
         \/ enumeration \/ VisitDevice \/ CountDevice \/ TreeAsked \/ print_pci_tree
         \/ getPciDevice \/ read_region
  PROVE  IInv'
  <1>1. MachineInv' /\ AmountInv'
    BY DEF IInv, MachineInv, AmountInv, AmountBacked, enumeration, VisitDevice, CountDevice,
           CountMore, TreeAsked, print_pci_tree, getPciDevice, read_region, sysfs
  <1>2. CountInv'
    <2> USE DEF IInv, CountInv, Counting
    <2>1. CASE CountDevice
      <3>1. pc = "region_count" /\ (pc' = "region_count" \/ (pc' = "visit" /\ count' = 0 /\ P' = <<>>))
        BY <2>1 DEF CountDevice, CountMore
      <3> QED BY <3>1
    <2>2. CASE getPciDevice
      <3>1. count = 0 /\ P = <<>> /\ UNCHANGED <<count, P>>
        BY <2>2 DEF getPciDevice, local
      <3>2. count' \in 0..7 /\ \A n : n \notin 0..(count' - 2)
        <4>1. count' = 0 BY <3>1
        <4> QED BY <4>1
      <3> QED BY <3>1, <3>2
    <2>3. CASE enumeration \/ VisitDevice \/ TreeAsked \/ print_pci_tree \/ read_region
      BY <2>3 DEF enumeration, VisitDevice, TreeAsked, Asked, Scanned, print_pci_tree,
                  read_region, local
    <2> QED BY <2>1, <2>2, <2>3
  <1>3. ListInv'
    BY DEF IInv, ListInv, Scans, enumeration, VisitDevice, CountDevice, CountMore,
           TreeAsked, Asked, Scanned, print_pci_tree, getPciDevice, read_region, sysfs, local
  <1> QED BY <1>1, <1>2, <1>3 DEF IInv

LEMMA NextKeeps == ASSUME IInv, [Next]_vars PROVE IInv'
  <1>1. CASE UNCHANGED vars
    BY <1>1 DEF IInv, MachineInv, CountInv, AmountInv, AmountBacked, ListInv, vars, sysfs, local
  <1> QED BY <1>1, CountAskedKeeps, ReadConfigKeeps, PlugKeeps, OthersKeep DEF Next, ToolStep

(* What the tool has counted and read, at each of its steps.               *)
THEOREM EnumInvariant == Spec => []IInv
  BY InitInv, NextKeeps, PTL DEF Spec

(* Each region the tool names has a resource file, whatever is plugged     *)
(* while it counts.                                                        *)
THEOREM AmountIsBacked == Spec => []AmountBacked
  <1>1. IInv => AmountBacked BY DEF IInv, AmountInv
  <1> QED BY <1>1, EnumInvariant, PTL

(***************************************************************************)
(* FlattenSeq: what its recursive function is at the end, if one is known  *)
(* that obeys the same equation.                                           *)
(***************************************************************************)
Flattens(f, seqs) ==
  f = [i \in 1..Len(seqs) |-> IF i = 1 THEN seqs[i] ELSE f[i - 1] \o seqs[i]]

LEMMA FlattenIs ==
  ASSUME NEW seqs, Len(seqs) \in Nat, Len(seqs) # 0, NEW f, Flattens(f, seqs)
  PROVE  FlattenSeq(seqs) = f[Len(seqs)]
  <1> DEFINE n == Len(seqs)
             g == CHOOSE g : g = [i \in 1..n |-> IF i = 1 THEN seqs[i] ELSE g[i - 1] \o seqs[i]]
             S == {k \in Nat : k + 1 <= n => f[k + 1] = g[k + 1]}
  <1>1. FlattenSeq(seqs) = g[n] BY DEF FlattenSeq
  <1>2. Flattens(g, seqs) BY DEF Flattens
  <1> HIDE DEF g
  <1>3. ASSUME NEW i \in 1..n
        PROVE  /\ f[i] = IF i = 1 THEN seqs[i] ELSE f[i - 1] \o seqs[i]
               /\ g[i] = IF i = 1 THEN seqs[i] ELSE g[i - 1] \o seqs[i]
    BY <1>2 DEF Flattens
  <1> HIDE DEF n
  <1>4. n \in Nat /\ n # 0 BY DEF n
  <1>5. 0 \in S BY <1>3, <1>4
  <1>6. ASSUME NEW k \in Nat, k \in S PROVE k + 1 \in S
    <2>1. CASE k + 2 <= n
      <3>1. f[k + 1] = g[k + 1] BY <1>4, <1>6, <2>1
      <3>2. k + 2 \in 1..n /\ k + 2 # 1 /\ (k + 2) - 1 = k + 1 BY <1>4, <2>1
      <3>3. f[k + 2] = f[k + 1] \o seqs[k + 2] /\ g[k + 2] = g[k + 1] \o seqs[k + 2]
        BY <1>3, <3>2
      <3>4. f[k + 2] = g[k + 2] BY <3>1, <3>3
      <3>5. (k + 1) + 1 = k + 2 /\ k + 1 \in Nat OBVIOUS
      <3> HIDE DEF g
      <3> QED BY <3>4, <3>5
    <2>2. CASE ~(k + 2 <= n)
      <3>1. (k + 1) + 1 = k + 2 OBVIOUS
      <3> QED BY <2>2, <3>1
    <2> QED BY <2>1, <2>2
  <1>7. Nat \subseteq S
    <2> HIDE DEF S
    <2> QED BY <1>5, <1>6, SetInduction
  <1>8. n - 1 \in S /\ (n - 1) + 1 = n BY <1>4, <1>7
  <1>9. f[n] = g[n] BY <1>4, <1>8
  <1> QED BY <1>1, <1>9 DEF n

LEMMA FlattenEmpty == ASSUME NEW seqs, DOMAIN seqs = {} PROVE FlattenSeq(seqs) = seqs
  <1>1. Len(seqs) = 0 OBVIOUS
  <1> QED BY <1>1 DEF FlattenSeq

(***************************************************************************)
(* The text that is printed of the regions: a heading and four bytes for   *)
(* each, item by item.                                                     *)
(***************************************************************************)
TextItem(p) ==
  IF p % 5 = 0 THEN <<"region", p \div 5>> ELSE <<"byte", 15 + 4 * (p \div 5) + (p % 5)>>
Text(l) == [p \in 1..l |-> TextItem(p - 1)]
TextItems == {"region", "byte"} \X Int

LEMMA TextTyped ==
  ASSUME NEW l \in Nat
  PROVE  Text(l) \in Seq(TextItems) /\ Len(Text(l)) = l
  <1>1. \A p \in 1..l : TextItem(p - 1) \in TextItems BY DEF TextItem, TextItems
  <1>2. Text(l) \in [1..l -> TextItems] BY <1>1 DEF Text
  <1> QED BY <1>2, SeqDef DEF Text

(* What is printed next, if it is what comes next.                         *)
LEMMA TextGrows ==
  ASSUME NEW l \in Nat, NEW t \in Seq(TextItems),
         \A k \in 1..Len(t) : t[k] = TextItem(l + k - 1)
  PROVE  Text(l) \o t = Text(l + Len(t))
  <1> DEFINE all == Text(l) \o t
  <1>1. Len(t) \in Nat BY LenProperties
  <1>2. Text(l) \in Seq(TextItems) /\ Len(Text(l)) = l BY TextTyped
  <1>3. /\ all \in Seq(TextItems) /\ Len(all) = l + Len(t)
        /\ \A k \in 1..l : all[k] = Text(l)[k]
        /\ \A k \in 1..Len(t) : all[l + k] = t[k]
    <2>1. \A s1, s2 \in Seq(TextItems) :
            /\ s1 \o s2 \in Seq(TextItems) /\ Len(s1 \o s2) = Len(s1) + Len(s2)
            /\ \A k \in 1..(Len(s1) + Len(s2)) :
                 (s1 \o s2)[k] = IF k <= Len(s1) THEN s1[k] ELSE s2[k - Len(s1)]
      BY ConcatProperties
    <2>2. /\ all \in Seq(TextItems) /\ Len(all) = Len(Text(l)) + Len(t)
          /\ \A k \in 1..(Len(Text(l)) + Len(t)) :
               all[k] = IF k <= Len(Text(l)) THEN Text(l)[k] ELSE t[k - Len(Text(l))]
      BY <1>2, <2>1, Zenon
    <2> HIDE DEF all
    <2>3. ASSUME NEW k \in 1..Len(t) PROVE all[l + k] = t[k]
      <3>1. l + k \in 1..(l + Len(t)) /\ ~(l + k <= l) /\ (l + k) - l = k BY <1>1
      <3> QED BY <1>2, <2>2, <3>1
    <2>4. ASSUME NEW k \in 1..l PROVE all[k] = Text(l)[k]
      <3>1. k \in 1..(l + Len(t)) /\ k <= l BY <1>1
      <3> QED BY <1>2, <2>2, <3>1
    <2> QED BY <1>2, <2>2, <2>3, <2>4
  <1> HIDE DEF all
  <1>4. Text(l + Len(t)) \in Seq(TextItems) /\ Len(Text(l + Len(t))) = l + Len(t)
    BY <1>1, TextTyped
  <1>5. ASSUME NEW k \in 1..(l + Len(t)) PROVE all[k] = TextItem(k - 1)
    <2>1. CASE k \in 1..l BY <1>3, <2>1 DEF Text
    <2>2. CASE k \notin 1..l
      <3>1. k - l \in 1..Len(t) /\ l + (k - l) = k /\ l + (k - l) - 1 = k - 1
        BY <1>1, <2>2
      <3> QED BY <1>3, <3>1
    <2> QED BY <2>1, <2>2
  <1>6. \A k \in 1..(l + Len(t)) : Text(l + Len(t))[k] = TextItem(k - 1) BY DEF Text
  <1> QED BY <1>3, <1>4, <1>5, <1>6, SeqEqual DEF all

(* A sequence of pieces, each of which is what comes next, is the text.    *)
LEMMA TextFlattens ==
  ASSUME NEW n \in Nat, n # 0, NEW seqs \in [1..n -> Seq(TextItems)],
         NEW at \in [0..n -> Nat], at[0] = 0,
         \A i \in 1..n : /\ at[i] = at[i - 1] + Len(seqs[i])
                         /\ \A k \in 1..Len(seqs[i]) : seqs[i][k] = TextItem(at[i - 1] + k - 1)
  PROVE  FlattenSeq(seqs) = Text(at[n])
  <1> DEFINE f == [i \in 1..n |-> Text(at[i])]
  <1>1. Len(seqs) = n OBVIOUS
  <1>2. ASSUME NEW i \in 1..n PROVE Text(at[i]) = Text(at[i - 1]) \o seqs[i]
    <2>1. i - 1 \in 0..n /\ at[i - 1] \in Nat OBVIOUS
    <2>2. seqs[i] \in Seq(TextItems) OBVIOUS
    <2>3. \A k \in 1..Len(seqs[i]) : seqs[i][k] = TextItem(at[i - 1] + k - 1) OBVIOUS
    <2>4. Text(at[i - 1]) \o seqs[i] = Text(at[i - 1] + Len(seqs[i]))
      BY <2>1, <2>2, <2>3, TextGrows
    <2> QED BY <2>4
  <1>3. Text(at[1]) = seqs[1]
    <2>1. Text(0) = <<>> BY DEF Text
    <2>2. seqs[1] \in Seq(TextItems) /\ 1 \in 1..n /\ 1 - 1 = 0 OBVIOUS
    <2>3. Text(at[1]) = <<>> \o seqs[1]
      <3>1. Text(at[1]) = Text(at[1 - 1]) \o seqs[1] BY <1>2, <2>2
      <3> QED BY <2>1, <3>1
    <2> QED BY <2>2, <2>3, ConcatEmptySeq
  <1>4. ASSUME NEW i \in 1..n
        PROVE  Text(at[i]) = IF i = 1 THEN seqs[i] ELSE f[i - 1] \o seqs[i]
    <2>1. CASE i = 1 BY <1>3, <2>1
    <2>2. CASE i # 1
      <3>1. f[i - 1] = Text(at[i - 1]) BY <2>2
      <3> QED BY <1>2, <2>2, <3>1
    <2> QED BY <2>1, <2>2
  <1>5. f = [i \in 1..n |-> IF i = 1 THEN seqs[i] ELSE f[i - 1] \o seqs[i]] BY <1>4
  <1>6. f[n] = Text(at[n]) OBVIOUS
  <1> HIDE DEF f
  <1>7. Flattens(f, seqs) BY <1>1, <1>5 DEF Flattens
  <1> QED BY <1>1, <1>6, <1>7, FlattenIs

(***************************************************************************)
(* RegionText is five items for each region.                               *)
(***************************************************************************)
RegionItems(r) ==
  <<<<"region", r - 1>>>> \o [k \in 1..4 |-> <<"byte", 15 + 4 * (r - 1) + k>>]

LEMMA Concat ==
  ASSUME NEW s \in Seq(TextItems), NEW t \in Seq(TextItems)
  PROVE  /\ s \o t \in Seq(TextItems) /\ Len(s \o t) = Len(s) + Len(t)
         /\ \A k \in 1..(Len(s) + Len(t)) :
              (s \o t)[k] = IF k <= Len(s) THEN s[k] ELSE t[k - Len(s)]
  BY ConcatProperties

LEMMA HeadingItem == ASSUME NEW q \in Nat PROVE TextItem(5 * q) = <<"region", q>>
  <1>1. (5 * q) % 5 = 0 /\ (5 * q) \div 5 = q OBVIOUS
  <1> QED BY <1>1 DEF TextItem

LEMMA ByteItem ==
  ASSUME NEW q \in Nat, NEW s \in 1..4 PROVE TextItem(5 * q + s) = <<"byte", 15 + 4 * q + s>>
  <1> DEFINE p == 5 * q + s
  <1>1. p % 5 = s /\ p \div 5 = q /\ s # 0 OBVIOUS
  <1> HIDE DEF p
  <1>2. TextItem(p) = <<"byte", 15 + 4 * q + s>> BY <1>1 DEF TextItem
  <1> QED BY <1>2 DEF p

LEMMA RegionItemsAre ==
  ASSUME NEW r \in Nat, r # 0
  PROVE  /\ RegionItems(r) \in Seq(TextItems) /\ Len(RegionItems(r)) = 5
         /\ \A k \in 1..5 : RegionItems(r)[k] = TextItem(5 * (r - 1) + k - 1)
  <1> DEFINE h == <<<<"region", r - 1>>>>
             b == [k \in 1..4 |-> <<"byte", 15 + 4 * (r - 1) + k>>]
  <1>1. h \in Seq(TextItems) /\ Len(h) = 1 /\ h[1] = <<"region", r - 1>>
    BY DEF TextItems
  <1>2. b \in Seq(TextItems) /\ Len(b) = 4
    <2>1. b \in [1..4 -> TextItems] BY DEF TextItems
    <2> QED BY <2>1, SeqDef
  <1>3. \A k \in 1..4 : b[k] = <<"byte", 15 + 4 * (r - 1) + k>> OBVIOUS
  <1>4. RegionItems(r) = h \o b BY DEF RegionItems
  <1> HIDE DEF h, b
  <1>5. /\ h \o b \in Seq(TextItems) /\ Len(h \o b) = Len(h) + Len(b)
        /\ \A k \in 1..(Len(h) + Len(b)) : (h \o b)[k] = IF k <= Len(h) THEN h[k] ELSE b[k - Len(h)]
    BY <1>1, <1>2, Concat
  <1>6. ASSUME NEW k \in 1..5 PROVE (h \o b)[k] = TextItem(5 * (r - 1) + k - 1)
    <2>1. CASE k = 1
      <3>1. (h \o b)[k] = <<"region", r - 1>> BY <1>1, <1>2, <1>5, <2>1
      <3>2. TextItem(5 * (r - 1)) = <<"region", r - 1>> BY HeadingItem
      <3>3. 5 * (r - 1) + k - 1 = 5 * (r - 1) BY <2>1
      <3> QED BY <3>1, <3>2, <3>3
    <2>2. CASE k # 1
      <3>1. k - 1 \in 1..4 BY <2>2
      <3>2. (h \o b)[k] = b[k - 1] BY <1>1, <1>2, <1>5, <2>2
      <3>3. (h \o b)[k] = <<"byte", 15 + 4 * (r - 1) + (k - 1)>> BY <1>3, <3>1, <3>2
      <3>4. TextItem(5 * (r - 1) + (k - 1)) = <<"byte", 15 + 4 * (r - 1) + (k - 1)>>
        <4>1. r - 1 \in Nat OBVIOUS
        <4> QED BY <3>1, <4>1, ByteItem
      <3>5. 5 * (r - 1) + k - 1 = 5 * (r - 1) + (k - 1) OBVIOUS
      <3> QED BY <3>3, <3>4, <3>5
    <2> QED BY <2>1, <2>2
  <1>7. Len(h \o b) = 5 BY <1>1, <1>2, <1>5
  <1> QED BY <1>4, <1>5, <1>6, <1>7

LEMMA RegionTextIs ==
  ASSUME NEW n \in Int PROVE RegionText(n) = Text(IF n > 0 THEN 5 * n ELSE 0)
  <1> DEFINE seqs == [r \in 1..n |-> RegionItems(r)]
  <1>1. RegionText(n) = FlattenSeq(seqs) BY DEF RegionText, RegionItems
  <1>2. CASE n > 0
    <2> DEFINE at == [r \in 0..n |-> 5 * r]
    <2>1. n \in Nat /\ n # 0 BY <1>2
    <2>2. \A r \in 1..n : r \in Nat /\ r # 0 OBVIOUS
    <2>3. seqs \in [1..n -> Seq(TextItems)] BY <2>2, RegionItemsAre
    <2>4. \A r \in 1..n : Len(seqs[r]) = 5 BY <2>2, RegionItemsAre
    <2>5. \A r \in 1..n : \A k \in 1..5 : seqs[r][k] = TextItem(5 * (r - 1) + k - 1)
      BY <2>2, RegionItemsAre
    <2>6. at \in [0..n -> Nat] /\ at[0] = 0 BY <2>1
    <2>7. \A r \in 1..n : at[r] = 5 * r /\ at[r - 1] = 5 * (r - 1) OBVIOUS
    <2>8. at[n] = 5 * n BY <2>1
    <2> HIDE DEF seqs, at
    <2>9. \A r \in 1..n :
            /\ at[r] = at[r - 1] + Len(seqs[r])
            /\ \A k \in 1..Len(seqs[r]) : seqs[r][k] = TextItem(at[r - 1] + k - 1)
      <3> SUFFICES ASSUME NEW r \in 1..n
                   PROVE  /\ at[r] = at[r - 1] + Len(seqs[r])
                          /\ \A k \in 1..Len(seqs[r]) : seqs[r][k] = TextItem(at[r - 1] + k - 1)
        OBVIOUS
      <3>1. at[r] = 5 * r /\ at[r - 1] = 5 * (r - 1) /\ Len(seqs[r]) = 5 BY <2>4, <2>7
      <3>2. \A k \in 1..5 : seqs[r][k] = TextItem(5 * (r - 1) + k - 1) BY <2>5
      <3> QED BY <3>1, <3>2
    <2>10. FlattenSeq(seqs) = Text(at[n]) BY <2>1, <2>3, <2>6, <2>9, TextFlattens
    <2> QED BY <1>1, <1>2, <2>8, <2>10
  <1>3. CASE ~(n > 0)
    <2>1. 1..n = {} BY <1>3
    <2>2. DOMAIN seqs = {} BY <2>1
    <2>3. FlattenSeq(seqs) = seqs BY <2>2, FlattenEmpty
    <2>4. seqs = Text(0) BY <2>1 DEF Text
    <2> QED BY <1>1, <1>3, <2>3, <2>4
  <1> QED BY <1>2, <1>3

(***************************************************************************)
(* The loop of read_region over the config: what the turns have printed up *)
(* to one of them is the text up to a length.                              *)
(***************************************************************************)
Headings(m) == {j \in 2..m : Heading(j)}

(* r_a numbers the headings from 0.                                        *)
LEMMA HeadingsCounted ==
  ASSUME amount \in Int
  PROVE  \A t \in Nat :
           t <= amount => IsFiniteSet(Headings(16 + 4 * t)) /\ Cardinality(Headings(16 + 4 * t)) = t
  <1> DEFINE S == {t \in Nat : t <= amount =>
                     IsFiniteSet(Headings(16 + 4 * t)) /\ Cardinality(Headings(16 + 4 * t)) = t}
  <1>1. 0 \in S
    <2>1. Headings(16 + 4 * 0) = {} BY DEF Headings, Heading
    <2> QED BY <2>1, FS_EmptySet
  <1>2. ASSUME NEW t \in Nat, t \in S PROVE t + 1 \in S
    <2> SUFFICES ASSUME t + 1 <= amount
                 PROVE  /\ IsFiniteSet(Headings(16 + 4 * (t + 1)))
                        /\ Cardinality(Headings(16 + 4 * (t + 1))) = t + 1
      OBVIOUS
    <2>1. IsFiniteSet(Headings(16 + 4 * t)) /\ Cardinality(Headings(16 + 4 * t)) = t BY <1>2
    <2>2. 17 + 4 * t \notin Headings(16 + 4 * t) BY DEF Headings
    <2>3. Headings(16 + 4 * (t + 1)) = Headings(16 + 4 * t) \cup {17 + 4 * t}
      <3>1. Heading(17 + 4 * t) BY DEF Heading
      <3>2. \A j \in 2..(20 + 4 * t) :
              Heading(j) => j \in 2..(16 + 4 * t) \/ j = 17 + 4 * t
        BY DEF Heading
      <3>3. 16 + 4 * (t + 1) = 20 + 4 * t OBVIOUS
      <3> QED BY <3>1, <3>2, <3>3 DEF Headings
    <2> QED BY <2>1, <2>2, <2>3, FS_AddElement
  <1>3. Nat \subseteq S
    <2> HIDE DEF S
    <2> QED BY <1>1, <1>2, SetInduction
  <1> QED BY <1>3

Shown == IF amount > 0 THEN amount ELSE 0
Printed(n) ==
  IF n <= 15 THEN 0
  ELSE IF n - 16 < 4 * Shown THEN (n - 16) + ((n - 16) \div 4) + 1 ELSE 5 * Shown

BytePrinted(n) == n + 1 >= 18 /\ n + 1 <= 17 + amount * 4
ByteAt(n) == IF BytePrinted(n) THEN <<<<"byte", n - 1>>>> ELSE <<>>
HeadingAt(n) == IF Heading(n + 1) THEN <<<<"region", Cardinality(Headings(n))>>>> ELSE <<>>

LEMMA PrintByteIs == ASSUME NEW n \in Nat PROVE PrintByte(n - 1) = ByteAt(n) \o HeadingAt(n)
  <1>1. (n - 1) + 2 = n + 1 /\ (n + 1) - 1 = n OBVIOUS
  <1> QED BY <1>1 DEF PrintByte, ByteAt, BytePrinted, HeadingAt, Headings

(* What a turn prints is what comes next.                                  *)
ComesNext(n, t) ==
  /\ t \in Seq(TextItems) /\ Printed(n) = Printed(n - 1) + Len(t)
  /\ \A k \in 1..Len(t) : t[k] = TextItem(Printed(n - 1) + k - 1)

LEMMA NoneNext == ASSUME NEW n, Printed(n) = Printed(n - 1), Printed(n) \in Nat PROVE ComesNext(n, <<>>)
  BY DEF ComesNext

LEMMA OneNext ==
  ASSUME NEW n, NEW l \in Nat, Printed(n - 1) = l, Printed(n) = l + 1,
         TextItem(l) \in TextItems
  PROVE  ComesNext(n, <<TextItem(l)>>)
  <1> DEFINE t == <<TextItem(l)>>
  <1>1. t \in Seq(TextItems) /\ Len(t) = 1 /\ t[1] = TextItem(l) OBVIOUS
  <1>2. l + 1 - 1 = l OBVIOUS
  <1> HIDE DEF t
  <1>3. \A k \in 1..Len(t) : t[k] = TextItem(l + k - 1) BY <1>1, <1>2
  <1>4. ComesNext(n, t) BY <1>1, <1>3 DEF ComesNext
  <1> QED BY <1>4 DEF t

LEMMA TwoNext ==
  ASSUME NEW n, NEW l \in Nat, Printed(n - 1) = l, Printed(n) = l + 2,
         TextItem(l) \in TextItems, TextItem(l + 1) \in TextItems
  PROVE  ComesNext(n, <<TextItem(l)>> \o <<TextItem(l + 1)>>)
  <1> DEFINE s1 == <<TextItem(l)>>
             s2 == <<TextItem(l + 1)>>
             t == s1 \o s2
  <1>1. /\ s1 \in Seq(TextItems) /\ Len(s1) = 1 /\ s1[1] = TextItem(l)
        /\ s2 \in Seq(TextItems) /\ Len(s2) = 1 /\ s2[1] = TextItem(l + 1)
    OBVIOUS
  <1> HIDE DEF s1, s2
  <1>2. /\ t \in Seq(TextItems) /\ Len(t) = Len(s1) + Len(s2)
        /\ \A k \in 1..(Len(s1) + Len(s2)) :
             t[k] = IF k <= Len(s1) THEN s1[k] ELSE s2[k - Len(s1)]
    BY <1>1, Concat
  <1> HIDE DEF t
  <1>3. Len(t) = 2 /\ t[1] = TextItem(l) /\ t[2] = TextItem(l + 1) BY <1>1, <1>2
  <1>4. \A k \in 1..Len(t) : t[k] = TextItem(l + k - 1)
    <2>1. \A k \in 1..Len(t) : k = 1 \/ k = 2 BY <1>3
    <2>2. l + 1 - 1 = l /\ l + 2 - 1 = l + 1 OBVIOUS
    <2> QED BY <1>3, <2>1, <2>2
  <1>5. ComesNext(n, t) BY <1>2, <1>3, <1>4 DEF ComesNext
  <1> QED BY <1>5 DEF t, s1, s2

LEMMA TurnPrints ==
  ASSUME amount \in -1..6, NEW n \in 1..64 PROVE ComesNext(n, PrintByte(n - 1))
  <1> DEFINE l == Printed(n - 1)
  <1>1. PrintByte(n - 1) = ByteAt(n) \o HeadingAt(n)
    <2>1. n \in Nat OBVIOUS
    <2> QED BY <2>1, PrintByteIs
  <1>2. CASE ~BytePrinted(n) /\ ~Heading(n + 1)
    <2>1. PrintByte(n - 1) = <<>> BY <1>1, <1>2 DEF ByteAt, HeadingAt
    <2>2. Printed(n) = l /\ Printed(n) \in Nat
      BY <1>2 DEF BytePrinted, Heading, Printed, Shown
    <2> QED BY <2>1, <2>2, NoneNext
  <1>3. CASE ~BytePrinted(n) /\ Heading(n + 1)
    <2>1. n = 16 /\ amount > 0 BY <1>3 DEF BytePrinted, Heading
    <2>2. Cardinality(Headings(16 + 4 * 0)) = 0 BY <2>1, HeadingsCounted
    <2>3. TextItem(5 * 0) = <<"region", 0>> BY HeadingItem
    <2>4. Cardinality(Headings(n)) = 0 /\ TextItem(0) = <<"region", 0>>
      BY <2>1, <2>2, <2>3
    <2>5. PrintByte(n - 1) = <<TextItem(0)>>
      BY <1>1, <1>3, <2>4 DEF ByteAt, HeadingAt
    <2>6. l = 0 /\ Printed(n) = 1 BY <2>1 DEF Printed, Shown
    <2>7. TextItem(0) \in TextItems BY <2>4 DEF TextItems
    <2> QED BY <2>5, <2>6, <2>7, OneNext
  <1>4. CASE BytePrinted(n)
    <2> DEFINE q == (n - 17) \div 4
               s == ((n - 17) % 4) + 1
    <2>1. /\ q \in Nat /\ s \in 1..4 /\ n - 17 = 4 * q + (s - 1)
          /\ amount \in 1..6 /\ n \in 17..(16 + 4 * amount)
      BY <1>4 DEF BytePrinted
    <2>2. n - 1 = 15 + 4 * q + s BY <2>1
    <2>3. TextItem(5 * q + s) = <<"byte", n - 1>> BY <2>1, <2>2, ByteItem
    <2> HIDE DEF q, s
    <2>4. l = 5 * q + s BY <2>1 DEF Printed, Shown
    <2>5. TextItem(l) = <<"byte", n - 1>> /\ l \in Nat /\ TextItem(l) \in TextItems
      BY <2>1, <2>3, <2>4 DEF TextItems
    <2>6. CASE ~Heading(n + 1)
      <3>1. Printed(n) = l + 1
        <4>1. s # 4 \/ n = 16 + 4 * amount BY <2>1, <2>6 DEF Heading
        <4> QED BY <2>1, <2>4, <4>1 DEF Printed, Shown
      <3>2. PrintByte(n - 1) = <<TextItem(l)>>
        BY <1>1, <1>4, <2>5, <2>6 DEF ByteAt, HeadingAt
      <3> QED BY <2>5, <3>1, <3>2, OneNext
    <2>7. CASE Heading(n + 1)
      <3>1. s = 4 /\ q + 1 < amount /\ n = 16 + 4 * (q + 1)
        BY <2>1, <2>7 DEF Heading
      <3>2. Cardinality(Headings(n)) = q + 1 BY <2>1, <3>1, HeadingsCounted
      <3>3. l + 1 = 5 * (q + 1) BY <2>1, <2>4, <3>1
      <3>4. TextItem(l + 1) = <<"region", q + 1>>
        <4>1. q + 1 \in Nat BY <2>1
        <4>2. TextItem(5 * (q + 1)) = <<"region", q + 1>> BY <4>1, HeadingItem
        <4> QED BY <3>3, <4>2
      <3>5. Printed(n) = l + 2 BY <2>1, <2>4, <3>1 DEF Printed, Shown
      <3>6. TextItem(l + 1) \in TextItems BY <2>1, <3>4 DEF TextItems
      <3>7. PrintByte(n - 1) = <<TextItem(l)>> \o <<TextItem(l + 1)>>
        BY <1>1, <1>4, <2>5, <2>7, <3>2, <3>4 DEF ByteAt, HeadingAt
      <3> QED BY <2>5, <3>5, <3>6, <3>7, TwoNext
    <2> QED BY <2>6, <2>7
  <1> QED BY <1>2, <1>3, <1>4

(* What read_region prints of a config it could read.                      *)
LEMMA AllTurns ==
  ASSUME amount \in -1..6
  PROVE  FlattenSeq([n \in 1..64 |-> PrintByte(n - 1)]) = RegionText(amount)
  <1> DEFINE seqs == [n \in 1..64 |-> PrintByte(n - 1)]
             at == [n \in 0..64 |-> Printed(n)]
  <1>1. \A n \in 1..64 : ComesNext(n, PrintByte(n - 1)) BY TurnPrints
  <1>2. seqs \in [1..64 -> Seq(TextItems)] BY <1>1 DEF ComesNext
  <1>3. at \in [0..64 -> Nat] BY DEF Printed, Shown
  <1>4. at[0] = 0 /\ at[64] = 5 * Shown BY DEF Printed, Shown
  <1>5. \A n \in 1..64 :
          /\ at[n] = at[n - 1] + Len(seqs[n])
          /\ \A k \in 1..Len(seqs[n]) : seqs[n][k] = TextItem(at[n - 1] + k - 1)
    <2> SUFFICES ASSUME NEW n \in 1..64
                 PROVE  /\ at[n] = at[n - 1] + Len(seqs[n])
                        /\ \A k \in 1..Len(seqs[n]) : seqs[n][k] = TextItem(at[n - 1] + k - 1)
      OBVIOUS
    <2>1. seqs[n] = PrintByte(n - 1) /\ at[n] = Printed(n) /\ at[n - 1] = Printed(n - 1) OBVIOUS
    <2> HIDE DEF seqs, at
    <2> QED BY <1>1, <2>1 DEF ComesNext
  <1> HIDE DEF seqs, at
  <1>6. 64 \in Nat /\ 64 # 0 OBVIOUS
  <1>7. FlattenSeq(seqs) = Text(at[64]) BY <1>6, <1>2, <1>3, <1>4, <1>5, TextFlattens
  <1>8. RegionText(amount) = Text(5 * Shown) BY RegionTextIs DEF Shown
  <1> QED BY <1>4, <1>7, <1>8 DEF seqs

(***************************************************************************)
(* The text, once it is printed.                                           *)
(***************************************************************************)
LEMMA read_regionShows == ASSUME IInv, read_region PROVE RegionsShown'
  <1> SUFFICES ASSUME id \in DOMAIN list["region"], list["region"][id] > 0
               PROVE  text' = RegionText(amount)
    BY DEF RegionsShown, read_region, sysfs, local, RegionText
  <1>1. list["region"][id] = 64
    <2>1. list["region"][id] \in {0, 64} BY DEF IInv, ListInv, Scans, ConfigSize
    <2> QED BY <2>1
  <1>2. amount \in -1..6 BY DEF IInv, AmountInv
  <1>3. text' = FlattenSeq([n \in 1..64 |-> PrintByte(n - 1)]) BY <1>1 DEF read_region
  <1> QED BY <1>2, <1>3, AllTurns

(* No other step reaches the end of read_region.                           *)
LEMMA OthersShow ==
  ASSUME IInv, RegionsShown, [Next]_vars, ~read_region PROVE RegionsShown'
  <1>1. CASE \/ UNCHANGED <<id, pc, scan, list, amount, text>>
    BY <1>1 DEF RegionsShown, RegionText
  <1>2. CASE ~(pc' = "ended" /\ scan' = "region")
    BY <1>2 DEF RegionsShown
  <1>3. \/ UNCHANGED <<id, pc, scan, list, amount, text>>
        \/ ~(pc' = "ended" /\ scan' = "region")
    BY DEF IInv, ListInv, Next, ToolStep, vars, sysfs, local, Plug, enumeration, VisitDevice,
           ReadConfig, CountDevice, CountMore, TreeAsked, Scanned, Asked, print_pci_tree,
           getPciDevice, CountAsked
  <1> QED BY <1>1, <1>2, <1>3

(* The bytes printed under the heading of a region are those of its base   *)
(* address register, for every region counted, whatever is plugged.        *)
THEOREM RegionsAreShown == Spec => []RegionsShown
  <1>1. Init => RegionsShown BY DEF Init, RegionsShown
  <1>2. IInv /\ RegionsShown /\ [Next]_vars => RegionsShown' BY read_regionShows, OthersShow
  <1> QED BY <1>1, <1>2, EnumInvariant, PTL DEF Spec

(***************************************************************************)
(* The tree: the devices its pci_tree has are devices, and none is added   *)
(* once it is drawn.                                                       *)
(***************************************************************************)
VisitInv ==
  /\ DOMAIN files \subseteq Nat \X Nat
  /\ present \subseteq DOMAIN files /\ todo \subseteq DOMAIN files /\ dev \in DOMAIN files
  /\ \A s \in Scans : DOMAIN list[s] \subseteq DOMAIN files

Building == {"enumerate", "visit", "config", "region_count"}

NotDrawn ==
  scan = "main" \/ (scan = "tree" /\ pc \in Building) => tree = <<>>

TreeInv == VisitInv /\ NotDrawn

LEMMA InitTree == Init => TreeInv
  <1> SUFFICES ASSUME Init PROVE TreeInv OBVIOUS
  <1>1. DOMAIN files \subseteq Nat \X Nat
    <2>1. PICK m \in Machines : files = m.files BY DEF Init
    <2>2. DOMAIN m.files \subseteq Devices BY MachinesAssumption
    <2>3. Devices \subseteq Nat \X Nat BY DevicesAssumption
    <2> QED BY <2>1, <2>2, <2>3
  <1>2. \A s \in Scans : DOMAIN list[s] = {} BY DEF Init, Empty
  <1>3. present \subseteq DOMAIN files /\ todo \subseteq DOMAIN files /\ dev \in DOMAIN files
    BY DEF Init
  <1> QED BY <1>1, <1>2, <1>3 DEF TreeInv, VisitInv, NotDrawn, Init

LEMMA VisitKeeps == ASSUME ListInv, VisitInv, [Next]_vars PROVE VisitInv'
  <1>1. CASE ReadConfig
    <2> DEFINE size == IF dev \in present THEN ConfigSize ELSE 0
               read == [d \in DOMAIN list[scan] \cup {dev} |->
                          IF d = dev THEN size ELSE list[scan][d]]
    <2>1. /\ list' = [list EXCEPT ![scan] = read] /\ scan \in Scans /\ DOMAIN list = Scans
          /\ UNCHANGED <<present, files, todo, dev>>
      BY <1>1 DEF ListInv, ReadConfig, sysfs
    <2>2. DOMAIN read \subseteq DOMAIN files BY <2>1 DEF VisitInv
    <2> HIDE DEF read
    <2> QED BY <2>1, <2>2 DEF VisitInv
  <1>2. CASE \E d \in Devices : Plug(d)
    BY <1>2 DEF VisitInv, Plug, local
  <1>3. CASE enumeration \/ VisitDevice
    BY <1>3 DEF VisitInv, enumeration, VisitDevice, sysfs
  <1>4. CASE UNCHANGED <<present, files, todo, dev, list>> BY <1>4 DEF VisitInv
  <1>5. \/ ReadConfig \/ enumeration \/ VisitDevice \/ (\E d \in Devices : Plug(d))
        \/ UNCHANGED <<present, files, todo, dev, list>>
    BY DEF Next, ToolStep, vars, sysfs, local, CountDevice, CountMore, TreeAsked,
           print_pci_tree, getPciDevice, CountAsked, read_region
  <1> QED BY <1>1, <1>2, <1>3, <1>4, <1>5

LEMMA NotDrawnKeeps == ASSUME ListInv, NotDrawn, [Next]_vars PROVE NotDrawn'
  <1> USE DEF NotDrawn, Building
  <1>1. CASE print_pci_tree
    BY <1>1 DEF print_pci_tree, Scanned, Asked
  <1>2. CASE CountAsked
    BY <1>2 DEF CountAsked, CountMore
  <1>3. CASE getPciDevice
    BY <1>3 DEF getPciDevice
  <1>4. CASE TreeAsked
    BY <1>4 DEF TreeAsked, Scanned, Asked
  <1>5. CASE UNCHANGED <<pc, scan, tree>> BY <1>5
  <1>6. CASE UNCHANGED <<scan, tree>> /\ pc \in Building
    BY <1>6
  <1>7. CASE read_region BY <1>7 DEF read_region, Scanned
  <1>8. \/ print_pci_tree \/ CountAsked \/ getPciDevice \/ TreeAsked \/ read_region
        \/ UNCHANGED <<pc, scan, tree>>
        \/ (UNCHANGED <<scan, tree>> /\ pc \in Building)
    BY DEF Next, ToolStep, vars, sysfs, local, Plug, enumeration, VisitDevice, ReadConfig,
           CountDevice, CountMore
  <1> QED BY <1>1, <1>2, <1>3, <1>4, <1>5, <1>6, <1>7, <1>8

(***************************************************************************)
(* The sorted names: the k-th has fewer than k devices below it, and k or  *)
(* more up to it; there is one such name for every k.                      *)
(***************************************************************************)
Listed == DOMAIN list["tree"]
Some == IsFiniteSet(Listed) /\ Listed \subseteq Nat \X Nat
Rank(n) == Cardinality(UpToSlot(n))
Before(n) == Cardinality(Below(n))

(* The name n is at the position k of the sorted names.                    *)
NameAt(n, k) == Before(n) < k /\ k <= Rank(n)

LEMMA RankCounts ==
  ASSUME Some, NEW n
  PROVE  /\ IsFiniteSet(UpToSlot(n)) /\ IsFiniteSet(Below(n)) /\ IsFiniteSet(Alike(n))
         /\ Rank(n) \in Nat /\ Before(n) \in Nat /\ Cardinality(Alike(n)) \in Nat
         /\ Cardinality(Listed) \in Nat /\ Rank(n) <= Cardinality(Listed)
  <1>1. UpToSlot(n) \in SUBSET Listed /\ Below(n) \in SUBSET Listed /\ Alike(n) \in SUBSET Listed
    BY DEF UpToSlot, Below, Alike, Listed
  <1> QED BY <1>1, FS_Subset, FS_CardinalityType DEF Some, Rank, Before

LEMMA NamesAreNumbers == ASSUME Some PROVE SlotNames \subseteq Nat
  <1>1. \A e \in Listed : e[2] \in Nat BY DEF Some
  <1> QED BY <1>1 DEF SlotNames, Listed

(* Up to a name are the devices below it and those that have it.           *)
LEMMA RankAndBefore ==
  ASSUME Some, NEW n \in Nat
  PROVE  Rank(n) = Before(n) + Cardinality(Alike(n))
  <1>1. \A e \in Listed : e[2] \in Nat BY DEF Some
  <1>2. UpToSlot(n) = Below(n) \cup Alike(n) /\ Below(n) \cap Alike(n) = {}
    BY <1>1 DEF UpToSlot, Below, Alike, Listed
  <1>3. Cardinality(Below(n) \cap Alike(n)) = 0 BY <1>2, FS_EmptySet
  <1>4. Rank(n) = Before(n) + Cardinality(Alike(n)) - Cardinality(Below(n) \cap Alike(n))
    BY <1>2, RankCounts, FS_Union DEF Rank, Before
  <1> QED BY <1>3, <1>4, RankCounts

(* Those up to a smaller name are below.                                   *)
LEMMA RankBefore ==
  ASSUME Some, NEW m \in Nat, NEW n \in Nat, m < n PROVE Rank(m) <= Before(n)
  <1>1. \A e \in Listed : e[2] \in Nat BY DEF Some
  <1>2. UpToSlot(m) \in SUBSET Below(n) BY <1>1 DEF UpToSlot, Below, Listed
  <1> QED BY <1>2, RankCounts, FS_Subset DEF Rank, Before

(* With a number not yet reached, a greater one has more devices up to it. *)
LEMMA RankGrows ==
  ASSUME Some, NEW n \in Nat, Rank(n) < Cardinality(Listed)
  PROVE  \E m \in Nat : Rank(m) >= Rank(n) + 1
  <1>1. \A e \in Listed : e[2] \in Nat BY DEF Some
  <1>2. PICK d \in Listed : d \notin UpToSlot(n)
    <2>1. UpToSlot(n) \subseteq Listed BY DEF UpToSlot, Listed
    <2>2. UpToSlot(n) # Listed BY RankCounts DEF Rank
    <2> QED BY <2>1, <2>2
  <1>3. d[2] \in Nat /\ n < d[2] BY <1>1, <1>2 DEF UpToSlot, Listed
  <1>4. UpToSlot(n) \cup {d} \in SUBSET UpToSlot(d[2])
    BY <1>1, <1>2, <1>3 DEF UpToSlot, Listed
  <1>5. Cardinality(UpToSlot(n) \cup {d}) = Rank(n) + 1
    BY <1>2, RankCounts, FS_AddElement DEF Rank
  <1>6. Rank(n) + 1 <= Rank(d[2]) BY <1>4, <1>5, RankCounts, FS_Subset DEF Rank
  <1>7. Rank(n) \in Nat /\ Rank(d[2]) \in Nat BY RankCounts
  <1> QED BY <1>3, <1>6, <1>7

LEMMA RankReached ==
  ASSUME Some, NEW k \in 1..Cardinality(Listed)
  PROVE  \E n \in Nat : k <= Rank(n)
  <1> DEFINE S == {j \in Nat : j <= Cardinality(Listed) => \E n \in Nat : j <= Rank(n)}
  <1>1. Cardinality(Listed) \in Nat BY RankCounts
  <1>2. 0 \in S
    <2>1. Rank(0) \in Nat BY RankCounts
    <2> QED BY <2>1
  <1>3. ASSUME NEW j \in Nat, j \in S PROVE j + 1 \in S
    <2> SUFFICES ASSUME j + 1 <= Cardinality(Listed) PROVE \E m \in Nat : j + 1 <= Rank(m)
      OBVIOUS
    <2>1. PICK n \in Nat : j <= Rank(n) BY <1>1, <1>3
    <2>2. Rank(n) \in Nat BY RankCounts
    <2>3. CASE Rank(n) < Cardinality(Listed)
      <3>1. PICK m \in Nat : Rank(m) >= Rank(n) + 1 BY <2>3, RankGrows
      <3>2. Rank(m) \in Nat BY RankCounts
      <3> QED BY <2>1, <2>2, <3>1, <3>2
    <2> QED BY <1>1, <2>2, <2>3
  <1> HIDE DEF S
  <1>4. k \in S BY <1>1, <1>2, <1>3, SetInduction
  <1> QED BY <1>1, <1>4 DEF S

(* The least number with k devices up to it is a name, the one at k.       *)
LEMMA LeastReached ==
  ASSUME Some, NEW k \in 1..Cardinality(Listed)
  PROVE  \E n \in Nat : k <= Rank(n) /\ \A m \in Nat : m < n => Rank(m) < k
  <1> DEFINE S == {j \in Nat : \A m \in Nat : m <= j => Rank(m) < k}
  <1>1. Cardinality(Listed) \in Nat /\ k \in Nat BY RankCounts
  <1>2. \A m : Rank(m) \in Nat BY RankCounts
  <1> SUFFICES ASSUME \A n \in Nat : k <= Rank(n) => \E m \in Nat : m < n /\ ~(Rank(m) < k)
               PROVE  FALSE
    OBVIOUS
  <1>3. 0 \in S BY <1>1, <1>2
  <1>4. ASSUME NEW j \in Nat, j \in S PROVE j + 1 \in S
    <2>1. \A m \in Nat : m < j + 1 => Rank(m) < k BY <1>4
    <2>2. Rank(j + 1) < k BY <1>1, <1>2, <2>1
    <2>3. \A m \in Nat : m <= j + 1 => m < j + 1 \/ m = j + 1 OBVIOUS
    <2> QED BY <2>1, <2>2, <2>3
  <1>5. PICK n \in Nat : k <= Rank(n) BY RankReached
  <1> HIDE DEF S
  <1>6. n \in S BY <1>3, <1>4, SetInduction
  <1> QED BY <1>1, <1>2, <1>5, <1>6 DEF S

LEMMA NameExists ==
  ASSUME Some, NEW k \in 1..Cardinality(Listed)
  PROVE  \E n \in SlotNames : NameAt(n, k)
  <1>1. PICK n \in Nat : k <= Rank(n) /\ \A m \in Nat : m < n => Rank(m) < k BY LeastReached
  <1>2. Before(n) < k
    <2>1. \A e \in Listed : e[2] \in Nat BY DEF Some
    <2>2. CASE n = 0
      <3>1. Below(n) = {} BY <2>1, <2>2 DEF Below, Listed
      <3> QED BY <3>1, RankCounts, FS_EmptySet DEF Before
    <2>3. CASE n # 0
      <3>1. n - 1 \in Nat /\ n - 1 < n BY <2>3
      <3>2. Below(n) = UpToSlot(n - 1) BY <2>1, <3>1 DEF Below, UpToSlot, Listed
      <3> QED BY <1>1, <3>1, <3>2 DEF Before, Rank
    <2> QED BY <2>2, <2>3
  <1>3. n \in SlotNames
    <2>1. Rank(n) = Before(n) + Cardinality(Alike(n)) BY RankAndBefore
    <2>2. Cardinality(Alike(n)) # 0 BY <1>1, <1>2, <2>1, RankCounts
    <2>3. Alike(n) # {} BY <2>2, FS_EmptySet
    <2> QED BY <2>3 DEF Alike, SlotNames
  <1> QED BY <1>1, <1>2, <1>3 DEF NameAt

LEMMA SlotsAreAt ==
  ASSUME Some, NEW k \in 1..Cardinality(Listed)
  PROVE  Slots[k] \in SlotNames /\ NameAt(Slots[k], k)
  <1>1. Slots[k] = CHOOSE n \in SlotNames : NameAt(n, k)
    BY DEF Slots, Listed, NameAt, Before, Rank
  <1> QED BY <1>1, NameExists

(* At an earlier position is no greater name.                              *)
LEMMA NamesInOrder ==
  ASSUME Some, NEW j \in Nat, NEW k \in Nat, j <= k,
         NEW m \in Nat, NEW n \in Nat, NameAt(m, j), NameAt(n, k)
  PROVE  m <= n
  <1>1. n < m => Rank(n) <= Before(m) BY RankBefore
  <1>2. Rank(n) \in Nat /\ Before(m) \in Nat BY RankCounts
  <1> QED BY <1>1, <1>2 DEF NameAt

(* A name is at as many positions as there are devices that have it.       *)
LEMMA NamesCounted ==
  ASSUME Some, NEW n \in SlotNames
  PROVE  Cardinality({k \in 1..Cardinality(Listed) : Slots[k] = n}) = Cardinality(Alike(n))
  <1> DEFINE N == Cardinality(Listed)
             first == Before(n) + 1
             last == Rank(n)
  <1>1. SlotNames \subseteq Nat BY NamesAreNumbers
  <1>2. /\ N \in Nat /\ last \in Nat /\ Before(n) \in Nat /\ last <= N
        /\ Cardinality(Alike(n)) \in Nat
    BY RankCounts
  <1>3. ASSUME NEW k \in 1..N PROVE Slots[k] = n <=> k \in first..last
    <2>1. Slots[k] \in Nat /\ NameAt(Slots[k], k) BY <1>1, SlotsAreAt
    <2>2. NameAt(n, k) <=> k \in first..last BY <1>2 DEF NameAt
    <2>3. NameAt(n, k) => Slots[k] <= n /\ n <= Slots[k] BY <1>1, <2>1, NamesInOrder
    <2> QED BY <1>1, <2>1, <2>2, <2>3
  <1>4. last = Before(n) + Cardinality(Alike(n)) BY <1>1, RankAndBefore
  <1>5. first \in Nat /\ first >= 1 /\ first + Cardinality(Alike(n)) = last + 1 BY <1>2, <1>4
  <1> HIDE DEF first, last
  <1>6. {k \in 1..N : Slots[k] = n} = first..last BY <1>2, <1>3, <1>5
  <1>7. Cardinality(first..last) = IF first > last THEN 0 ELSE last - first + 1
    BY <1>2, <1>5, FS_Interval
  <1>8. Cardinality(first..last) = Cardinality(Alike(n))
    <2> DEFINE c == Cardinality(first..last)
               a == Cardinality(Alike(n))
    <2>1. c = IF first > last THEN 0 ELSE last - first + 1 BY <1>7
    <2>2. a \in Nat /\ first + a = last + 1 BY <1>2, <1>5
    <2> HIDE DEF c, a
    <2>3. c = a BY <1>2, <1>5, <2>1, <2>2
    <2> QED BY <2>3 DEF c, a
  <1> QED BY <1>6, <1>8

LEMMA print_pci_treeDraws ==
  ASSUME ListInv, VisitInv, print_pci_tree PROVE TreeDrawn'
  <1> DEFINE N == Cardinality(Listed)
  <1>1. UNCHANGED list BY DEF print_pci_tree, local
  <1>2. Some BY DEF ListInv, VisitInv, Scans, Some, Listed
  <1>3. N \in Nat BY <1>2, FS_CardinalityType DEF Some
  <1>4. DOMAIN Slots = 1..N /\ Len(Slots) = N BY <1>3 DEF Slots, Listed
  <1>5. tree' = [k \in 1..N |-> <<Mark(Slots, Slots[k]), Slots[k]>>]
    BY <1>4 DEF print_pci_tree
  <1>6. Len(tree') = N BY <1>3, <1>5
  <1>7. \A k \in 1..N : tree'[k][1] = Mark(Slots, Slots[k]) /\ tree'[k][2] = Slots[k] BY <1>5
  <1>8. \A n \in SlotNames : Cardinality(LinesOf(n)') = Cardinality(Alike(n))
    <2> SUFFICES ASSUME NEW n \in SlotNames
                 PROVE  Cardinality(LinesOf(n)') = Cardinality(Alike(n))
      OBVIOUS
    <2>1. LinesOf(n)' = {k \in 1..N : Slots[k] = n} BY <1>6, <1>7 DEF LinesOf
    <2> QED BY <1>2, <2>1, NamesCounted
  <1>9. SlotNames' = SlotNames /\ \A n : Alike(n)' = Alike(n) BY <1>1 DEF SlotNames, Alike
  <1>10. ASSUME NEW j \in 1..N, NEW k \in 1..N, j < k PROVE tree'[j][2] <= tree'[k][2]
    <2>1. Slots[j] \in Nat /\ Slots[k] \in Nat BY <1>2, SlotsAreAt, NamesAreNumbers
    <2>2. NameAt(Slots[j], j) /\ NameAt(Slots[k], k) BY <1>2, SlotsAreAt
    <2>3. j \in Nat /\ k \in Nat /\ j <= k BY <1>3, <1>10
    <2>4. Slots[j] <= Slots[k] BY <1>2, <2>1, <2>2, <2>3, NamesInOrder
    <2> QED BY <1>7, <2>4
  <1>11. ASSUME NEW k \in 1..N
         PROVE  tree'[k][1] = IF tree'[k][2] = tree'[1][2] THEN "+-"
                              ELSE IF tree'[k][2] = tree'[N][2] THEN "\\-" ELSE " +-"
    <2>1. 1 \in 1..N /\ N \in 1..N BY <1>3
    <2>2. tree'[1][2] = Slots[1] /\ tree'[N][2] = Slots[N] BY <1>7, <2>1
    <2>3. Slots[Len(Slots)] = Slots[N] BY <1>4
    <2>4. tree'[k][1] = Mark(Slots, Slots[k]) /\ tree'[k][2] = Slots[k] BY <1>7
    <2>5. Mark(Slots, Slots[k]) = IF Slots[k] = Slots[1] THEN "+-"
                                 ELSE IF Slots[k] = Slots[N] THEN "\\-" ELSE " +-"
      BY <2>3, Zenon DEF Mark
    <2> QED BY <2>2, <2>4, <2>5, Zenon
  <1>12. /\ \A n \in SlotNames' : Cardinality(LinesOf(n)') = Cardinality(Alike(n)')
         /\ \A j, k \in 1..Len(tree') : j < k => tree'[j][2] <= tree'[k][2]
    BY <1>6, <1>8, <1>9, <1>10
  <1>13. \A k \in 1..Len(tree') :
           tree'[k][1] = IF tree'[k][2] = tree'[1][2] THEN "+-"
                         ELSE IF tree'[k][2] = tree'[Len(tree')][2] THEN "\\-" ELSE " +-"
    BY <1>6, <1>11, Zenon
  <1> QED BY <1>12, <1>13, Zenon DEF TreeDrawn

LEMMA OthersDraw ==
  ASSUME ListInv, NotDrawn, TreeDrawn, [Next]_vars, ~print_pci_tree PROVE TreeDrawn'
  <1>1. CASE UNCHANGED tree /\ UNCHANGED list["tree"]
    <2>1. UNCHANGED SlotNames /\ \A n : UNCHANGED Alike(n) BY <1>1 DEF SlotNames, Alike
    <2>2. \A n : UNCHANGED LinesOf(n) BY <1>1 DEF LinesOf
    <2> QED BY <1>1, <2>1, <2>2, Zenon DEF TreeDrawn
  <1>2. CASE ReadConfig /\ ~UNCHANGED list["tree"]
    <2>1. scan = "tree"
      <3>1. scan # "tree" => UNCHANGED list["tree"]
        BY <1>2 DEF ReadConfig, ListInv, Scans
      <3> QED BY <1>2, <3>1
    <2>2. tree' = <<>> BY <1>2, <2>1 DEF NotDrawn, Building, ReadConfig
    <2> QED BY <2>2, Zenon DEF TreeDrawn
  <1>3. UNCHANGED tree
    BY DEF Next, ToolStep, vars, Plug, enumeration, VisitDevice, ReadConfig,
           CountDevice, CountMore, TreeAsked, getPciDevice, CountAsked, read_region
  <1>4. ReadConfig \/ UNCHANGED list["tree"]
    BY DEF Next, ToolStep, vars, local, Plug, enumeration, VisitDevice,
           CountDevice, CountMore, TreeAsked, getPciDevice, CountAsked, read_region
  <1> QED BY <1>1, <1>2, <1>3, <1>4

(* The tree has its lines in order, one for every device, also where the   *)
(* devices of several buses have the same name, and draws as the first and *)
(* as the last those with the names of these.                              *)
THEOREM TreeIsDrawn == Spec => []TreeDrawn
  <1>1. Init => TreeDrawn BY Zenon DEF Init, TreeDrawn
  <1>2. IInv /\ TreeInv /\ [Next]_vars => TreeInv'
    BY VisitKeeps, NotDrawnKeeps DEF IInv, TreeInv
  <1>3. IInv /\ TreeInv /\ TreeDrawn /\ [Next]_vars => TreeDrawn'
    BY print_pci_treeDraws, OthersDraw DEF IInv, TreeInv
  <1> QED BY <1>1, <1>2, <1>3, InitTree, EnumInvariant, PTL DEF Spec
=============================================================================
