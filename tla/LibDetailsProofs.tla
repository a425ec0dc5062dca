--------------------------- MODULE LibDetailsProofs ---------------------------
(***************************************************************************)
(* Proofs about the details that LibXgpu leaves out, each in a module of   *)
(* its own.  IrqRegs, for any numbers of user interrupts and pins, and any *)
(* channels: the vectors of an open device are right whatever it has been  *)
(* opened for before.  BarMap, for BARs of any length: the loop finds what *)
(* there is, and identify_bars gives the roles its comment describes.      *)
(***************************************************************************)
EXTENDS IrqRegs, BarMap, SequenceTheorems, TLAPS

(***************************************************************************)
(* IrqRegs: the inductive invariant.                                       *)
(***************************************************************************)

Locations == {"closed", "setup", "program", "open", "clear"}

RegsType ==
  /\ pc \in Locations /\ mode \in Modes
  /\ user_max \in 0..16 /\ pin \in 0..4
  /\ i \in 0..19 /\ j \in 0..4
  /\ user_msi_vector \in [Entries -> 0..31]

(* The loops: j is the register that the entry i begins, until the last    *)
(* step of the first loop takes i to the end.                              *)
LoopInv ==
  /\ pc \in {"program", "clear"} => mode = "msix"
  /\ pc = "program" /\ i < user_max => i = 4 * j
  /\ pc = "program" => i <= user_max
  /\ pc = "clear" => i = 4 * j

(* The entries programmed so far hold the vectors of their interrupts.     *)
ProgrammedInv ==
  /\ pc = "program" => \A n \in 0..i - 1 : user_msi_vector[n] = n
  /\ pc = "open" /\ mode = "msix" => \A n \in 0..user_max - 1 : user_msi_vector[n] = n

(* A device whose pin is 1, or that has none, has vectors above 0 only     *)
(* while it is open over MSI-X: in the entries that have been programmed   *)
(* and not been cleared.                                                   *)
Filled(e) ==
  CASE pc = "program" -> e < i
    [] pc = "open" /\ mode = "msix" -> e < user_max
    [] pc = "clear" -> i <= e /\ e < user_max
    [] OTHER -> FALSE

ClearedInv == pin <= 1 => \A e \in Entries : Filled(e) \/ user_msi_vector[e] = 0

(* A line has a pin, which is above 1 in the vectors or 1 because they     *)
(* are 0.                                                                  *)
LineInv ==
  pc = "open" /\ mode = "intx" =>
    /\ pin > 0
    /\ pin > 1 => \A n \in 0..15 : user_msi_vector[n] = pin - 1

IInv == RegsType /\ LoopInv /\ ProgrammedInv /\ ClearedInv /\ LineInv

(***************************************************************************)
(* The loops.                                                              *)
(***************************************************************************)

LEMMA WriteRegister ==
  ASSUME user_msi_vector \in [Entries -> 0..31], NEW r \in 0..4,
         NEW vectors \in [0..3 -> 0..31], write_register(r, vectors)
  PROVE  /\ user_msi_vector' \in [Entries -> 0..31]
         /\ \A e \in Entries :
              /\ e \in 4 * r..4 * r + 3 => user_msi_vector'[e] = vectors[e - 4 * r]
              /\ e \notin 4 * r..4 * r + 3 => user_msi_vector'[e] = user_msi_vector[e]
  <1>1. ASSUME NEW e \in Entries
        PROVE  /\ e % 4 \in 0..3
               /\ e \in 4 * r..4 * r + 3 <=> e \div 4 = r
               /\ e \div 4 = r => e % 4 = e - 4 * r
    BY DEF Entries
  <1> QED BY <1>1 DEF write_register

LEMMA prog_vectorsKeeps == ASSUME IInv, prog_vectors PROVE IInv'
  <1> DEFINE vectors == [k \in 0..3 |-> IF i + k < user_max THEN (i + k) % 32 ELSE 0]
  <1>1. i \in 0..15 /\ j \in 0..3 /\ i = 4 * j /\ user_max \in 0..16 /\ i < user_max
    BY DEF IInv, RegsType, LoopInv, prog_vectors
  <1>2. ASSUME NEW k \in 0..3
        PROVE  vectors[k] = IF i + k < user_max THEN i + k ELSE 0
    BY <1>1
  <1>3. vectors \in [0..3 -> 0..31] BY <1>1, <1>2
  <1>4. write_register(j, vectors) BY DEF prog_vectors
  <1> HIDE DEF vectors
  <1>5. /\ user_msi_vector' \in [Entries -> 0..31]
        /\ \A e \in Entries :
             /\ e \in i..i + 3 => user_msi_vector'[e] = vectors[e - i]
             /\ e \notin i..i + 3 => user_msi_vector'[e] = user_msi_vector[e]
    BY <1>1, <1>3, <1>4, WriteRegister DEF IInv, RegsType
  <1>6. \A e \in Entries :
          user_msi_vector'[e] = IF e \notin i..i + 3 THEN user_msi_vector[e]
                                ELSE IF e < user_max THEN e ELSE 0
    <2> SUFFICES ASSUME NEW e \in Entries, e \in i..i + 3
                 PROVE  user_msi_vector'[e] = IF e < user_max THEN e ELSE 0
      BY <1>5
    <2>1. e - i \in 0..3 /\ i + (e - i) = e BY <1>1 DEF Entries
    <2> QED BY <1>2, <1>5, <2>1
  <1>7. /\ UNCHANGED <<pc, mode, user_max, pin>> /\ pc = "program"
        /\ j' = j + 1 /\ i' = IF i + 4 < user_max THEN i + 4 ELSE user_max
    BY DEF prog_vectors
  <1>8. RegsType' BY <1>1, <1>5, <1>7 DEF IInv, RegsType
  <1>9. LoopInv' BY <1>1, <1>7 DEF IInv, LoopInv
  <1>10. ProgrammedInv'
    <2> SUFFICES ASSUME NEW n \in 0..i' - 1 PROVE user_msi_vector'[n] = n
      BY <1>7 DEF ProgrammedInv
    <2>1. n \in Entries /\ n < user_max /\ n <= i + 3 BY <1>1, <1>7 DEF Entries
    <2>2. n < i => user_msi_vector[n] = n
      BY <1>1, <1>7 DEF IInv, ProgrammedInv
    <2> QED BY <1>1, <1>6, <2>1, <2>2
  <1>11. ClearedInv'
    <2> SUFFICES ASSUME pin <= 1, NEW e \in Entries, ~(e < i')
                 PROVE  user_msi_vector'[e] = 0
      BY <1>7 DEF ClearedInv, Filled
    <2>1. e \in Int /\ ~(e < i) BY <1>1, <1>7 DEF Entries
    <2>2. user_msi_vector[e] = 0 BY <1>7, <2>1 DEF IInv, ClearedInv, Filled
    <2> QED BY <1>1, <1>6, <1>7, <2>1, <2>2
  <1> QED BY <1>7, <1>8, <1>9, <1>10, <1>11 DEF IInv, LineInv

LEMMA clear_vectorsKeeps == ASSUME IInv, clear_vectors PROVE IInv'
  <1>1. i \in 0..15 /\ j \in 0..3 /\ i = 4 * j /\ user_max \in 0..16
    BY DEF IInv, RegsType, LoopInv, clear_vectors, ClearsMore
  <1>2. [k \in 0..3 |-> 0] \in [0..3 -> 0..31] OBVIOUS
  <1>3. /\ user_msi_vector' \in [Entries -> 0..31]
        /\ \A e \in Entries :
             user_msi_vector'[e] = IF e \in i..i + 3 THEN 0 ELSE user_msi_vector[e]
    <2>1. ASSUME NEW e \in Entries, e \in i..i + 3 PROVE e - i \in 0..3
      BY <1>1, <2>1 DEF Entries
    <2> QED BY <1>1, <1>2, <2>1, WriteRegister DEF IInv, RegsType, clear_vectors
  <1>4. /\ UNCHANGED <<pc, mode, user_max, pin>> /\ pc = "clear"
        /\ j' = j + 1 /\ i' = i + 4
    BY DEF clear_vectors
  <1>5. RegsType' BY <1>1, <1>3, <1>4 DEF IInv, RegsType
  <1>6. LoopInv' BY <1>1, <1>4 DEF IInv, LoopInv
  <1>7. ClearedInv'
    <2> SUFFICES ASSUME pin <= 1, NEW e \in Entries, ~(i' <= e /\ e < user_max)
                 PROVE  user_msi_vector'[e] = 0
      BY <1>4 DEF ClearedInv, Filled
    <2>1. e \in i..i + 3 \/ ~(i <= e /\ e < user_max) BY <1>1, <1>4 DEF Entries
    <2> QED BY <1>3, <1>4, <2>1 DEF IInv, ClearedInv, Filled
  <1> QED BY <1>4, <1>5, <1>6, <1>7 DEF IInv, ProgrammedInv, LineInv

(***************************************************************************)
(* Setting up and tearing down.                                            *)
(***************************************************************************)

LEMMA irq_legacy_setupKeeps == ASSUME IInv, irq_legacy_setup PROVE IInv'
  <1>1. pin \in 1..4 /\ pc = "setup" /\ pc' \in {"open", "closed"} /\ mode = "intx"
    BY DEF IInv, RegsType, irq_legacy_setup, Goto
  <1>2. /\ user_msi_vector' \in [Entries -> 0..31]
        /\ pin <= 1 => user_msi_vector' = user_msi_vector
        /\ pin > 1 => \A n \in 0..15 : user_msi_vector'[n] = pin - 1
    <2>1. pin - 1 \in 0..31 BY <1>1
    <2>2. CASE pin > 1
      BY <2>1, <2>2, <1>1 DEF IInv, RegsType, irq_legacy_setup, Entries
    <2>3. CASE ~(pin > 1) BY <2>3, <1>1 DEF IInv, RegsType, irq_legacy_setup
    <2> QED BY <2>2, <2>3, <1>1
  <1>3. ClearedInv' BY <1>1, <1>2 DEF IInv, ClearedInv, Filled, irq_legacy_setup
  <1> QED BY <1>1, <1>2, <1>3
    DEF IInv, RegsType, Locations, LoopInv, ProgrammedInv, LineInv, irq_legacy_setup

(* The steps that write no vectors.                                        *)
LEMMA OtherSetupKeeps ==
  ASSUME IInv,
         \/ Quiesce \/ SetupFails \/ irq_msix_setup \/ irq_msi_setup
         \/ ProgramEnds \/ Close \/ ClearEnds
  PROVE  IInv'
  <1> USE DEF IInv, RegsType, LoopInv, ProgrammedInv, ClearedInv, Filled, LineInv,
              Goto, Locations, Modes, Entries
  <1>1. CASE Quiesce BY <1>1 DEF Quiesce
  <1>2. CASE SetupFails BY <1>2 DEF SetupFails
  <1>3. CASE irq_msix_setup BY <1>3 DEF irq_msix_setup
  <1>4. CASE irq_msi_setup BY <1>4 DEF irq_msi_setup
  <1>5. CASE ProgramEnds BY <1>5 DEF ProgramEnds
  <1>6. CASE Close BY <1>6 DEF Close
  <1>7. CASE ClearEnds BY <1>7 DEF ClearEnds, ClearsMore
  <1> QED BY <1>1, <1>2, <1>3, <1>4, <1>5, <1>6, <1>7

(* Clients, engines and the handler do not touch the vectors.              *)
LEMMA IsrKeeps ==
  ASSUME IInv,
         \/ \E c \in Channels : ClientEnables(c) \/ RequestRaised(c) \/ RequestServed(c)
         \/ InterruptStarts \/ HandlerStep \/ UNCHANGED vars
  PROVE  IInv'
  <1>1. UNCHANGED setupVars
    BY DEF ClientEnables, RequestRaised, RequestServed, InterruptStarts, HandlerStep,
           xgpu_isr, channel_interrupts_disable, vars
  <1> QED BY <1>1 DEF IInv, RegsType, LoopInv, ProgrammedInv, ClearedInv, Filled, LineInv,
                      setupVars

(***************************************************************************)
(* The theorems.                                                           *)
(***************************************************************************)

LEMMA InitInv == Init => IInv
  BY UserMaxesAssumption, PinsAssumption
  DEF Init, IInv, RegsType, LoopInv, ProgrammedInv, ClearedInv, Filled, LineInv,
      Locations, Modes, Entries

LEMMA NextKeeps == ASSUME IInv, [Next]_vars PROVE IInv'
  BY prog_vectorsKeeps, clear_vectorsKeeps, irq_legacy_setupKeeps, OtherSetupKeeps, IsrKeeps
  DEF Next, SetupStep

(* What the registers hold at each step of any sequence of opens and       *)
(* closes, in whatever modes.                                              *)
THEOREM RegsInvariant == Spec => []IInv
  BY InitInv, NextKeeps, PTL DEF Spec

(* An open device has its user interrupts where their handlers are, also   *)
(* over a line with pin 1, where the open writes no vectors.               *)
THEOREM VectorsAreRouted == Spec => []VectorsRouted
  <1>1. IInv => VectorsRouted
    <2> SUFFICES ASSUME IInv PROVE VectorsRouted OBVIOUS
    <2>1. j <= 8 BY DEF IInv, RegsType
    <2>2. ASSUME pc = "open", mode = "intx", NEW n \in 0..15
          PROVE  user_msi_vector[n] = pin - 1
      <3>1. CASE pin > 1 BY <2>2, <3>1 DEF IInv, LineInv
      <3>2. CASE ~(pin > 1)
        <4>1. pin = 1 BY <2>2, <3>2 DEF IInv, RegsType, LineInv
        <4>2. n \in Entries /\ ~Filled(n) BY <2>2 DEF Entries, Filled
        <4> QED BY <4>1, <4>2 DEF IInv, ClearedInv
      <3> QED BY <3>1, <3>2
    <2> QED BY <2>1, <2>2 DEF IInv, ProgrammedInv, VectorsRouted
  <1> QED BY <1>1, RegsInvariant, PTL

(***************************************************************************)
(* BarMap: what the loop of map_bars finds is what there is.               *)
(***************************************************************************)

(* What fits an int stays what it is.                                      *)
LEMMA CastFits == ASSUME NEW n \in 0..IntMax PROVE CastInt(n) = n
  <1>1. \A m \in Nat : n < m => n % m = n OBVIOUS
  <1>2. 2 * (IntMax + 1) \in Nat /\ n < 2 * (IntMax + 1) BY IntMaxAssumption
  <1>3. n % (2 * (IntMax + 1)) = n BY <1>1, <1>2
  <1> QED BY <1>3, IntMaxAssumption DEF CastInt

(* It is neither 0, which would mean an absent BAR, nor negative, which    *)
(* would mean an error.                                                    *)
LEMMA MappedIsPositive ==
  ASSUME NEW n \in Nat, n > 0
  PROVE  CastInt(MapLen(n)) > 0
  <1>1. MapLen(n) \in 1..IntMax BY IntMaxAssumption DEF MapLen
  <1>2. CastInt(MapLen(n)) = MapLen(n) BY <1>1, CastFits
  <1> QED BY <1>1, <1>2

(***************************************************************************)
(* The inductive invariant: the loop has found what is behind it.          *)
(***************************************************************************)
BarsLoop ==
  /\ bar_len \in [Bars -> Nat] /\ bar_i \in 0..6
  /\ bar_id_list \in Seq(Bars)
  /\ result \in {"none", "ok", "fail", "unmapped"}

BarsInv == BarsLoop /\ AllOrNothing

LEMMA AppendOrdered ==
  ASSUME NEW list \in Seq(Bars), NEW b \in Bars,
         \A k \in 1..Len(list) : list[k] < b,
         \A h, k \in 1..Len(list) : h < k => list[h] < list[k]
  PROVE  LET longer == Append(list, b) IN
         /\ \A c \in Bars : (\E k \in 1..Len(longer) : longer[k] = c)
                              <=> c = b \/ \E k \in 1..Len(list) : list[k] = c
         /\ \A h, k \in 1..Len(longer) : h < k => longer[h] < longer[k]
  <1> DEFINE longer == Append(list, b)
  <1>1. /\ Len(list) \in Nat /\ Len(longer) = Len(list) + 1
        /\ \A k \in 1..Len(list) : longer[k] = list[k]
        /\ longer[Len(list) + 1] = b
    BY AppendProperties, LenProperties
  <1> HIDE DEF longer
  <1>2. \A k \in 1..Len(longer) : k \in 1..Len(list) \/ k = Len(list) + 1 BY <1>1
  <1>3. 1..Len(list) \subseteq 1..Len(longer) /\ Len(list) + 1 \in 1..Len(longer) BY <1>1
  <1>4. ASSUME NEW c \in Bars
        PROVE  (\E k \in 1..Len(longer) : longer[k] = c)
                 <=> c = b \/ \E k \in 1..Len(list) : list[k] = c
    BY <1>1, <1>2, <1>3
  <1>5. ASSUME NEW h \in 1..Len(longer), NEW k \in 1..Len(longer), h < k
        PROVE  longer[h] < longer[k]
    <2>1. h \in 1..Len(list) BY <1>1, <1>5
    <2>2. CASE k \in 1..Len(list) BY <1>1, <1>5, <2>1, <2>2
    <2>3. CASE k = Len(list) + 1 BY <1>1, <2>1, <2>3
    <2> QED BY <1>2, <2>2, <2>3
  <1> QED BY <1>4, <1>5 DEF longer

LEMMA InitBars == MapInit => BarsInv
  <1> SUFFICES ASSUME MapInit PROVE BarsInv OBVIOUS
  <1>1. BarsLoop
    <2>1. bar_len \in [Bars -> Nat] BY LengthsAssumption DEF MapInit
    <2>2. bar_id_list \in Seq(Bars) BY EmptySeq DEF MapInit
    <2> QED BY <2>1, <2>2 DEF MapInit, BarsLoop
  <1>2. FoundAsPresent
    <2>1. Len(<<>>) = 0 OBVIOUS
    <2> QED BY <2>1 DEF MapInit, FoundAsPresent, Present, Bars
  <1> QED BY <1>1, <1>2 DEF MapInit, BarsInv, AllOrNothing

LEMMA SkipAbsentKeepsBars == ASSUME BarsInv, SkipAbsent PROVE BarsInv'
  <1>1. BarsLoop' BY DEF BarsInv, BarsLoop, SkipAbsent, Bars
  <1>2. FoundAsPresent BY DEF BarsInv, AllOrNothing, SkipAbsent
  <1>3. {b \in Present : b < bar_i} = {b \in Present : b < bar_i + 1}
    BY DEF BarsInv, BarsLoop, SkipAbsent, Present, Bars
  <1>4. FoundAsPresent' BY <1>2, <1>3 DEF FoundAsPresent, Present, SkipAbsent
  <1> QED BY <1>1, <1>4 DEF BarsInv, AllOrNothing, SkipAbsent

LEMMA map_single_barKeeps == ASSUME BarsInv, map_single_bar PROVE BarsInv'
  <1>1. bar_i \in Bars /\ result = "none" /\ bar_len[bar_i] \in Nat /\ bar_len[bar_i] > 0
    BY DEF BarsInv, BarsLoop, map_single_bar
  <1>2. CastInt(MapLen(bar_len[bar_i])) > 0 BY <1>1, MappedIsPositive
  <1>3. /\ bar' = bar \cup {bar_i} /\ bar_id_list' = Append(bar_id_list, bar_i) /\ bar_i' = bar_i + 1
        /\ UNCHANGED <<bar_len, refused, result>>
    BY <1>2 DEF map_single_bar
  <1>4. FoundAsPresent BY <1>1 DEF BarsInv, AllOrNothing
  <1>5. BarsLoop'
    <2>1. bar_id_list' \in Seq(Bars) BY <1>1, <1>3, AppendProperties DEF BarsInv, BarsLoop
    <2> QED BY <1>1, <1>3, <2>1 DEF BarsInv, BarsLoop, Bars
  <1>6. bar' = {b \in Present' : b < bar_i'}
    BY <1>1, <1>3, <1>4 DEF FoundAsPresent, Present, Bars
  <1>7. \A k \in 1..Len(bar_id_list) : bar_id_list[k] < bar_i
    <2>1. \A k \in 1..Len(bar_id_list) : bar_id_list[k] \in Bars
      BY ElementOfSeq DEF BarsInv, BarsLoop
    <2> QED BY <1>4, <2>1 DEF FoundAsPresent
  <1>8. /\ \A b \in Bars : b \in bar' <=>
             \E k \in 1..Len(bar_id_list') : bar_id_list'[k] = b
        /\ \A h, k \in 1..Len(bar_id_list') : h < k => bar_id_list'[h] < bar_id_list'[k]
    BY <1>1, <1>3, <1>4, <1>7, AppendOrdered DEF FoundAsPresent, BarsInv, BarsLoop
  <1> QED BY <1>1, <1>3, <1>5, <1>6, <1>8 DEF BarsInv, AllOrNothing, FoundAsPresent

(* Only BARs are mapped, and unmap_bars goes through all of them.          *)
LEMMA UnmapsAll == ASSUME FoundAsPresent PROVE unmap_bars(bar) = {}
  BY DEF FoundAsPresent, Present, Bars, unmap_bars

LEMMA IomapFailsKeeps == ASSUME BarsInv, IomapFails PROVE BarsInv'
  <1>1. unmap_bars(bar) = {} BY UnmapsAll DEF BarsInv, AllOrNothing, IomapFails
  <1> QED BY <1>1 DEF BarsInv, BarsLoop, AllOrNothing, IomapFails

LEMMA CloseUnmapsKeeps == ASSUME BarsInv, CloseUnmaps PROVE BarsInv'
  <1>1. unmap_bars(bar) = {} BY UnmapsAll DEF BarsInv, AllOrNothing, CloseUnmaps
  <1> QED BY <1>1 DEF BarsInv, BarsLoop, AllOrNothing, CloseUnmaps

LEMMA BarsMappedKeeps == ASSUME BarsInv, BarsMapped PROVE BarsInv'
  BY DEF BarsInv, BarsLoop, AllOrNothing, FoundAsPresent, Present,
         BarsMapped

LEMMA StutterKeepsBars == ASSUME BarsInv, UNCHANGED mapVars PROVE BarsInv'
  BY DEF BarsInv, BarsLoop, AllOrNothing, FoundAsPresent, Present, mapVars

(* A BAR of any length is found as what it is, map_bars fails for no       *)
(* length, and it leaves none mapped, nor does the close of the device.    *)
THEOREM BarsFoundOrNone ==
  MapSpec => []AllOrNothing
  <1>1. BarsInv /\ [MapNext]_mapVars => BarsInv'
    BY SkipAbsentKeepsBars, map_single_barKeeps, IomapFailsKeeps, BarsMappedKeeps,
       CloseUnmapsKeeps, StutterKeepsBars DEF MapNext
  <1>2. BarsInv => AllOrNothing BY DEF BarsInv
  <1>3. MapInit => BarsInv BY InitBars
  <1> QED BY <1>1, <1>2, <1>3, PTL DEF MapSpec

(***************************************************************************)
(* identify_bars, for any list of BARs and position its comment describes. *)
(***************************************************************************)
LEMMA IdentifiedAround ==
  ASSUME NEW list, NEW pos \in Described(Len(list))
  PROVE  identify_bars(list, pos) = RolesAround(list, pos)
  <1> USE DEF identify_bars, RolesAround, Before, After, Described,
              At
  <1>1. CASE Len(list) = 1 BY <1>1
  <1>2. CASE Len(list) = 2 BY <1>2
  <1>3. CASE Len(list) = 3 BY <1>3
  <1> QED BY <1>1, <1>2, <1>3

(* Given the position of the config BAR, the roles are those around it.    *)
THEOREM RolesAreAround == MapSpec => []IdentifiesAround
  <1>1. IdentifiesAround BY IdentifiedAround DEF IdentifiesAround
  <1> QED BY <1>1, PTL
=============================================================================
