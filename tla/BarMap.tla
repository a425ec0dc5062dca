------------------------------- MODULE BarMap -------------------------------
(***************************************************************************)
(* Mapping the BARs of a device and giving them their roles: map_bars,     *)
(* map_single_bar, unmap_bars and identify_bars of xgpu_drv/libxgpu.c.     *)
(* LibXgpu has the same loop with the BARs as a set; this module has what  *)
(* it leaves out: lengths that do not fit an int, the list of BARs found,  *)
(* and what the positions in that list are taken to mean.                  *)
(***************************************************************************)
EXTENDS Integers, Sequences, FiniteSets, SequencesExt

CONSTANTS
  IntMax,        \* INT_MAX
  Lengths        \* the lengths a BAR may have, 0 for a BAR that is absent

ASSUME IntMaxAssumption == IntMax \in Nat \ {0}
ASSUME LengthsAssumption == Lengths \subseteq Nat

Bars == 0..5
None == -1

VARIABLES
  bar_len,       \* pci_resource_len of each BAR
  bar_i,         \* the BAR the loop of map_bars is at
  bar,           \* the BARs xdev->bar has an address for
  refused,       \* the BARs that pci_iomap has refused to map
  bar_id_list,   \* the BARs found so far, in their order
  roles,         \* config_bar_idx, user_bar_idx and bypass_bar_idx
  result         \* what map_bars has returned; "unmapped" at the end of all

mapVars == <<bar_len, bar_i, bar, refused, bar_id_list, roles, result>>

NoRoles == [config |-> None, user |-> None, bypass |-> None]

MapInit ==
  /\ bar_len \in [Bars -> Lengths]
  /\ bar_i = 0 /\ bar = {} /\ refused = {} /\ bar_id_list = <<>>
  /\ roles = NoRoles
  /\ result = "none"

Present == {b \in Bars : bar_len[b] > 0}

(* The conversion of a length to int, which keeps the low bits.            *)
CastInt(n) ==
  LET low == n % (2 * (IntMax + 1)) IN IF low > IntMax THEN low - 2 * (IntMax + 1) ELSE low

(* Mutant: the length is not limited to INT_MAX.                           *)
MapLen_NoLimit(n) == n
MapLen(n) == IF n > IntMax THEN IntMax ELSE n

(***************************************************************************)
(* One iteration of map_bars: map_single_bar, and what its result, which   *)
(* is the mapped length as an int, is taken for.                           *)
(***************************************************************************)
SkipAbsent ==
  /\ bar_i \in Bars /\ result = "none"
  /\ bar_len[bar_i] = 0
  /\ bar_i' = bar_i + 1
  /\ UNCHANGED <<bar_len, bar, refused, bar_id_list, roles, result>>

(* unmap_bars goes through all six BARs, and unmaps those that are mapped. *)
(* Mutant: it ends before the last one.                                    *)
unmap_bars_OneShort(mapped) == {b \in mapped : b \notin 0..4}
unmap_bars(mapped) == {b \in mapped : b \notin 0..5}

map_single_bar ==
  LET rv == CastInt(MapLen(bar_len[bar_i])) IN
  /\ bar_i \in Bars /\ result = "none"
  /\ bar_len[bar_i] > 0
  /\ CASE rv > 0 -> /\ bar' = bar \cup {bar_i} /\ bar_id_list' = Append(bar_id_list, bar_i)
                    /\ bar_i' = bar_i + 1 /\ UNCHANGED result
       [] rv = 0 -> /\ bar' = bar \cup {bar_i} /\ bar_i' = bar_i + 1
                    /\ UNCHANGED <<bar_id_list, result>>
       [] OTHER -> /\ bar' = unmap_bars(bar \cup {bar_i}) /\ result' = "fail"
                   /\ UNCHANGED <<bar_i, bar_id_list>>
  /\ UNCHANGED <<bar_len, refused, roles>>

(* pci_iomap may refuse any BAR: the BARs mapped so far are unmapped.      *)
IomapFails ==
  /\ bar_i \in Bars /\ result = "none"
  /\ bar_len[bar_i] > 0
  /\ refused' = refused \cup {bar_i}
  /\ bar' = unmap_bars(bar) /\ result' = "fail"
  /\ UNCHANGED <<bar_len, bar_i, bar_id_list, roles>>

(***************************************************************************)
(* identify_bars: the user and bypass BARs from the number of BARs and the *)
(* position of the config BAR among them, both counted from 0 as in C.     *)
(***************************************************************************)
At(list, pos) == list[pos + 1]

(* Mutant: the two cases of two BARs are taken for each other.             *)
identify_bars_Swapped(list, pos) ==
  CASE Len(list) = 2 /\ pos = 0 -> [user |-> At(list, 0), bypass |-> None]
    [] Len(list) = 2 /\ pos = 1 -> [user |-> None, bypass |-> At(list, 1)]
    [] Len(list) \in {3, 4} /\ pos \in {1, 2} ->
         [user |-> At(list, 0), bypass |-> At(list, Len(list) - 1)]
    [] OTHER -> [user |-> None, bypass |-> None]

identify_bars(list, pos) ==
  CASE Len(list) = 2 /\ pos = 0 -> [user |-> None, bypass |-> At(list, 1)]
    [] Len(list) = 2 /\ pos = 1 -> [user |-> At(list, 0), bypass |-> None]
    [] Len(list) \in {3, 4} /\ pos \in {1, 2} ->
         [user |-> At(list, 0), bypass |-> At(list, Len(list) - 1)]
    [] OTHER -> [user |-> None, bypass |-> None]

(* The search for the config BAR is compiled out: its index is set to 1,   *)
(* and the position that goes with the index it would have found stays 0.  *)
ConfigBar == 1
config_bar_pos == 0

BarsMapped ==
  LET found == identify_bars(bar_id_list, config_bar_pos) IN
  /\ bar_i \notin Bars /\ result = "none"
  /\ roles' = [config |-> ConfigBar, user |-> found.user, bypass |-> found.bypass]
  /\ result' = "ok"
  /\ UNCHANGED <<bar_len, bar_i, bar, refused, bar_id_list>>

(* The open goes wrong further on, or the device is closed.                *)
CloseUnmaps ==
  /\ result = "ok"
  /\ bar' = unmap_bars(bar) /\ result' = "unmapped"
  /\ UNCHANGED <<bar_len, bar_i, refused, bar_id_list, roles>>

MapNext == SkipAbsent \/ map_single_bar \/ IomapFails \/ BarsMapped \/ CloseUnmaps

MapSpec == MapInit /\ [][MapNext]_mapVars

(***************************************************************************)
(* Properties.                                                             *)
(***************************************************************************)

(* The type invariant; the list has no BAR twice.                          *)
TypeOK ==
  /\ bar_len \in [Bars -> Lengths]
  /\ bar_i \in 0..6 /\ bar \subseteq 0..5 /\ refused \subseteq 0..5
  /\ bar_id_list \in Seq(Bars) /\ IsInjective(bar_id_list)
  /\ roles \in [config : Bars \cup {None}, user : Bars \cup {None}, bypass : Bars \cup {None}]
  /\ result \in {"none", "ok", "fail", "unmapped"}

(* A BAR of any length counts as what it is: those behind the loop that    *)
(* have a length are mapped and listed in order, also one as long as, or   *)
(* longer than, an int can say, whose length could come out of the         *)
(* conversion as 0, which means absent, or negative, which means an error. *)
FoundAsPresent ==
  /\ bar = {b \in Present : b < bar_i}
  /\ \A b \in Bars : b \in bar <=> \E k \in 1..Len(bar_id_list) : bar_id_list[k] = b
  /\ \A j, k \in 1..Len(bar_id_list) : j < k => bar_id_list[j] < bar_id_list[k]

(* map_bars fails when pci_iomap has refused a BAR, and for no length.     *)
(* When it fails, and when the device is closed, no BAR stays mapped; and  *)
(* until then each BAR has been found as what it is.                       *)
AllOrNothing ==
  /\ result = "fail" <=> refused # {}
  /\ IF result \in {"fail", "unmapped"} THEN bar = {} ELSE FoundAsPresent

(* What the comment of identify_bars says of the roles: of the BARs that   *)
(* are found, the user BAR is the one before the config BAR, and the       *)
(* bypass BAR the one after it.                                            *)
Before(list, pos) == IF pos > 0 THEN At(list, pos - 1) ELSE None
After(list, pos) == IF pos + 1 < Len(list) THEN At(list, pos + 1) ELSE None
RolesAround(list, pos) == [user |-> Before(list, pos), bypass |-> After(list, pos)]

(* Given the position of the config BAR, identify_bars gives the roles     *)
(* that the comment describes, in each of the cases it describes: the      *)
(* config BAR alone, with either of the others, and between the two.       *)
Described(n) == CASE n = 1 -> {0} [] n = 2 -> {0, 1} [] n = 3 -> {1} [] OTHER -> {}

IdentifiesAround ==
  \A pos \in Described(Len(bar_id_list)) :
    identify_bars(bar_id_list, pos) = RolesAround(bar_id_list, pos)

(* map_bars ends with these roles for the config BAR it has chosen.        *)
RolesAroundConfig ==
  result = "ok" =>
    \A pos \in Described(Len(bar_id_list)) :
      At(bar_id_list, pos) = roles.config =>
        [user |-> roles.user, bypass |-> roles.bypass] = RolesAround(bar_id_list, pos)
=============================================================================
