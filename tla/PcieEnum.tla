------------------------------ MODULE PcieEnum ------------------------------
(***************************************************************************)
(* The enumeration tool pcie_enum: main, the class pci_tree, which visits  *)
(* the devices under /sys/bus/pci/devices, the count of the resource files *)
(* of a device and the printing of its regions and of the tree.  The tool  *)
(* reads sysfs file by file, while devices may be plugged and unplugged.   *)
(***************************************************************************)
EXTENDS Integers, Sequences, FiniteSets, SequencesExt

CONSTANTS
  Devices,       \* the devices there may be, pairs of a bus and a slot
  Machines,      \* the machines, each with the devices it may have, their
                 \* resource files, and the options given to the tool
  Changing       \* whether devices come and go while the tool runs

Numerals == {<<n>> : n \in 0..5}
ASSUME DevicesAssumption == Devices \subseteq Nat \X Nat /\ Changing \in BOOLEAN
ASSUME MachinesAssumption ==
  \A m \in Machines :
    /\ m.options \subseteq {"tree", "id"}
    /\ DOMAIN m.files \subseteq Devices
    /\ \A d \in DOMAIN m.files : m.files[d] \subseteq Numerals

VARIABLES
  present,       \* the devices sysfs shows
  files,         \* the numerals at the end of their resource files
  options,       \* the options, of "tree" and "id"
  id,            \* the argument of the option id
  pc,            \* where the tool is
  scan,          \* whose pci_tree is built: "main", "tree" or "region"
  todo,          \* the entries of the directory it has not visited
  dev,           \* the device being visited
  list,          \* the m_pciDeviceList of each pci_tree, with the configs
  P, count,      \* the next file to look for, and regionAmount while counting
  amount,        \* the regionAmount of main
  tree, text     \* what has been printed of the tree and of the regions

sysfs == <<present, files, options, id>>
local == <<todo, dev, list, P, count>>
vars == <<sysfs, pc, scan, local, amount, tree, text>>

Scans == {"main", "tree", "region"}
ConfigSize == 64
Empty == [d \in {} |-> 0]

Init ==
  /\ \E m \in Machines : files = m.files /\ options = m.options
  /\ present \in SUBSET DOMAIN files
  /\ id \in DOMAIN files
  /\ pc = "enumerate" /\ scan = "main"
  /\ todo = {} /\ dev = id /\ list = [s \in Scans |-> Empty]
  /\ P = <<>> /\ count = 0 /\ amount = 0
  /\ tree = <<>> /\ text = <<>>

(* A device appears with its files, and disappears with them.              *)
Plug(d) ==
  /\ Changing /\ pc \notin {"ended", "crashed"}
  /\ d \in DOMAIN files
  /\ present' = IF d \in present THEN present \ {d} ELSE present \cup {d}
  /\ UNCHANGED <<files, options, id, pc, scan, local, amount, tree, text>>

(***************************************************************************)
(* The constructor of pci_tree: enumeration, and a pci_device for each     *)
(* path.  stoi throws when the file with an id could not be opened, and    *)
(* nothing catches it.  A config file that is gone is read as empty.       *)
(***************************************************************************)
enumeration ==
  /\ pc = "enumerate"
  /\ pc' = "visit" /\ todo' = present
  /\ UNCHANGED <<sysfs, scan, dev, list, P, count, amount, tree, text>>

VisitDevice ==
  /\ pc = "visit"
  /\ \E d \in todo :
       /\ todo' = todo \ {d} /\ dev' = d
       /\ pc' = IF d \in present THEN "config" ELSE "crashed"
  /\ UNCHANGED <<sysfs, scan, list, P, count, amount, tree, text>>

ReadConfig ==
  LET size == IF dev \in present THEN ConfigSize ELSE 0 IN
  /\ pc = "config"
  /\ list' = [list EXCEPT ![scan] = [d \in DOMAIN @ \cup {dev} |-> IF d = dev THEN size ELSE @[d]]]
  /\ pc' = "region_count"
  /\ UNCHANGED <<sysfs, scan, todo, dev, P, count, amount, tree, text>>

(***************************************************************************)
(* getPciDeviceRegionAmount, which looks for the file without a numeral,   *)
(* here <<>>, and then for the others in turn; aaa writes the numeral.     *)
(* Its variables are gone when it returns.                                 *)
(***************************************************************************)
aaa[n \in Nat] == IF n < 10 THEN <<n>> ELSE Append(aaa[n \div 10], n % 10)

Exists(d) == d \in present /\ (P = <<>> \/ P \in files[d])

(* Mutant: the number is not counted up.                                   *)
CountMore_Stays(d) ==
  /\ Exists(d)
  /\ P' = aaa[count]
  /\ UNCHANGED <<sysfs, pc, scan, todo, dev, list, count, amount, tree, text>>

CountMore(d) ==
  /\ Exists(d)
  /\ P' = aaa[count] /\ count' = count + 1
  /\ UNCHANGED <<sysfs, pc, scan, todo, dev, list, amount, tree, text>>

(* Mutant: the file that was not found is counted.                         *)
Amount_OneMore == count
Amount == count - 1

CountDevice ==
  /\ pc = "region_count"
  /\ \/ CountMore(dev)
     \/ /\ ~Exists(dev) /\ pc' = "visit"
        /\ P' = <<>> /\ count' = 0
        /\ UNCHANGED <<sysfs, scan, todo, dev, list, amount, tree, text>>

(* The pci_tree is built: print_pci_tree prints it, read_region and main   *)
(* look for the device in theirs.                                          *)
Scanned(s) == pc = "visit" /\ todo = {} /\ scan = s

(***************************************************************************)
(* print_pci_tree has no return statement: its caller destroys a string    *)
(* that was never made, which may go unnoticed.                            *)
(***************************************************************************)
Asked == IF "id" \in options THEN "look" ELSE "ended"

TreeAsked ==
  /\ Scanned("main")
  /\ IF "tree" \in options THEN pc' = "enumerate" /\ scan' = "tree" ELSE pc' = Asked /\ UNCHANGED scan
  /\ UNCHANGED <<sysfs, local, amount, tree, text>>

(* The names lose their domain and bus, and are sorted: of a list in       *)
(* order, fewer than k stand before the k-th, and at least k up to it.     *)
Below(n) == {d \in DOMAIN list["tree"] : d[2] < n}
UpToSlot(n) == {d \in DOMAIN list["tree"] : d[2] <= n}
SlotNames == {d[2] : d \in DOMAIN list["tree"]}

Slots == [k \in 1..Cardinality(DOMAIN list["tree"]) |->
            CHOOSE n \in SlotNames : Cardinality(Below(n)) < k /\ k <= Cardinality(UpToSlot(n))]

(* Mutant: the last line is looked for first.                              *)
Mark_BackFirst(slots, s) ==
  IF s = slots[Len(slots)] THEN "\\-" ELSE IF s = slots[1] THEN "+-" ELSE " +-"

Mark(slots, s) ==
  IF s = slots[1] THEN "+-" ELSE IF s # slots[Len(slots)] THEN " +-" ELSE "\\-"

print_pci_tree ==
  /\ Scanned("tree")
  /\ tree' = [k \in DOMAIN Slots |-> <<Mark(Slots, Slots[k]), Slots[k]>>]
  /\ pc' \in {Asked, "crashed"}
  /\ UNCHANGED <<sysfs, scan, local, amount, text>>

(***************************************************************************)
(* The option id: the device is looked for in the list main has built, its *)
(* files are counted, and read_region builds a list of its own.            *)
(***************************************************************************)
getPciDevice ==
  /\ pc = "look"
  /\ pc' = IF id \in DOMAIN list["main"] THEN "main_count" ELSE "ended"
  /\ UNCHANGED <<sysfs, scan, local, amount, tree, text>>

CountAsked ==
  /\ pc = "main_count"
  /\ \/ CountMore(id)
     \/ /\ ~Exists(id)
        /\ amount' = Amount
        /\ pc' = "enumerate" /\ scan' = "region"
        /\ P' = <<>> /\ count' = 0
        /\ UNCHANGED <<sysfs, todo, dev, list, tree, text>>

(* One turn of the second loop over the config, for the byte k, whose      *)
(* counter i starts at 1 and is counted up before it is tested.  It prints *)
(* the byte, and the heading <<"region", r_a>>, counting the headings.     *)
(* Mutant: the heading after the last region is printed as well.           *)
Heading_OneMore(i) == (i - 17) % 4 = 0 /\ i <= 17 + amount * 4 /\ i >= 17
Heading(i) == (i - 17) % 4 = 0 /\ i <= 16 + amount * 4 /\ i >= 17

PrintByte(k) ==
  LET i == k + 2
      r_a == Cardinality({j \in 2..(i - 1) : Heading(j)})
  IN (IF i >= 18 /\ i <= 17 + amount * 4 THEN <<<<"byte", k>>>> ELSE <<>>)
     \o (IF Heading(i) THEN <<<<"region", r_a>>>> ELSE <<>>)

read_region ==
  /\ Scanned("region")
  /\ pc' = "ended"
  /\ text' = IF id \in DOMAIN list["region"]
             THEN FlattenSeq([n \in 1..list["region"][id] |-> PrintByte(n - 1)])
             ELSE <<"failed">>
  /\ UNCHANGED <<sysfs, scan, local, amount, tree>>

ToolStep ==
  \/ enumeration \/ VisitDevice \/ ReadConfig \/ CountDevice
  \/ TreeAsked \/ print_pci_tree
  \/ getPciDevice \/ CountAsked \/ read_region

Next == ToolStep \/ \E d \in Devices : Plug(d)

Spec == Init /\ [][Next]_vars

(* The tool is a process the system schedules.                             *)
FairSpec == Spec /\ WF_vars(ToolStep)

(***************************************************************************)
(* Properties.                                                             *)
(***************************************************************************)

(* Whatever is plugged while the tool counts, each of the regions it names *)
(* has a resource file.                                                    *)
AmountBacked == \A n \in 0..(amount - 1) : <<n>> \in files[id]

(* The bytes printed under the heading of a region are those of its base   *)
(* address register in the config of the device, for every region counted. *)
RegionText(n) ==
  FlattenSeq([r \in 1..n |->
    <<<<"region", r - 1>>>> \o [k \in 1..4 |-> <<"byte", 15 + 4 * (r - 1) + k>>]])

RegionsShown ==
  pc = "ended" /\ scan = "region" /\ id \in DOMAIN list["region"] /\ list["region"][id] > 0
    => text = RegionText(amount)

(* The tree has a line for every device that was listed, under the name    *)
(* that is left of it, in order, also where devices on several buses have  *)
(* come to the same name.  A line is drawn as the first, or as the last,   *)
(* when its name is that of the first, or else that of the last line.      *)
Alike(n) == {d \in DOMAIN list["tree"] : d[2] = n}
LinesOf(n) == {k \in 1..Len(tree) : tree[k][2] = n}

TreeDrawn ==
  tree # <<>> =>
    /\ \A n \in SlotNames : Cardinality(LinesOf(n)) = Cardinality(Alike(n))
    /\ \A j, k \in 1..Len(tree) : j < k => tree[j][2] <= tree[k][2]
    /\ \A k \in 1..Len(tree) :
         tree[k][1] = IF tree[k][2] = tree[1][2] THEN "+-"
                      ELSE IF tree[k][2] = tree[Len(tree)][2] THEN "\\-" ELSE " +-"

(* One line is drawn as the first of the bus "[0000:00]", and one, if      *)
(* there are more, as the last.                                            *)
OneLast ==
  \A j, k \in 1..Len(tree) :
    j # k => /\ ~(tree[j][1] = "+-" /\ tree[k][1] = "+-")
             /\ ~(tree[j][1] = "\\-" /\ tree[k][1] = "\\-")

(* The tool comes to an end, whatever is plugged while it runs.            *)
ToolEnds == <>(pc \in {"ended", "crashed"})

(* The regions the tool names are those the device has.                    *)
RegionsCounted ==
  pc = "ended" /\ scan = "region" => amount = Cardinality(files[id])

(* The tool lists the devices there are, without an exception or a crash.  *)
ToolSurvives == pc # "crashed"
=============================================================================
