----------------------------- MODULE MCPcieEnum -----------------------------
(***************************************************************************)
(* Machines for the model checker: one device with any of its six resource *)
(* files, asked for everything, and three devices on two buses, two of     *)
(* them in the same slot or not, of which the tree is drawn; and, to be    *)
(* looked at without changes, a device with a gap in its resource files.   *)
(***************************************************************************)
EXTENDS PcieEnum

MCDevices == {<<0, 1>>, <<0, 2>>, <<1, 2>>, <<1, 3>>}

Machine(devices, numerals, asked) ==
  [files |-> [d \in devices |-> numerals], options |-> asked]

MCMachines ==
  {Machine({<<0, 1>>}, numerals, {"tree", "id"}) : numerals \in SUBSET Numerals}
    \cup {Machine({<<0, 1>>, <<0, 2>>, d}, {}, {"tree"}) : d \in {<<1, 2>>, <<1, 3>>}}
MCBuses == {Machine({<<0, 1>>, <<0, 2>>, <<1, 2>>}, {}, {"tree"})}
MCGap == {Machine({<<0, 1>>}, {<<0>>, <<2>>}, {"id"})}
=============================================================================
