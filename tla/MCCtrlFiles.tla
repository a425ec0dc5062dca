---------------------------- MODULE MCCtrlFiles ----------------------------
(***************************************************************************)
(* An instance of CtrlFiles for TLC: pages of 8 addresses in a space of    *)
(* 128, with the three BARs one after the other.                           *)
(***************************************************************************)
EXTENDS CtrlFiles

Starts == [b \in NodeBars |-> 32 * b]
=============================================================================
