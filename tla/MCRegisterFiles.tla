-------------------------- MODULE MCRegisterFiles --------------------------
(***************************************************************************)
(* Instances of RegisterFiles for TLC.                                     *)
(***************************************************************************)
EXTENDS RegisterFiles

CONSTANTS d1, d2

TwoMajors == [d \in Devices |-> IF d = d1 THEN 234 ELSE 235]
=============================================================================
