--------------------------- MODULE MCConfigFiles ---------------------------
(***************************************************************************)
(* Instances of ConfigFiles for TLC.  The short file is one that is read   *)
(* and written in three accesses, like class.                              *)
(***************************************************************************)
EXTENDS ConfigFiles

CONSTANTS d1, d2, c1, c2

Entry(offset, length) == [offset |-> offset, length |-> length]
TwoItems == <<Entry(0, Size), Entry(1, 3)>>
ConfigOnly == <<Entry(0, Size)>>

OneDevice == [c \in Clients |-> d1]
OwnDevices == [c \in Clients |-> IF c = c1 THEN d1 ELSE d2]

(* A client that reads, in parts that end at the end of the file or not,   *)
(* beside one that writes.                                                 *)
ReaderReads == [c \in Clients |-> IF c = c1 THEN {1, 5} ELSE {}]
WriterWrites == [c \in Clients |-> IF c = c1 THEN {} ELSE {4}]

(* Clients that read and write, in a space of two bytes.                   *)
SomeOrAll == [c \in Clients |-> {1, 2}]

Never == [c \in Clients |-> {}]
ByTwo == [c \in Clients |-> {2}]
AtOnce == [c \in Clients |-> {4}]
=============================================================================
