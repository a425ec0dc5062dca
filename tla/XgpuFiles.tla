----------------------------- MODULE XgpuFiles -----------------------------
(***************************************************************************)
(* XgpuMod with clients that have device files open: a file can be opened  *)
(* as soon as cdev_add has made it live, while probe_one goes on, and it   *)
(* stays open when its device is unwound or removed.  char_open keeps the  *)
(* xgpu_cdev in the open file; every operation reads it, and through it    *)
(* the xgpu_dev of the library.                                            *)
(***************************************************************************)
EXTENDS XgpuMod

CONSTANT Clients

VARIABLES
  freed,         \* the files, as device and type, whose first entry is freed
  file           \* file[c]: the file a client has open

fileVars == <<freed, file>>
allVars == <<vars, fileVars>>

NoFile == <<>>

FilesInit ==
  /\ Init
  /\ freed = {}
  /\ file = [c \in Clients |-> NoFile]

(* The files that are on the list of a type: from the first one that is    *)
(* left to the last one that was created.                                  *)
Live(d, t) == IF <<d, t>> \in freed THEN 2..nodes[d][t] + 1 ELSE 1..nodes[d][t]

(* file_destroy_interfaces frees the first entry of the list it is at.     *)
ModuleStep ==
  /\ Next
  /\ freed' = freed \cup {f \in Devices \X Types : nodes'[f[1]][f[2]] < nodes[f[1]][f[2]]}
  /\ UNCHANGED file

char_open(c, d, t, n) ==
  /\ file[c] = NoFile /\ n \in Live(d, t)
  /\ file' = [file EXCEPT ![c] = <<d, t, n>>]
  /\ UNCHANGED <<vars, freed>>

char_close(c) ==
  /\ file[c] # NoFile
  /\ file' = [file EXCEPT ![c] = NoFile]
  /\ UNCHANGED <<vars, freed>>

FilesNext ==
  \/ ModuleStep
  \/ \E c \in Clients :
       \/ \E d \in Devices, t \in Types : \E n \in 1..NodeCount[t] : char_open(c, d, t, n)
       \/ char_close(c)

FilesSpec == FilesInit /\ [][FilesNext]_allVars

(***************************************************************************)
(* Properties.                                                             *)
(***************************************************************************)

(* An open file refers to its xgpu_cdev, which is still there.             *)
OpenFileHasCdev ==
  \A c \in Clients : file[c] # NoFile => ~(file[c][3] = 1 /\ <<file[c][1], file[c][2]>> \in freed)
=============================================================================
