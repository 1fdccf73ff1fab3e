---------------------------- MODULE MCUploadTasks ----------------------------
(***************************************************************************)
(* Small instances of UploadTasks for TLC.                                 *)
(***************************************************************************)
EXTENDS UploadTasks, TLC

CONSTANTS t1, t2, i1, i2, d1, d2, n1, n2

\* Two instances with a directory of their own, or sharing one.
OwnDisks == i1 :> d1 @@ i2 :> d2
SharedDisk == i1 :> d1 @@ i2 :> d1
OneInstance == i1 :> d1

OwnNames == t1 :> n1 @@ t2 :> n2
SameName == t1 :> n1 @@ t2 :> n1
OneName == t1 :> n1

\* A file of two chunks and one of a single chunk.
TwoAndOne == t1 :> 2 @@ t2 :> 1
OneEach == t1 :> 1 @@ t2 :> 1
TwoChunks == t1 :> 2

=============================================================================
