------------------------------ MODULE MCMemories ------------------------------
(* Instances of Memories small enough for TLC.                             *)
EXTENDS Memories, TLC

CONSTANTS m1, m2, m3, m4, m5, f1, f2, c1, c2, c3, c4

CreateIngestDelete == (c1 :> "create" @@ c2 :> "ingest" @@ c3 :> "delete")
CreateUpdateImport == (c1 :> "create" @@ c2 :> "update" @@ c3 :> "import" @@ c4 :> "raw")
TwoIngests == (c1 :> "ingest" @@ c2 :> "ingest")

Interchangeable == Permutations(Ids \ Stored) \cup Permutations(Facts)

=============================================================================
