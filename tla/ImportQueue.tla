----------------------------- MODULE ImportQueue -----------------------------
(***************************************************************************)
(* What the import pipeline promises to a client that polls its tasks, told *)
(* without instances, goroutines, files or time.  A task is queued, claimed,*)
(* possibly released again, and ends done or failed, once.  While it is     *)
(* claimed its chunks are taken in order; a chunk is taken once and stored  *)
(* at most once, and only a task whose chunks were all taken is done.       *)
(***************************************************************************)
EXTENDS Naturals

CONSTANTS Tasks, MaxChunks, ChunksOf

VARIABLES
    status,  \* upload_tasks.status, "none" before the row exists
    taken,   \* chunks taken, a prefix of the file
    stored   \* times each chunk was stored

vars == <<status, taken, stored>>

Init ==
    /\ status = [t \in Tasks |-> "none"]
    /\ taken = [t \in Tasks |-> 0]
    /\ stored = [t \in Tasks |-> [k \in 1..MaxChunks |-> 0]]

Move(S, from, to) ==
    /\ S # {}
    /\ \A t \in S : status[t] = from
    /\ status' = [t \in Tasks |-> IF t \in S THEN to ELSE status[t]]
    /\ UNCHANGED <<taken, stored>>

Submit(t) == Move({t}, "none", "pending")
Claim(S) == Move(S, "pending", "processing")
Release(S) == Move(S, "processing", "pending")
Fail(t) == Move({t}, "processing", "failed")
Finish(t) == taken[t] = ChunksOf[t] /\ Move({t}, "processing", "done")

Take(t) ==
    /\ status[t] = "processing"
    /\ taken[t] < ChunksOf[t]
    /\ taken' = [taken EXCEPT ![t] = @ + 1]
    /\ UNCHANGED <<status, stored>>

\* Only the chunk taken last can be stored; another Take gives it up.
StoreChunk(t) ==
    /\ status[t] = "processing"
    /\ taken[t] > 0
    /\ stored[t][taken[t]] = 0
    /\ stored' = [stored EXCEPT ![t][taken[t]] = 1]
    /\ UNCHANGED <<status, taken>>

Next ==
    \/ \E S \in SUBSET Tasks : Claim(S) \/ Release(S)
    \/ \E t \in Tasks : \/ Submit(t) \/ Fail(t) \/ Finish(t)
                        \/ Take(t) \/ StoreChunk(t)

Spec == Init /\ [][Next]_vars

=============================================================================
