---------------------------- MODULE MemoryHistory ----------------------------
(***************************************************************************)
(* The history a tenant's memory table keeps, told without agents, models  *)
(* or statements: a memory is born live, may be replaced once by one newly *)
(* born memory in the same step, and may be deleted.  Nothing comes back,  *)
(* and a deleted memory is not replaced.                                   *)
(***************************************************************************)
CONSTANTS Ids, NoId

VARIABLES
    status,  \* "unborn", "live", "replaced" or "deleted"
    heir     \* the memory that replaced this one

vars == <<status, heir>>

Init ==
    /\ status \in [Ids -> {"unborn", "live"}]
    /\ heir = [i \in Ids |-> NoId]

\* One insert, or a batch inserted in one transaction.
Born(S) ==
    /\ S # {}
    /\ \A i \in S : status[i] = "unborn"
    /\ status' = [i \in Ids |-> IF i \in S THEN "live" ELSE status[i]]
    /\ UNCHANGED heir

Replace(old, new) ==
    /\ status[old] = "live"
    /\ status[new] = "unborn"
    /\ status' = [status EXCEPT ![old] = "replaced", ![new] = "live"]
    /\ heir' = [heir EXCEPT ![old] = new]

Delete(i) ==
    /\ status[i] \in {"live", "replaced"}
    /\ status' = [status EXCEPT ![i] = "deleted"]
    /\ UNCHANGED heir

Next ==
    \/ \E S \in SUBSET Ids : Born(S)
    \/ \E i, j \in Ids : Replace(i, j)
    \/ \E i \in Ids : Delete(i)

Spec == Init /\ [][Next]_vars

=============================================================================
