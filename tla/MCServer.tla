------------------------------- MODULE MCServer -------------------------------
(* Instances of Server small enough for TLC.                               *)
EXTENDS Server, TLC

CONSTANTS t1, t2, h1, h2, h3, r1, r2, r3

Interchangeable ==
    Permutations(Tenants) \cup Permutations(Handles) \cup Permutations(Requests)

=============================================================================
