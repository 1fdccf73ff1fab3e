------------------------------- MODULE MCSearch -------------------------------
(* Instances of Search small enough for TLC.                               *)
EXTENDS Search, TLC

CONSTANTS i1, i2, i3, i4

\* All three memories are within the minimum similarity, one is, or none.
SomeNear == {i1 :> a @@ i2 :> b @@ i3 :> c :
               <<a, b, c>> \in {<<0, 0, 0>>, <<2, 0, 0>>, <<3, 2, 1>>}}

\* Any of them match, in any order, with and without ties.
SomeMatches == {m \in [Ids -> 0 .. MaxRank] : FoundBy(m) = {} \/ \E id \in Ids : m[id] = 1}

SomePinned == {{i1}, {i3}, {i1, i2}}
OnePinned == {{i2}}
=============================================================================
