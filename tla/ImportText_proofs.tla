-------------------------- MODULE ImportText_proofs --------------------------
(***************************************************************************)
(* Proofs about ImportText: whatever the sizes of the chunks, the lines of *)
(* the file and the crashes, an import that is done gave every item to     *)
(* storage once, but for the chunks a crash cut short, its progress is     *)
(* complete, and what it stored of a message is its text without the       *)
(* injected context.                                                       *)
(*                                                                         *)
(* The first three follow from where the loop stands (IInv).  The last one *)
(* follows a text through the passes of stripMemoryTags: after each, it is *)
(* clean up to some place where no tag is open, and whole behind it        *)
(* (CleanTo).                                                              *)
(***************************************************************************)
EXTENDS ImportText, FiniteSetTheorems, SequenceTheorems, WellFoundedInduction,
        TLAPS

\* What the loop needs of the types; the texts do not matter to it.
LoopTypes ==
    /\ file \in Files
    /\ pc \in {"parse", "loop", "strip", "store", "done", "failed"}
    /\ total \in Nat
    /\ done \in Nat
    /\ batch \in Nat
    /\ offset \in Nat
    /\ given \in [1..MaxLines -> Nat]
    /\ cut \subseteq 1..MaxLines

Working == pc \in {"strip", "store"}

\* Where the loop stands: the checkpoint is never behind it, one ahead while a
\* chunk is worked on, and never past the last chunk.
Position ==
    /\ offset = batch * Size
    /\ batch <= done
    /\ done <= Batches
    /\ pc \in {"loop", "strip", "store", "done"} => total = Batches
    /\ Working => done = batch + 1
    /\ pc = "done" => done = total /\ offset >= Count

\* The items behind the loop and its checkpoint.
Behind == IF Working THEN offset ELSE done * Size

\* Nothing was handed over in advance, or twice.
NotYet ==
    /\ \A i \in 1..MaxLines : given[i] <= 1
    /\ \A i \in 1..MaxLines : i \notin Items => given[i] = 0
    /\ \A i \in Items : Place(i) > Behind => given[i] = 0

\* Everything behind was handed over, or cut short, unless the task failed.
Covered ==
    pc # "failed" =>
       \A i \in Items : Place(i) <= Behind => given[i] = 1 \/ i \in cut

IInv == LoopTypes /\ Position /\ NotYet /\ Covered

-----------------------------------------------------------------------------
(* Arithmetic of the chunks                                                *)

LEMMA NextMultiple ==
  ASSUME NEW k \in Nat, NEW s \in Nat
  PROVE  (k + 1) * s = k * s + s
  BY SMT

LEMMA ProductInNat ==
  ASSUME NEW k \in Nat, NEW s \in Nat
  PROVE  k * s \in Nat
  BY SMT

LEMMA TimesPositive ==
  ASSUME NEW m \in Nat, NEW s \in Nat \ {0}, NEW c \in Nat, c <= m
  PROVE  m * s >= c
  BY SMT

\* The number of batches is the least that reaches the count.
LEMMA RoundedUp ==
  ASSUME NEW c \in Nat, NEW s \in Nat \ {0}, NEW k \in Nat
  PROVE  /\ (c + s - 1) \div s \in Nat
         /\ k * s < c => k + 1 <= (c + s - 1) \div s
         /\ k * s >= c => (c + s - 1) \div s <= k
  BY SMT

-----------------------------------------------------------------------------
(* The items of the file                                                   *)

LEMMA SizeIsPositive == Size \in Nat \ {0}
  BY ConstantsAssumption DEF Size

LEMMA ItemsAreLines ==
  ASSUME file \in Files
  PROVE  Items \subseteq 1..MaxLines
  <1>1. IsFile(file)
    BY ConstantsAssumption
  <1>2. DOMAIN file.lines = 1..Len(file.lines) /\ Len(file.lines) \in Nat
    BY <1>1 DEF IsFile
  <1> QED BY <1>1, <1>2, ConstantsAssumption DEF IsFile, Items

LEMMA PlaceBounded ==
  ASSUME file \in Files
  PROVE  /\ IsFiniteSet(Items)
         /\ Count \in Nat
         /\ \A i \in Items : Place(i) \in Nat /\ Place(i) <= Count
  <1>1. IsFiniteSet(1..MaxLines)
    BY ConstantsAssumption, FS_Interval
  <1>2. IsFiniteSet(Items)
    BY <1>1, ItemsAreLines, FS_Subset
  <1>3. ASSUME NEW i \in Items
        PROVE  Place(i) \in Nat /\ Place(i) <= Count
    <2>1. {k \in Items : k <= i} \in SUBSET Items
      OBVIOUS
    <2> QED BY <1>2, <2>1, FS_Subset, FS_CardinalityType DEF Place, Count
  <1> QED BY <1>2, <1>3, FS_CardinalityType DEF Count

LEMMA Rigid ==
  ASSUME file' = file
  PROVE  /\ Items' = Items /\ Size' = Size /\ Count' = Count
         /\ Batches' = Batches
         /\ \A i : Place(i)' = Place(i)
  BY DEF Items, Size, Count, Batches, Place

\* The chunk at the offset: the items from there on, up to a chunk's size.
LEMMA ChunkIs ==
  ASSUME file \in Files, offset \in Nat
  PROVE  Chunk = {i \in Items : offset < Place(i) /\ Place(i) <= offset + Size}
  BY PlaceBounded, SizeIsPositive DEF Chunk, Upto

-----------------------------------------------------------------------------
\* It holds before the file is parsed.
LEMMA InitIInv == Init => IInv
  <1> SUFFICES ASSUME Init PROVE IInv
    OBVIOUS
  <1>1. LoopTypes
    BY DEF Init, LoopTypes, None
  <1>2. Size \in Nat \ {0} /\ Count \in Nat
    BY <1>1, SizeIsPositive, PlaceBounded DEF LoopTypes
  <1>3. Batches \in Nat
    BY <1>2, RoundedUp DEF Batches
  <1>4. 0 * Size = 0
    BY <1>2
  <1>5. Position
    BY <1>3, <1>4 DEF Init, Position, Working
  <1>6. Behind = 0
    BY <1>4 DEF Behind, Working, Init
  <1>7. Items \subseteq 1..MaxLines
    BY <1>1, ItemsAreLines DEF LoopTypes
  <1>8. NotYet
    BY <1>7 DEF NotYet, Init, None
  <1>9. ASSUME NEW i \in Items PROVE Place(i) > 0
    <2>1. i \in {k \in Items : k <= i}
      BY <1>7
    <2>2. IsFiniteSet({k \in Items : k <= i})
      BY <1>1, PlaceBounded, FS_Subset DEF LoopTypes
    <2> QED BY <2>1, <2>2, FS_EmptySet, FS_CardinalityType DEF Place
  <1>10. Covered
    BY <1>6, <1>9, <1>1, PlaceBounded DEF Covered, LoopTypes
  <1> QED BY <1>1, <1>5, <1>8, <1>10 DEF IInv

\* No step of the worker, no error and no crash breaks it.
LEMMA StepIInv == IInv /\ [Next]_vars => IInv'
  <1> SUFFICES ASSUME IInv, [Next]_vars PROVE IInv'
    OBVIOUS
  <1> USE DEF IInv
  <1>1. file' = file
    BY DEF Next, vars, Parse, Finish, Skip, Checkpoint, Pass, Clean, Store,
           Fail, Crash
  <1>2. /\ Items' = Items /\ Size' = Size /\ Count' = Count
        /\ Batches' = Batches
        /\ \A i : Place(i)' = Place(i)
    BY <1>1, Rigid
  <1>3. /\ Size \in Nat \ {0}
        /\ Count \in Nat
        /\ Items \subseteq 1..MaxLines
        /\ \A i \in Items : Place(i) \in Nat /\ Place(i) <= Count
    BY SizeIsPositive, PlaceBounded, ItemsAreLines DEF LoopTypes
  <1>4. /\ batch \in Nat /\ done \in Nat
        /\ batch * Size \in Nat /\ done * Size \in Nat
        /\ (batch + 1) * Size = batch * Size + Size
    BY <1>3, ProductInNat, NextMultiple DEF LoopTypes
  <1>5. /\ Batches \in Nat
        /\ batch * Size < Count => batch + 1 <= Batches
        /\ batch * Size >= Count => Batches <= batch
    BY <1>3, <1>4, RoundedUp DEF Batches
  <1>6. Chunk = {i \in Items : offset < Place(i) /\ Place(i) <= offset + Size}
    BY ChunkIs DEF LoopTypes
  <1>7. CASE Parse
    <2>1. Behind' = Behind
      BY <1>7, <1>2, <1>4 DEF Parse, Behind, Working
    <2>2. 0 * Size = 0
      BY <1>3
    <2>3. LoopTypes'
      BY <1>7, <1>5 DEF Parse, LoopTypes
    <2>4. Position'
      BY <1>7, <1>2, <2>2, <1>4, <1>5 DEF Parse, Position, Working
    <2>5. NotYet'
      BY <1>7, <1>2, <2>1 DEF Parse, NotYet
    <2>6. Covered'
      BY <1>7, <1>2, <2>1 DEF Parse, Covered
    <2> QED BY <2>3, <2>4, <2>5, <2>6
  <1>8. CASE Finish
    <2>1. Behind' = Behind
      BY <1>8, <1>2, <1>4 DEF Finish, Behind, Working
    <2>2. LoopTypes'
      BY <1>8 DEF Finish, LoopTypes
    <2>3. Position'
      BY <1>8, <1>2, <1>3, <1>4, <1>5 DEF Finish, End, Position, Working,
                                           LoopTypes
    <2>4. NotYet'
      BY <1>8, <1>2, <2>1 DEF Finish, NotYet
    <2>5. Covered'
      BY <1>8, <1>2, <2>1 DEF Finish, Covered
    <2> QED BY <2>2, <2>3, <2>4, <2>5
  <1>9. CASE Skip
    <2>1. Behind' = Behind
      BY <1>9, <1>2, <1>4 DEF Skip, Behind, Working
    <2>2. LoopTypes'
      BY <1>9, <1>3 DEF Skip, LoopTypes
    <2>3. Position'
      BY <1>9, <1>2, <1>3, <1>4, <1>5 DEF Skip, Position, Working, LoopTypes
    <2>4. NotYet'
      BY <1>9, <1>2, <2>1 DEF Skip, NotYet
    <2>5. Covered'
      BY <1>9, <1>2, <2>1 DEF Skip, Covered
    <2> QED BY <2>2, <2>3, <2>4, <2>5
  <1>10. CASE Checkpoint
    <2>1. /\ batch = done /\ done' = batch + 1 /\ offset < Count
          /\ Working' /\ ~Working
          /\ UNCHANGED <<file, total, batch, offset, given, cut, crashes>>
      BY <1>10, <1>3, <1>4 DEF Checkpoint, Position, Working, End, LoopTypes
    <2>2. Behind' = Behind
      BY <2>1, <1>2, <1>4 DEF Behind, Position
    <2>3. LoopTypes'
      BY <1>10, <2>1, <1>4 DEF Checkpoint, LoopTypes
    <2>4. Position'
      BY <1>10, <2>1, <1>2, <1>3, <1>4, <1>5 DEF Checkpoint, Position, Working
    <2>5. NotYet'
      BY <2>1, <1>2, <2>2 DEF NotYet
    <2>6. Covered'
      BY <1>10, <2>1, <1>2, <2>2 DEF Checkpoint, Covered
    <2> QED BY <2>3, <2>4, <2>5, <2>6
  <1>11. CASE Pass \/ Clean
    <2>1. /\ Working' /\ Working
          /\ UNCHANGED <<file, total, done, batch, offset, given, cut, crashes>>
      BY <1>11 DEF Pass, Clean, Working
    <2>2. Behind' = Behind
      BY <2>1 DEF Behind
    <2>3. LoopTypes'
      BY <2>1 DEF LoopTypes, Working
    <2>4. Position'
      BY <2>1, <1>2 DEF Position, Working
    <2>5. NotYet'
      BY <2>1, <1>2, <2>2 DEF NotYet
    <2>6. Covered'
      BY <2>1, <1>2, <2>2 DEF Covered, Working
    <2> QED BY <2>3, <2>4, <2>5, <2>6
  <1>12. CASE Store
    <2>1. /\ Working /\ ~Working' /\ done = batch + 1
          /\ batch' = batch + 1 /\ offset' = offset + Size /\ pc' = "loop"
          /\ pc = "store"
          /\ UNCHANGED <<file, total, done, cut, crashes>>
      BY <1>12 DEF Store, Working, Position
    <2>2. /\ offset \in Nat /\ offset = batch * Size
          /\ Behind = offset /\ Behind' = offset + Size
      BY <2>1, <1>2, <1>4 DEF Behind, Position
    <2>3. \A i \in 1..MaxLines :
             given'[i] = given[i] + (IF i \in Chunk THEN 1 ELSE 0)
      BY <1>12 DEF Store
    <2>4. \A i \in 1..MaxLines : given[i] \in Nat
      BY DEF LoopTypes
    <2>5. \A i \in Chunk : i \in Items /\ given[i] = 0
      BY <1>6, <2>2 DEF NotYet
    <2>6. given' \in [1..MaxLines -> Nat]
      BY <1>12, <2>4 DEF Store
    <2>7. LoopTypes'
      BY <2>1, <2>2, <2>6, <1>3, <1>4 DEF LoopTypes
    <2>8. Position'
      BY <2>1, <2>2, <1>2, <1>3, <1>4 DEF Position, Working
    <2>9. NotYet'
      <3>1. \A i \in 1..MaxLines : given'[i] <= 1
        BY <2>3, <2>4, <2>5 DEF NotYet
      <3>2. \A i \in 1..MaxLines : i \notin Items => given'[i] = 0
        BY <2>3, <1>6 DEF NotYet
      <3>3. \A i \in Items : Place(i) > offset + Size => given'[i] = 0
        BY <2>2, <2>3, <1>3, <1>6 DEF NotYet
      <3> QED BY <3>1, <3>2, <3>3, <2>2, <1>2 DEF NotYet
    <2>10. Covered'
      <3>1. ASSUME NEW i \in Items, Place(i) <= offset + Size
            PROVE  given'[i] = 1 \/ i \in cut
        <4>1. CASE i \in Chunk
          BY <4>1, <2>3, <2>5, <1>3
        <4>2. CASE i \notin Chunk
          BY <4>2, <3>1, <2>1, <2>2, <2>3, <2>4, <1>3, <1>6 DEF Covered
        <4> QED BY <4>1, <4>2
      <3> QED BY <3>1, <2>1, <2>2, <1>2 DEF Covered
    <2> QED BY <2>7, <2>8, <2>9, <2>10
  <1>13. CASE Fail
    <2>1. /\ Behind \in Nat /\ Behind' \in Nat /\ Behind <= Behind'
          /\ UNCHANGED <<file, total, done, batch, offset, given, cut, crashes>>
          /\ pc' = "failed" /\ ~Working'
      BY <1>13, <1>2, <1>3, <1>4 DEF Fail, Behind, Working, Position
    <2>2. LoopTypes'
      BY <2>1 DEF LoopTypes
    <2>3. Position'
      BY <2>1, <1>2 DEF Position
    <2>4. NotYet'
      BY <2>1, <1>2, <1>3 DEF NotYet
    <2>5. Covered'
      BY <2>1 DEF Covered
    <2> QED BY <2>2, <2>3, <2>4, <2>5
  <1>14. CASE Crash
    <2>1. /\ Behind \in Nat /\ Behind' \in Nat /\ Behind <= Behind'
          /\ Behind' = Behind \/ (Working /\ Behind = offset
                                    /\ Behind' = offset + Size
                                    /\ cut' = cut \cup Chunk)
          /\ UNCHANGED <<file, total, done, batch, offset, given>>
          /\ pc' = "parse" /\ ~Working' /\ pc # "failed"
          /\ cut \subseteq cut' /\ cut' \subseteq cut \cup Chunk
      BY <1>14, <1>2, <1>3, <1>4 DEF Crash, Behind, Working, Position
    <2>2. LoopTypes'
      BY <2>1, <1>3, <1>6 DEF LoopTypes
    <2>3. Position'
      BY <2>1, <1>2 DEF Position
    <2>4. NotYet'
      BY <2>1, <1>2, <1>3 DEF NotYet
    <2>5. Covered'
      <3>1. ASSUME NEW i \in Items, Place(i) <= Behind'
            PROVE  given[i] = 1 \/ i \in cut'
        BY <3>1, <2>1, <1>3, <1>6 DEF Covered
      <3> QED BY <3>1, <2>1, <1>2 DEF Covered
    <2> QED BY <2>2, <2>3, <2>4, <2>5
  <1>15. CASE UNCHANGED vars
    <2>1. Behind' = Behind
      BY <1>15, <1>2 DEF vars, Behind, Working
    <2> QED
      BY <1>15, <1>2, <2>1 DEF vars, LoopTypes, Position, Working, NotYet,
                               Covered
  <1> QED
    BY <1>7, <1>8, <1>9, <1>10, <1>11, <1>12, <1>13, <1>14, <1>15 DEF Next

LEMMA Inductive == Spec => []IInv
  BY InitIInv, StepIInv, PTL DEF Spec

-----------------------------------------------------------------------------
\* For every size of chunks and batches, every file and any number of crashes,
\* no message or memory of an upload is handed to Ingest or BulkCreate twice.
THEOREM NothingTwice == Spec => []GivenOnce
  <1>1. IInv => GivenOnce
    BY DEF IInv, NotYet, GivenOnce
  <1> QED BY <1>1, Inductive, PTL

\* When the worker's loop ends, the chunks it went through leave no message or
\* memory out: each was handed over, or was in a chunk cut short by a crash.
THEOREM NothingMissed == Spec => []NoneMissed
  <1>1. IInv => NoneMissed
    <2> SUFFICES ASSUME IInv, pc = "done", NEW i \in Items
                 PROVE  given[i] = 1 \/ i \in cut
      BY DEF NoneMissed
    <2>1. /\ offset \in Nat /\ batch \in Nat /\ done \in Nat
          /\ Size \in Nat \ {0} /\ Count \in Nat
          /\ Place(i) \in Nat /\ Place(i) <= Count
      BY SizeIsPositive, PlaceBounded DEF IInv, LoopTypes
    <2>2. Place(i) <= batch * Size
      BY <2>1 DEF IInv, Position
    <2>3. batch * Size \in Nat /\ done * Size \in Nat
      BY <2>1, ProductInNat
    <2>4. batch * Size < Count => batch + 1 <= Batches
      BY <2>1, RoundedUp DEF Batches
    <2>5. batch * Size >= Count => Batches <= batch
      BY <2>1, RoundedUp DEF Batches
    <2>6. Batches \in Nat
      BY <2>1, RoundedUp DEF Batches
    <2>7. batch = done
      BY <2>1, <2>5, <2>6 DEF IInv, Position
    <2>8. Place(i) <= Behind
      BY <2>2, <2>7 DEF Behind, Working
    <2> QED BY <2>8 DEF IInv, Covered
  <1> QED BY <1>1, Inductive, PTL

\* The number of chunks that is stored in advance is the number that is done in
\* the end, with every rounding.
THEOREM ProgressAddsUp == Spec => []ProgressComplete
  <1>1. IInv => ProgressComplete
    BY DEF IInv, Position, ProgressComplete
  <1> QED BY <1>1, Inductive, PTL

-----------------------------------------------------------------------------
(* Stripping a text                                                        *)

LEMMA LeastNatural ==
  ASSUME NEW S, S \subseteq Nat, S # {}
  PROVE  \E j \in S : \A k \in S : j <= k
  <1>1. IsWellFoundedOn(OpToRel(<, Nat), Nat)
    BY NatLessThanWellFounded
  <1>2. \E j \in S : \A k \in S : ~ (k < j)
    <2>1. PICK j \in S : \A k \in S : ~ (<<k, j>> \in OpToRel(<, Nat))
      BY <1>1, WFMin, Zenon
    <2>2. ASSUME NEW k \in S, k < j PROVE FALSE
      <3>1. <<k, j>> \in OpToRel(<, Nat)
        BY <2>2 DEF OpToRel
      <3> QED BY <2>1, <3>1, Zenon
    <2> QED BY <2>2, Zenon
  <1> QED BY <1>2

LEMMA FirstIsLeast ==
  ASSUME NEW S, S \subseteq Nat, S # {}
  PROVE  First(S) \in S /\ \A k \in S : First(S) <= k
  <1>1. \E j \in S : \A k \in S : j <= k
    BY LeastNatural
  <1> QED BY <1>1, Zenon DEF First

Left(s) == {s[j] : j \in DOMAIN s}
Upwards(s) == \A j, k \in DOMAIN s : j < k => s[j] < s[k]

\* A text without the part from one place to another.
Without(s, a, b) == SubSeq(s, 1, a - 1) \o SubSeq(s, b + 1, Len(s))

LEMMA CutOut ==
  ASSUME NEW s \in Seq(Nat), Upwards(s),
         NEW a \in 1 .. Len(s), NEW b \in a .. Len(s)
  PROVE  /\ Without(s, a, b) \in Seq(Nat) /\ Upwards(Without(s, a, b))
         /\ Left(Without(s, a, b)) =
              {s[j] : j \in {k \in 1 .. Len(s) : k < a \/ k > b}}
  <1> DEFINE front == SubSeq(s, 1, a - 1)
             back == SubSeq(s, b + 1, Len(s))
             r == front \o back
             n == (a - 1) + (Len(s) - b)
             w == b - a + 1
  <1>0. /\ Len(s) \in Nat /\ DOMAIN s = 1 .. Len(s)
        /\ \A j \in 1 .. Len(s) : s[j] \in Nat
        /\ \A j, k \in 1 .. Len(s) : j < k => s[j] < s[k]
    BY DEF Upwards
  <1>b. b \in 1 .. Len(s) /\ a \in 1 .. Len(s) /\ a <= b
    BY <1>0
  <1>c. b < Len(s) \/ b = Len(s)
    <2>1. Len(s) \in Nat
      OBVIOUS
    <2>2. a \in Nat /\ b \in Nat /\ 1 <= a /\ a <= b /\ b <= Len(s)
      BY <2>1
    <2> QED BY <2>1, <2>2
  <1>1. /\ front \in Seq(Nat) /\ Len(front) = a - 1
        /\ \A i \in 1 .. a - 1 : front[i] = s[i]
    <2>1. \A i \in 1 .. a - 1 : s[i] \in Nat
      BY <1>0
    <2> QED BY <1>0, <2>1, SubSeqProperties
  <1>2. /\ back \in Seq(Nat) /\ Len(back) = Len(s) - b
        /\ \A i \in 1 .. Len(s) - b : back[i] = s[b + i]
    <2>1. \A i \in b + 1 .. Len(s) : s[i] \in Nat
      BY <1>0
    <2>2. /\ back \in Seq(Nat)
          /\ Len(back) = IF b + 1 <= Len(s) THEN Len(s) - (b + 1) + 1 ELSE 0
          /\ \A i \in 1 .. Len(s) - (b + 1) + 1 : back[i] = s[b + 1 + i - 1]
      BY <1>0, <1>b, <2>1, SubSeqProperties
    <2> HIDE DEF back
    <2>3. Len(back) = Len(s) - b
      <3>1. CASE b < Len(s)
        <4>1. b + 1 <= Len(s) /\ Len(s) - (b + 1) + 1 = Len(s) - b
          BY <1>0, <1>b, <3>1
        <4> QED BY <2>2, <4>1
      <3>2. CASE b = Len(s)
        <4>1. ~ (b + 1 <= Len(s)) /\ Len(s) - b = 0
          BY <1>0, <1>b, <3>2
        <4> QED BY <2>2, <4>1
      <3> QED BY <1>c, <3>1, <3>2, Zenon
    <2>4. ASSUME NEW i \in 1 .. Len(s) - b PROVE back[i] = s[b + i]
      <3>1. i \in 1 .. Len(s) - (b + 1) + 1 /\ b + 1 + i - 1 = b + i
        BY <1>0, <1>b
      <3> QED BY <2>2, <3>1
    <2> QED BY <2>2, <2>3, <2>4
  <1>3. /\ n \in Nat /\ w \in Nat /\ w > 0 /\ a \in Nat /\ b \in Nat /\ a > 0
        /\ n + w = Len(s) /\ a + w = b + 1 /\ a - 1 + (Len(s) - b) = n
    BY <1>0, <1>b
  <1> HIDE DEF front, back
  <1>4. /\ r \in Seq(Nat) /\ Len(r) = n /\ DOMAIN r = 1 .. n
        /\ \A i \in 1 .. n : r[i] =
              IF i <= a - 1 THEN front[i] ELSE back[i - (a - 1)]
    <2>1. /\ r \in Seq(Nat) /\ Len(r) = Len(front) + Len(back)
          /\ \A i \in 1 .. Len(front) + Len(back) : r[i] =
                IF i <= Len(front) THEN front[i] ELSE back[i - Len(front)]
      BY <1>1, <1>2, ConcatProperties
    <2> HIDE DEF r
    <2> QED BY <1>0, <1>1, <1>2, <2>1
  <1> HIDE DEF r, n, w
  <1>5. ASSUME NEW i \in 1 .. n, i < a PROVE i \in 1 .. Len(s) /\ r[i] = s[i]
    <2>1. i <= a - 1 /\ i \in 1 .. a - 1 /\ i \in 1 .. Len(s)
      BY <1>0, <1>b, <1>3, <1>5
    <2> QED BY <1>1, <1>4, <2>1
  <1>6. ASSUME NEW i \in 1 .. n, i >= a
        PROVE  i + w \in 1 .. Len(s) /\ i + w > b /\ r[i] = s[i + w]
    <2>1. /\ i - (a - 1) \in 1 .. Len(s) - b /\ b + (i - (a - 1)) = i + w
          /\ ~ (i <= a - 1) /\ i + w \in 1 .. Len(s) /\ i + w > b
      BY <1>0, <1>3, <1>6
    <2>2. r[i] = back[i - (a - 1)]
      BY <1>4, <2>1
    <2>3. back[i - (a - 1)] = s[i + w]
      BY <1>2, <2>1
    <2> QED BY <2>1, <2>2, <2>3
  <1>7. ASSUME NEW i \in 1 .. n, NEW k \in 1 .. n, i < k PROVE r[i] < r[k]
    <2>1. CASE i < a /\ k < a
      BY <1>0, <1>5, <1>7, <2>1
    <2>2. CASE i < a /\ k >= a
      <3>1. i \in 1 .. Len(s) /\ k + w \in 1 .. Len(s) /\ i < k + w
        BY <1>3, <1>5, <1>6, <1>7, <2>2
      <3> QED BY <1>0, <1>5, <1>6, <2>2, <3>1
    <2>3. CASE i >= a /\ k >= a
      <3>1. i + w \in 1 .. Len(s) /\ k + w \in 1 .. Len(s) /\ i + w < k + w
        BY <1>3, <1>6, <1>7, <2>3
      <3> QED BY <1>0, <1>6, <2>3, <3>1
    <2> QED BY <1>3, <1>7, <2>1, <2>2, <2>3
  <1>8. ASSUME NEW i \in 1 .. n
        PROVE  \E j \in {k \in 1 .. Len(s) : k < a \/ k > b} : r[i] = s[j]
    <2>1. CASE i < a
      BY <1>5, <2>1
    <2>2. CASE i >= a
      BY <1>6, <2>2
    <2>3. i < a \/ i >= a
      BY <1>3
    <2> QED BY <2>1, <2>2, <2>3
  <1>9. ASSUME NEW j \in {k \in 1 .. Len(s) : k < a \/ k > b}
        PROVE  \E i \in 1 .. n : r[i] = s[j]
    <2>1. CASE j < a
      <3>1. j \in 1 .. n
        BY <1>0, <1>3, <2>1
      <3> QED BY <1>5, <2>1, <3>1
    <2>2. CASE j > b
      <3>1. j - w \in 1 .. n /\ j - w >= a /\ (j - w) + w = j
        BY <1>0, <1>3, <2>2
      <3>2. r[j - w] = s[(j - w) + w]
        BY <1>6, <3>1
      <3> QED BY <3>1, <3>2
    <2> QED BY <2>1, <2>2
  <1>10. Without(s, a, b) = r
    BY Zenon DEF Without, r, front, back
  <1>11. Left(r) = {s[j] : j \in {k \in 1 .. Len(s) : k < a \/ k > b}}
    <2>1. Left(r) = {r[i] : i \in 1 .. n}
      BY <1>4 DEF Left
    <2>2. ASSUME NEW x \in Left(r)
          PROVE  x \in {s[j] : j \in {k \in 1 .. Len(s) : k < a \/ k > b}}
      <3>1. PICK i \in 1 .. n : r[i] = x
        BY <2>1
      <3> QED BY <1>8, <3>1
    <2>3. ASSUME NEW x \in {s[j] : j \in {k \in 1 .. Len(s) : k < a \/ k > b}}
          PROVE  x \in Left(r)
      <3>1. PICK j \in {k \in 1 .. Len(s) : k < a \/ k > b} : x = s[j]
        OBVIOUS
      <3>2. \E i \in 1 .. n : r[i] = s[j]
        BY <1>9
      <3> QED BY <2>1, <3>1, <3>2
    <2> QED BY <2>2, <2>3
  <1>12. Upwards(r)
    BY <1>4, <1>7 DEF Upwards
  <1> QED BY <1>4, <1>10, <1>11, <1>12, Zenon

\* A text up to one place.
LEMMA CutOff ==
  ASSUME NEW s \in Seq(Nat), Upwards(s), NEW a \in 1 .. Len(s)
  PROVE  /\ SubSeq(s, 1, a - 1) \in Seq(Nat) /\ Upwards(SubSeq(s, 1, a - 1))
         /\ Left(SubSeq(s, 1, a - 1)) =
              {s[j] : j \in {k \in 1 .. Len(s) : k < a}}
  <1> DEFINE r == SubSeq(s, 1, a - 1)
  <1>0. /\ Len(s) \in Nat /\ DOMAIN s = 1 .. Len(s)
        /\ \A j \in 1 .. Len(s) : s[j] \in Nat
    OBVIOUS
  <1>1. /\ r \in Seq(Nat) /\ Len(r) = a - 1
        /\ \A i \in 1 .. a - 1 : r[i] = s[i]
    <2>1. \A i \in 1 .. a - 1 : s[i] \in Nat
      BY <1>0
    <2> QED BY <1>0, <2>1, SubSeqProperties
  <1> HIDE DEF r
  <1>2. DOMAIN r = 1 .. a - 1
    BY <1>1
  <1>3. {k \in 1 .. Len(s) : k < a} = 1 .. a - 1
    BY <1>0
  <1>4. Upwards(r)
    BY <1>0, <1>1, <1>2 DEF Upwards
  <1>5. Left(r) = {s[j] : j \in {k \in 1 .. Len(s) : k < a}}
    BY <1>1, <1>2, <1>3 DEF Left
  <1> QED BY <1>1, <1>4, <1>5 DEF r

IsText(t) == t \in Seq({Open, Close, Word})

\* The text s of t after some passes: clean up to place c, where no tag is
\* open, and whole behind it.
CleanTo(s, t, c) ==
    /\ s \in Seq(Nat) /\ Upwards(s)
    /\ c \in 0 .. Len(t)
    /\ Left(s) = {j \in 1 .. Len(t) : j > c \/ j \notin Injected(t)}
    /\ \/ c = Len(t)
       \/ \A o \in 1 .. c : t[o] = Open => \E k \in o .. c : t[k] = Close

LEMMA MarksDiffer == Open # Close /\ Close # Word /\ Open # Word
  BY ConstantsAssumption

LEMMA InjectedIs ==
  ASSUME NEW t, IsText(t)
  PROVE  /\ DOMAIN t = 1 .. Len(t) /\ Len(t) \in Nat
         /\ \A j \in 1 .. Len(t) :
              j \in Injected(t) <=> \E o \in 1 .. j :
                 t[o] = Open /\ \A k \in o .. j - 1 : t[k] # Close
  <1>1. DOMAIN t = 1 .. Len(t) /\ Len(t) \in Nat
    BY DEF IsText
  <1> QED BY <1>1 DEF Injected

\* No tag that was opened before c reaches behind it.
LEMMA NotReached ==
  ASSUME NEW t, IsText(t), NEW c \in 0 .. Len(t), NEW j \in 1 .. Len(t), j > c,
         \A o \in 1 .. c : t[o] = Open => \E k \in o .. c : t[k] = Close,
         NEW o \in 1 .. j, t[o] = Open, \A k \in o .. j - 1 : t[k] # Close
  PROVE  o > c
  <1>1. Len(t) \in Nat
    BY InjectedIs
  <1>2. ASSUME o <= c PROVE FALSE
    <2>1. o \in 1 .. c
      BY <1>1, <1>2
    <2>2. PICK k \in o .. c : t[k] = Close
      BY <2>1
    <2>3. k \in o .. j - 1
      BY <1>1, <2>1
    <2> QED BY <2>2, <2>3
  <1> QED BY <1>1, <1>2

\* The text of a message when its stripping begins, and when it is over.
LEMMA CleanFromWhole ==
  ASSUME NEW t, IsText(t), NEW s, s = [j \in DOMAIN t |-> j]
  PROVE  CleanTo(s, t, 0)
  <1>1. DOMAIN t = 1 .. Len(t) /\ Len(t) \in Nat
    BY InjectedIs
  <1>2. /\ s \in Seq(Nat) /\ DOMAIN s = 1 .. Len(t)
        /\ \A j \in 1 .. Len(t) : s[j] = j
    BY <1>1
  <1>3. Upwards(s)
    BY <1>2 DEF Upwards
  <1>4. Left(s) = {j \in 1 .. Len(t) : j > 0 \/ j \notin Injected(t)}
    BY <1>1, <1>2 DEF Left
  <1>5. 0 \in 0 .. Len(t) /\ \A o \in 1 .. 0 : FALSE
    BY <1>1
  <1> QED BY <1>2, <1>3, <1>4, <1>5 DEF CleanTo

LEMMA LeftIs ==
  ASSUME NEW t, IsText(t), NEW s, NEW c, CleanTo(s, t, c)
  PROVE  /\ s \in Seq(Nat) /\ Len(s) \in Nat /\ DOMAIN s = 1 .. Len(s)
         /\ Len(t) \in Nat /\ c \in 0 .. Len(t)
         /\ \A i \in 1 .. Len(s) : s[i] \in 1 .. Len(t)
                                     /\ (s[i] > c \/ s[i] \notin Injected(t))
         /\ \A j \in 1 .. Len(t) : j > c \/ j \notin Injected(t) =>
               \E i \in 1 .. Len(s) : s[i] = j
         /\ \A i, k \in 1 .. Len(s) : i < k => s[i] < s[k]
         /\ \A i, k \in 1 .. Len(s) : s[i] < s[k] => i < k
  <1>1. /\ s \in Seq(Nat) /\ Len(s) \in Nat /\ DOMAIN s = 1 .. Len(s)
        /\ Len(t) \in Nat /\ c \in 0 .. Len(t)
    BY InjectedIs DEF CleanTo
  <1>2. {s[i] : i \in 1 .. Len(s)} =
          {j \in 1 .. Len(t) : j > c \/ j \notin Injected(t)}
    BY <1>1 DEF CleanTo, Left
  <1>3. /\ \A i \in 1 .. Len(s) : s[i] \in 1 .. Len(t)
                                     /\ (s[i] > c \/ s[i] \notin Injected(t))
        /\ \A j \in 1 .. Len(t) : j > c \/ j \notin Injected(t) =>
               \E i \in 1 .. Len(s) : s[i] = j
    BY <1>2
  <1>4. \A i, k \in 1 .. Len(s) : i < k => s[i] < s[k]
    BY <1>1 DEF CleanTo, Upwards
  <1>5. ASSUME NEW i \in 1 .. Len(s), NEW k \in 1 .. Len(s), s[i] < s[k]
        PROVE  i < k
    <2>1. s[i] \in Nat /\ s[k] \in Nat
      BY <1>1
    <2>2. ~ (k < i) /\ k # i
      BY <1>4, <1>5, <2>1
    <2> QED BY <1>1, <2>2
  <1> QED BY <1>1, <1>3, <1>4, <1>5

LEMMA LessDiffers ==
  ASSUME NEW x \in Nat, NEW y \in Nat, x < y
  PROVE  x # y
  OBVIOUS

LEMMA CleanAtEnd ==
  ASSUME NEW t, IsText(t), NEW s, NEW c, CleanTo(s, t, c),
         \A j \in DOMAIN s : t[s[j]] # Open
  PROVE  Left(s) = DOMAIN t \ Injected(t)
  <1>1. DOMAIN t = 1 .. Len(t) /\ Len(t) \in Nat
    BY InjectedIs
  <1>2. \A j \in Left(s) : t[j] # Open
    BY DEF Left
  <1>4. /\ c \in 0 .. Len(t)
        /\ c < Len(t) =>
             \A x \in 1 .. c : t[x] = Open => \E k \in x .. c : t[k] = Close
    <2>0. c \in 0 .. Len(t)
      BY LeftIs
    <2>1. c \in 0 .. Len(t) /\ c \in Nat
      BY <1>1, <2>0
    <2>2. c < Len(t) => c # Len(t)
      BY <1>1, <2>1, LessDiffers, Zenon
    <2>3. \/ c = Len(t)
          \/ \A x \in 1 .. c : t[x] = Open => \E k \in x .. c : t[k] = Close
      BY DEF CleanTo
    <2> QED BY <2>1, <2>2, <2>3, Zenon
  <1>3. ASSUME NEW j \in 1 .. Len(t), j > c PROVE j \notin Injected(t)
    <2>1. SUFFICES ASSUME NEW o \in 1 .. j, t[o] = Open,
                          \A k \in o .. j - 1 : t[k] # Close
                   PROVE  FALSE
      BY InjectedIs
    <2>2. c \in 0 .. Len(t)
            /\ \A x \in 1 .. c : t[x] = Open => \E k \in x .. c : t[k] = Close
      BY <1>1, <1>3, <1>4
    <2>3. o > c
      BY <1>3, <2>1, <2>2, NotReached
    <2>4. o \in 1 .. Len(t)
      BY <1>1
    <2> QED BY <1>2, <2>1, <2>3, <2>4 DEF CleanTo
  <1> QED BY <1>1, <1>3 DEF CleanTo
\* Up to the first opening tag that is left, nothing is injected that is left.
LEMMA BeforeFirst ==
  ASSUME NEW t, IsText(t), NEW s, NEW c, CleanTo(s, t, c),
         NEW a \in 1 .. Len(s), t[s[a]] = Open,
         \A i \in 1 .. a - 1 : t[s[i]] # Open
  PROVE  /\ s[a] \in 1 .. Len(t) /\ c < s[a]
         /\ \A o \in 1 .. c : t[o] = Open => \E k \in o .. c : t[k] = Close
         /\ \A j \in 1 .. Len(t) : j > c /\ t[j] = Open => j >= s[a]
         /\ \A j \in 1 .. Len(t) : j > c /\ j < s[a] => j \notin Injected(t)
  <1>1. /\ Len(s) \in Nat /\ Len(t) \in Nat /\ c \in 0 .. Len(t)
        /\ s[a] \in 1 .. Len(t) /\ (s[a] > c \/ s[a] \notin Injected(t))
    BY LeftIs
  <1>2. s[a] \in Injected(t)
    <2>1. s[a] \in 1 .. s[a] /\ \A k \in s[a] .. s[a] - 1 : FALSE
      BY <1>1
    <2> QED BY <1>1, <2>1, InjectedIs
  <1>3. c < s[a] /\ c # Len(t)
    BY <1>1, <1>2
  <1>4. \A o \in 1 .. c : t[o] = Open => \E k \in o .. c : t[k] = Close
    BY <1>3 DEF CleanTo
  <1>5. ASSUME NEW j \in 1 .. Len(t), j > c, t[j] = Open, j < s[a] PROVE FALSE
    <2>1. PICK i \in 1 .. Len(s) : s[i] = j
      BY <1>5, LeftIs
    <2>2. i < a
      BY <1>5, <2>1, LeftIs
    <2>3. i \in 1 .. a - 1
      BY <1>1, <2>2
    <2> QED BY <1>5, <2>1, <2>3
  <1>6. ASSUME NEW j \in 1 .. Len(t), j > c, j < s[a] PROVE j \notin Injected(t)
    <2>1. SUFFICES ASSUME NEW o \in 1 .. j, t[o] = Open,
                          \A k \in o .. j - 1 : t[k] # Close
                   PROVE  FALSE
      BY InjectedIs
    <2>2. o > c
      BY <1>1, <1>4, <1>6, <2>1, NotReached
    <2>3. o \in 1 .. Len(t) /\ o < s[a]
      BY <1>1, <1>6
    <2> QED BY <1>5, <2>1, <2>2, <2>3
  <1>7. \A j \in 1 .. Len(t) : j > c /\ t[j] = Open => j >= s[a]
    BY <1>1, <1>5
  <1> QED BY <1>1, <1>3, <1>4, <1>6, <1>7

\* Without a closing tag the pass is the last.
LEMMA CutTail ==
  ASSUME NEW t, IsText(t), NEW s, NEW c, CleanTo(s, t, c),
         NEW a \in 1 .. Len(s), t[s[a]] = Open,
         \A i \in 1 .. a - 1 : t[s[i]] # Open,
         \A i \in 1 .. Len(s) : t[s[i]] # Close
  PROVE  CleanTo(SubSeq(s, 1, a - 1), t, Len(t))
  <1> DEFINE r == SubSeq(s, 1, a - 1)  o == s[a]
  <1>1. /\ Len(s) \in Nat /\ Len(t) \in Nat /\ c \in 0 .. Len(t)
        /\ o \in 1 .. Len(t) /\ c < o
    BY LeftIs, BeforeFirst
  <1>2. /\ r \in Seq(Nat) /\ Upwards(r)
        /\ Left(r) = {s[i] : i \in {k \in 1 .. Len(s) : k < a}}
    <2>1. s \in Seq(Nat) /\ Upwards(s)
      BY DEF CleanTo
    <2> QED BY <2>1, CutOff
  <1>3. ASSUME NEW j \in 1 .. Len(t), j >= o PROVE j \in Injected(t)
    <2>1. \A k \in o .. j - 1 : t[k] # Close
      <3>1. SUFFICES ASSUME NEW k \in o .. j - 1 PROVE t[k] # Close
        OBVIOUS
      <3>2. k \in 1 .. Len(t) /\ k > c
        BY <1>1
      <3>3. PICK i \in 1 .. Len(s) : s[i] = k
        BY <3>2, LeftIs
      <3> QED BY <3>3
    <2>2. o \in 1 .. j
      BY <1>1, <1>3
    <2> QED BY <2>1, <2>2, InjectedIs
  <1>4. ASSUME NEW x \in Left(r) PROVE x \in 1 .. Len(t) /\ x \notin Injected(t)
    <2>1. PICK i \in 1 .. Len(s) : i < a /\ s[i] = x
      BY <1>2
    <2>2. x \in 1 .. Len(t) /\ x < o /\ (x > c \/ x \notin Injected(t))
      BY <2>1, LeftIs
    <2> QED BY <2>2, BeforeFirst
  <1>5. ASSUME NEW x \in 1 .. Len(t), x \notin Injected(t) PROVE x \in Left(r)
    <2>1. PICK i \in 1 .. Len(s) : s[i] = x
      BY <1>5, LeftIs
    <2>2. x < o
      BY <1>1, <1>3, <1>5
    <2>3. i < a
      BY <2>1, <2>2, LeftIs
    <2> QED BY <1>2, <2>1, <2>3
  <1>6. \A x \in 1 .. Len(t) : ~ (x > Len(t))
    BY <1>1
  <1>7. Left(r) = {j \in 1 .. Len(t) : j > Len(t) \/ j \notin Injected(t)}
    BY <1>4, <1>5, <1>6
  <1>8. Len(t) \in 0 .. Len(t)
    BY <1>1
  <1> QED BY <1>2, <1>7, <1>8 DEF CleanTo

\* With one, and tags that alternate, it is the pair's.
LEMMA CutPair ==
  ASSUME NEW t, IsText(t), Alternates(t), NEW s, NEW c, CleanTo(s, t, c),
         NEW a \in 1 .. Len(s), t[s[a]] = Open,
         \A i \in 1 .. a - 1 : t[s[i]] # Open,
         NEW b \in 1 .. Len(s), t[s[b]] = Close,
         \A i \in 1 .. b - 1 : t[s[i]] # Close
  PROVE  b \in a .. Len(s) /\ CleanTo(Without(s, a, b), t, s[b])
  <1> DEFINE r == Without(s, a, b)  o == s[a]  e == s[b]
  <1>1. /\ Len(s) \in Nat /\ Len(t) \in Nat /\ c \in 0 .. Len(t)
        /\ o \in 1 .. Len(t) /\ c < o
        /\ e \in 1 .. Len(t) /\ (e > c \/ e \notin Injected(t))
    BY LeftIs, BeforeFirst
  <1>2. PICK p \in 1 .. e - 1 : t[p] = Open /\ \A k \in p + 1 .. e - 1 : t[k] = Word
    BY <1>1, InjectedIs DEF Alternates
  <1>3. e \in Injected(t) /\ p \in 1 .. Len(t)
    <2>1. p \in 1 .. e /\ p \in 1 .. Len(t)
      BY <1>1
    <2>2. \A k \in p .. e - 1 : k = p \/ k \in p + 1 .. e - 1
      BY <1>1, <2>1
    <2>3. \A k \in p .. e - 1 : t[k] # Close
      BY <1>2, <2>2, MarksDiffer
    <2> QED BY <1>1, <1>2, <2>1, <2>3, InjectedIs
  <1>4. e > c
    BY <1>1, <1>3
  <1>5. p > c
    <2>1. ASSUME p <= c PROVE FALSE
      <3>1. p \in 1 .. c
        BY <1>1, <2>1
      <3>2. PICK k \in p .. c : t[k] = Close
        BY <1>2, <3>1, BeforeFirst
      <3>3. k = p \/ k \in p + 1 .. e - 1
        BY <1>1, <1>4, <3>1
      <3> QED BY <1>2, <3>2, <3>3, MarksDiffer
    <2> QED BY <1>1, <2>1
  <1>6. o <= p /\ o < e
    <2>1. o <= p
      BY <1>2, <1>3, <1>5, BeforeFirst
    <2> QED BY <1>1, <2>1
  <1>7. b \in a .. Len(s) /\ a < b
    <2>1. a < b
      BY <1>6, LeftIs
    <2> QED BY <1>1, <2>1
  <1>8. /\ r \in Seq(Nat) /\ Upwards(r)
        /\ Left(r) = {s[i] : i \in {k \in 1 .. Len(s) : k < a \/ k > b}}
    <2>1. s \in Seq(Nat) /\ Upwards(s)
      BY DEF CleanTo
    <2> QED BY <1>7, <2>1, CutOut
  <1>9. ASSUME NEW j \in 1 .. Len(t), j >= o, j <= e PROVE j \in Injected(t)
    <2>1. \A k \in o .. j - 1 : t[k] # Close
      <3>1. SUFFICES ASSUME NEW k \in o .. j - 1 PROVE t[k] # Close
        OBVIOUS
      <3>2. k \in 1 .. Len(t) /\ k > c /\ k < e
        BY <1>1, <1>9
      <3>3. PICK i \in 1 .. Len(s) : s[i] = k
        BY <3>2, LeftIs
      <3>4. i < b
        BY <3>2, <3>3, LeftIs
      <3>5. i \in 1 .. b - 1
        BY <1>1, <3>4
      <3> QED BY <3>3, <3>5
    <2>2. o \in 1 .. j
      BY <1>1, <1>9
    <2> QED BY <2>1, <2>2, InjectedIs
  <1>10. ASSUME NEW x \in Left(r)
         PROVE  x \in 1 .. Len(t) /\ (x > e \/ x \notin Injected(t))
    <2>1. PICK i \in 1 .. Len(s) : (i < a \/ i > b) /\ s[i] = x
      BY <1>8
    <2>2. x \in 1 .. Len(t) /\ (x < o \/ x > e) /\ (x > c \/ x \notin Injected(t))
      BY <2>1, LeftIs
    <2> QED BY <2>2, BeforeFirst
  <1>11. ASSUME NEW x \in 1 .. Len(t), x > e \/ x \notin Injected(t)
         PROVE  x \in Left(r)
    <2>1. x < o \/ x > e
      <3>1. o \in Int /\ e \in Int /\ x \in Int
        BY <1>1
      <3>2. x >= o /\ x <= e => x \in Injected(t) /\ ~(x > e)
        BY <1>9, <3>1
      <3> HIDE DEF o, e
      <3> QED BY <3>1, <3>2, <1>11
    <2>2. x > c \/ x \notin Injected(t)
      BY <1>1, <1>4, <1>11
    <2>3. PICK i \in 1 .. Len(s) : s[i] = x
      BY <2>2, LeftIs
    <2>4. i < a \/ i > b
      BY <2>1, <2>3, LeftIs
    <2> QED BY <1>8, <2>3, <2>4
  <1>12. Left(r) = {j \in 1 .. Len(t) : j > e \/ j \notin Injected(t)}
    BY <1>10, <1>11
  <1>13. \A x \in 1 .. e : t[x] = Open => \E k \in x .. e : t[k] = Close
    BY <1>1
  <1>14. e \in 0 .. Len(t)
    BY <1>1
  <1> HIDE DEF r, o, e
  <1>15. CleanTo(r, t, e)
    BY <1>8, <1>12, <1>13, <1>14 DEF CleanTo
  <1> QED BY <1>7, <1>15 DEF r, e

-----------------------------------------------------------------------------
(* The stripping of the messages of a chunk                                *)

\* One pass of stripMemoryTags cuts out the first pair of tags that is left,
\* or all from the first opening tag on.
LEMMA PassCleans ==
  ASSUME NEW t, t = Marks(item), IsText(t), Alternates(t), NEW c,
         CleanTo(text, t, c), Opens # {}
  PROVE  \E d : CleanTo(Stripped, t, d)
  <1> DEFINE a == First(Opens)  b == First(Closes)
  <1>1. Len(text) \in Nat /\ DOMAIN text = 1 .. Len(text)
    BY LeftIs
  <1>2. /\ Opens = {j \in 1 .. Len(text) : t[text[j]] = Open}
        /\ Closes = {j \in 1 .. Len(text) : t[text[j]] = Close}
    BY <1>1 DEF Opens, Closes, MarkAt
  <1>3. Opens \subseteq Nat /\ Closes \subseteq Nat
    BY <1>1, <1>2
  <1>4. a \in Opens /\ \A j \in Opens : a <= j
    BY <1>3, FirstIsLeast
  <1> HIDE DEF a
  <1>5. /\ a \in 1 .. Len(text) /\ t[text[a]] = Open
        /\ \A i \in 1 .. a - 1 : t[text[i]] # Open
    <2>1. a \in 1 .. Len(text) /\ t[text[a]] = Open
      BY <1>2, <1>4
    <2>2. ASSUME NEW i \in 1 .. a - 1, t[text[i]] = Open PROVE FALSE
      <3>1. i \in 1 .. Len(text) /\ ~ (a <= i)
        BY <1>1, <2>1
      <3>2. i \in Opens
        BY <1>2, <2>2, <3>1
      <3> QED BY <1>4, <3>1, <3>2
    <2> QED BY <2>1, <2>2
  <1>6. CASE Closes = {}
    <2>1. \A i \in 1 .. Len(text) : t[text[i]] # Close
      BY <1>2, <1>6
    <2>2. CleanTo(SubSeq(text, 1, a - 1), t, Len(t))
      BY <1>5, <2>1, CutTail
    <2>3. Stripped = SubSeq(text, 1, a - 1)
      BY <1>6, Zenon DEF Stripped, a
    <2> QED BY <2>2, <2>3, Zenon
  <1>7. CASE Closes # {}
    <2>1. b \in Closes /\ \A j \in Closes : b <= j
      BY <1>3, <1>7, FirstIsLeast
    <2> HIDE DEF b
    <2>2. /\ b \in 1 .. Len(text) /\ t[text[b]] = Close
          /\ \A i \in 1 .. b - 1 : t[text[i]] # Close
      <3>1. b \in 1 .. Len(text) /\ t[text[b]] = Close
        BY <1>2, <2>1
      <3>2. ASSUME NEW i \in 1 .. b - 1, t[text[i]] = Close PROVE FALSE
        <4>1. i \in 1 .. Len(text) /\ ~ (b <= i)
          BY <1>1, <3>1
        <4>2. i \in Closes
          BY <1>2, <3>2, <4>1
        <4> QED BY <2>1, <4>1, <4>2
      <3> QED BY <3>1, <3>2
    <2>3. CleanTo(Without(text, a, b), t, text[b])
      BY <1>5, <2>2, CutPair
    <2>4. Stripped = Without(text, a, b)
      BY <1>7, Zenon DEF Stripped, Without, a, b
    <2> QED BY <2>3, <2>4, Zenon
  <1> QED BY <1>6, <1>7

\* A text without an opening tag is what is to be stored.
LEMMA CleanText ==
  ASSUME NEW t, t = Marks(item), IsText(t), NEW c, CleanTo(text, t, c),
         Opens = {}
  PROVE  Left(text) = DOMAIN t \ Injected(t) /\ Upwards(text)
  <1>1. \A j \in DOMAIN text : t[text[j]] # Open
    BY DEF Opens, MarkAt
  <1>2. Upwards(text)
    BY DEF CleanTo
  <1> QED BY <1>1, <1>2, CleanAtEnd

LEMMA PlacesDiffer ==
  ASSUME file \in Files
  PROVE  /\ \A i \in Items : Place(i) \in 1 .. Count
         /\ \A i, k \in Items : Place(i) = Place(k) => i = k
  <1>1. /\ Items \subseteq 1 .. MaxLines /\ MaxLines \in Nat
        /\ IsFiniteSet(Items) /\ Count \in Nat
        /\ \A i \in Items : Place(i) \in Nat /\ Place(i) <= Count
    BY ItemsAreLines, PlaceBounded, ConstantsAssumption
  <1> DEFINE Upto1(i) == {k \in Items : k <= i}
  <1>2. \A i \in Items : i \in Nat
    BY <1>1
  <1>3. ASSUME NEW i \in Items PROVE IsFiniteSet(Upto1(i)) /\ i \in Upto1(i)
    BY <1>1, <1>2, FS_Subset
  <1>4. ASSUME NEW i \in Items PROVE Place(i) # 0
    <2>1. Upto1(i) # {}
      BY <1>3
    <2> QED BY <1>3, <2>1, FS_EmptySet DEF Place
  <1>5. ASSUME NEW i \in Items, NEW k \in Items, i < k
        PROVE  Place(i) # Place(k)
    <2>1. Upto1(i) \in SUBSET Upto1(k) /\ k \notin Upto1(i)
      BY <1>2, <1>5
    <2>2. Upto1(i) # Upto1(k)
      BY <1>3, <2>1
    <2>3. Cardinality(Upto1(i)) # Cardinality(Upto1(k))
      BY <1>3, <2>1, <2>2, FS_Subset
    <2> QED BY <2>3 DEF Place
  <1>6. \A i, k \in Items : Place(i) = Place(k) => ~ (i < k) /\ ~ (k < i)
    BY <1>5
  <1>7. \A i, k \in Items : i < k \/ k < i \/ i = k
    BY <1>2
  <1> QED BY <1>1, <1>4, <1>6, <1>7

\* As long as the loop's condition holds there is an item at the offset.
LEMMA ChunkNotEmpty ==
  ASSUME file \in Files, offset \in Nat, offset < Count
  PROVE  Chunk # {}
  <1> DEFINE place == [i \in Items |-> Place(i)]
  <1>1. /\ IsFiniteSet(Items) /\ Count \in Nat
        /\ Size \in Nat \ {0}
    BY PlaceBounded, SizeIsPositive
  <1>2. place \in Injection(Items, 1 .. Count)
    <2>1. place \in [Items -> 1 .. Count]
      BY PlacesDiffer
    <2>2. \A i, k \in Items : place[i] = place[k] => i = k
      BY PlacesDiffer
    <2> QED BY <2>1, <2>2 DEF Injection, IsInjective
  <1>3. IsFiniteSet(1 .. Count) /\ Cardinality(1 .. Count) = Count
    BY <1>1, FS_Interval
  <1>4. Cardinality(Items) = Cardinality(1 .. Count)
    BY <1>3 DEF Count
  <1>5. place \in Surjection(Items, 1 .. Count)
    BY <1>2, <1>3, <1>4, FS_Injection
  <1>6. offset + 1 \in 1 .. Count
    BY <1>1
  <1>7. PICK i \in Items : place[i] = offset + 1
    BY <1>5, <1>6 DEF Surjection
  <1>8. Place(i) = offset + 1
    BY <1>7
  <1>9. i \in Chunk
    BY <1>1, <1>8, ChunkIs
  <1> QED BY <1>9

\* A message that was stripped is its text without the injected context.
IsClean(i) ==
    Alternates(Marks(i)) =>
       Left(kept[i]) = DOMAIN Marks(i) \ Injected(Marks(i)) /\ Upwards(kept[i])

\* The messages of the chunk are stripped in order, the present one in part.
Stripping ==
    /\ file.type = "session"
    /\ item \in Chunk
    /\ \A i \in Chunk : i < item => IsClean(i)
    /\ Alternates(Marks(item)) => \E c : CleanTo(text, Marks(item), c)

Cleaned ==
    /\ DOMAIN kept = 1 .. MaxLines
    /\ pc = "strip" => Stripping
    /\ file.type = "session" =>
         /\ \A i \in Items : given[i] > 0 => IsClean(i)
         /\ pc = "store" => \A i \in Chunk : IsClean(i)

LEMMA TextsOfLines ==
  ASSUME file \in Files, NEW i \in DOMAIN file.lines
  PROVE  IsText(Marks(i))
  <1>1. file.lines \in Seq(Line)
    BY ConstantsAssumption DEF IsFile
  <1>2. file.lines[i] \in Line
    BY <1>1
  <1>3. file.lines[i].text \in Texts
    BY <1>2 DEF Line
  <1> QED BY <1>3, ConstantsAssumption DEF IsText, Marks

LEMMA SameChunk ==
  ASSUME file' = file, offset' = offset
  PROVE  Chunk' = Chunk
  BY DEF Chunk, Upto, Items, Place, Size, Count

LEMMA SameText ==
  ASSUME file' = file
  PROVE  /\ \A i : Marks(i)' = Marks(i)
         /\ \A i : kept'[i] = kept[i] => (IsClean(i)' <=> IsClean(i))
  <1>1. \A i : Marks(i)' = Marks(i)
    BY DEF Marks
  <1> QED BY <1>1 DEF IsClean

\* Nothing is changed of the texts outside Checkpoint, Pass, Clean and Store.
LEMMA CleanedKept ==
  ASSUME Cleaned, file' = file, UNCHANGED <<kept, given>>,
         pc' \notin {"strip", "store"}
            \/ UNCHANGED <<pc, offset, item, text>>
  PROVE  Cleaned'
  <1>1. \A i : IsClean(i)' <=> IsClean(i)
    BY SameText
  <1>2. Items' = Items
    BY Rigid
  <1>3. CASE pc' \notin {"strip", "store"}
    BY <1>1, <1>2, <1>3 DEF Cleaned
  <1>4. CASE UNCHANGED <<pc, offset, item, text>>
    <2>1. Chunk' = Chunk
      BY <1>4, SameChunk
    <2>2. \A i : Marks(i)' = Marks(i)
      BY SameText
    <2>3. Stripping => Stripping'
      BY <1>1, <1>4, <2>1, <2>2 DEF Stripping
    <2> QED BY <1>1, <1>2, <1>4, <2>1, <2>3 DEF Cleaned
  <1> QED BY <1>3, <1>4

\* Every pass leaves the present text clean a little further, and every message
\* of the chunk is done before it is handed over.
LEMMA StepCleaned == IInv /\ Cleaned /\ [Next]_vars => Cleaned'
  <1> SUFFICES ASSUME IInv, Cleaned, [Next]_vars PROVE Cleaned'
    OBVIOUS
  <1>1. /\ file' = file /\ file \in Files /\ offset \in Nat
        /\ Size \in Nat \ {0} /\ Count \in Nat
    BY SizeIsPositive, PlaceBounded
       DEF IInv, LoopTypes, Next, vars, Parse, Finish, Skip, Checkpoint, Pass,
           Clean, Store, Fail, Crash
  <1>2. /\ Items' = Items
        /\ \A i : Marks(i)' = Marks(i)
        /\ \A i : kept'[i] = kept[i] => (IsClean(i)' <=> IsClean(i))
    BY <1>1, Rigid, SameText
  <1>3. /\ Chunk \subseteq Items /\ Items \subseteq 1 .. MaxLines
        /\ Items \subseteq DOMAIN file.lines /\ MaxLines \in Nat
        /\ Chunk \subseteq Nat
    <2>1. Chunk \subseteq Items /\ Items \subseteq DOMAIN file.lines
      BY DEF Chunk, Items
    <2>2. Items \subseteq 1 .. MaxLines /\ MaxLines \in Nat
      BY <1>1, ItemsAreLines, ConstantsAssumption
    <2> QED BY <2>1, <2>2
  <1>4. \A i \in Chunk : IsText(Marks(i))
    BY <1>1, <1>3, TextsOfLines
  <1>5. CASE Parse \/ Finish \/ Skip \/ Fail \/ Crash
    <2>1. /\ UNCHANGED <<kept, given>>
          /\ pc' \notin {"strip", "store"}
      BY <1>5 DEF Parse, Finish, Skip, Fail, Crash
    <2> QED BY <1>1, <2>1, CleanedKept
  <1>6. CASE Checkpoint
    <2>1. /\ ~End /\ UNCHANGED <<offset, given>>
          /\ file.type = "session" =>
               /\ pc' = "strip" /\ item' = First(Chunk)
               /\ text' = Whole(First(Chunk)) /\ kept' = kept
          /\ file.type # "session" =>
               /\ pc' = "store" /\ DOMAIN kept' = 1 .. MaxLines
      BY <1>6 DEF Checkpoint
    <2>2. Chunk' = Chunk
      BY <1>1, <2>1, SameChunk
    <2>3. CASE file.type = "session"
      <3>1. Chunk # {}
        BY <1>1, <2>1, ChunkNotEmpty DEF End
      <3>2. First(Chunk) \in Chunk /\ \A k \in Chunk : First(Chunk) <= k
        BY <1>3, <3>1, FirstIsLeast
      <3>3. item' \in Chunk /\ \A k \in Chunk : ~ (k < item')
        <4>1. item' \in Chunk /\ \A k \in Chunk : item' <= k
          BY <2>1, <2>3, <3>2, Zenon
        <4>2. \A k \in Chunk : k \in Nat
          BY <1>3
        <4> QED BY <4>1, <4>2
      <3>4. CleanTo(text', Marks(item'), 0)
        <4>1. text' = [j \in DOMAIN Marks(item') |-> j]
          BY <2>1, <2>3 DEF Whole
        <4> QED BY <1>4, <3>3, <4>1, CleanFromWhole
      <3>5. Marks(item)' = Marks(item')
        BY <1>1 DEF Marks
      <3>6. Stripping'
        BY <1>1, <2>2, <2>3, <3>3, <3>4, <3>5 DEF Stripping
      <3> QED BY <1>1, <1>2, <2>1, <2>3, <3>6 DEF Cleaned
    <2>4. CASE file.type # "session"
      BY <1>1, <2>1, <2>4 DEF Cleaned
    <2> QED BY <2>3, <2>4
  <1>7. CASE Pass
    <2>1. /\ pc = "strip" /\ Opens # {} /\ text' = Stripped
          /\ UNCHANGED <<pc, offset, item, kept, given>>
      BY <1>7 DEF Pass
    <2>2. Stripping
      BY <2>1 DEF Cleaned
    <2>3. Chunk' = Chunk
      BY <1>1, <2>1, SameChunk
    <2>4. ASSUME Alternates(Marks(item))
          PROVE  \E c : CleanTo(text', Marks(item), c)
      <3>1. PICK c : CleanTo(text, Marks(item), c)
        BY <2>2, <2>4 DEF Stripping
      <3>2. IsText(Marks(item))
        BY <1>4, <2>2 DEF Stripping
      <3> QED BY <2>1, <2>4, <3>1, <3>2, PassCleans
    <2>5. Marks(item)' = Marks(item)
      BY <1>1, <2>1 DEF Marks
    <2>6. Stripping'
      BY <1>1, <1>2, <2>1, <2>2, <2>3, <2>4, <2>5 DEF Stripping
    <2> QED BY <1>1, <1>2, <2>1, <2>3, <2>6 DEF Cleaned
  <1>8. CASE Clean
    <2>1. /\ pc = "strip" /\ Opens = {}
          /\ kept' = [kept EXCEPT ![item] = text]
          /\ UNCHANGED <<offset, given>>
          /\ Later # {} => /\ item' = First(Later) /\ pc' = "strip"
                           /\ text' = Whole(First(Later))
          /\ Later = {} => pc' = "store"
      BY <1>8 DEF Clean
    <2>2. Stripping
      BY <2>1 DEF Cleaned
    <2>3. Chunk' = Chunk /\ item \in Chunk
      BY <1>1, <2>1, <2>2, SameChunk DEF Stripping
    <2>4. /\ DOMAIN kept' = 1 .. MaxLines /\ kept'[item] = text
          /\ \A i \in 1 .. MaxLines : i # item => kept'[i] = kept[i]
      BY <1>3, <2>1, <2>3 DEF Cleaned
    <2>5. ASSUME NEW i \in Items, i = item PROVE IsClean(i)'
      <3>1. ASSUME Alternates(Marks(i))
            PROVE  /\ Left(text) = DOMAIN Marks(i) \ Injected(Marks(i))
                   /\ Upwards(text)
        <4>1. PICK c : CleanTo(text, Marks(i), c)
          BY <2>2, <2>5, <3>1 DEF Stripping
        <4>2. IsText(Marks(i)) /\ Marks(i) = Marks(item)
          BY <1>4, <2>3, <2>5
        <4> QED BY <2>1, <4>1, <4>2, CleanText
      <3>2. kept'[i] = text /\ Marks(i)' = Marks(i)
        BY <1>2, <2>4, <2>5
      <3> QED BY <3>1, <3>2 DEF IsClean
    <2>6. ASSUME NEW i \in Items, IsClean(i) PROVE IsClean(i)'
      <3>1. CASE i = item
        BY <2>5, <3>1
      <3>2. CASE i # item
        BY <1>2, <1>3, <2>4, <2>6, <3>2
      <3> QED BY <3>1, <3>2
    <2>7. ASSUME NEW i \in Chunk, i <= item PROVE IsClean(i)'
      <3>1. i \in Nat /\ item \in Nat /\ i \in Items
        BY <1>3, <2>3
      <3>2. i < item \/ i = item
        BY <2>7, <3>1
      <3>3. i < item => IsClean(i)
        BY <2>2 DEF Stripping
      <3> QED BY <2>5, <2>6, <3>1, <3>2, <3>3
    <2>8. CASE Later # {}
      <3>1. Later \subseteq Chunk
        BY DEF Later
      <3>2. First(Later) \in Later /\ \A k \in Later : First(Later) <= k
        BY <1>3, <2>8, <3>1, FirstIsLeast
      <3>3. item' \in Chunk /\ \A k \in Chunk : k < item' => k <= item
        <4>1. item' \in Later /\ \A k \in Later : item' <= k
          BY <2>1, <2>8, <3>2, Zenon
        <4>2. item' \in Chunk /\ \A k \in Chunk : k > item => item' <= k
          BY <4>1 DEF Later
        <4>3. item \in Nat /\ item' \in Nat /\ \A k \in Chunk : k \in Nat
          BY <1>3, <2>3, <4>2
        <4> QED BY <4>2, <4>3
      <3>4. CleanTo(text', Marks(item'), 0)
        <4>1. text' = [j \in DOMAIN Marks(item') |-> j]
          BY <2>1, <2>8 DEF Whole
        <4> QED BY <1>4, <3>3, <4>1, CleanFromWhole
      <3>5. Marks(item)' = Marks(item')
        BY <1>1 DEF Marks
      <3>6. Stripping'
        BY <1>1, <2>2, <2>3, <2>7, <3>3, <3>4, <3>5 DEF Stripping
      <3> QED BY <1>1, <1>2, <2>1, <2>4, <2>6, <2>8, <3>6 DEF Cleaned
    <2>9. CASE Later = {}
      <3>1. \A i \in Chunk : i <= item
        BY <1>3, <2>3, <2>9 DEF Later
      <3>2. \A i \in Chunk : IsClean(i)'
        BY <2>7, <3>1
      <3> QED BY <1>1, <1>2, <2>1, <2>3, <2>4, <2>6, <2>9, <3>2 DEF Cleaned
    <2> QED BY <2>8, <2>9
  <1>9. CASE Store
    <2>1. /\ pc = "store" /\ pc' = "loop" /\ kept' = kept
          /\ given' = [i \in 1 .. MaxLines |->
                         given[i] + (IF i \in Chunk THEN 1 ELSE 0)]
      BY <1>9 DEF Store
    <2>2. \A i \in Items : i \notin Chunk => given'[i] = given[i]
      <3>1. \A i \in 1 .. MaxLines : given[i] \in Nat
        BY DEF IInv, LoopTypes
      <3> QED BY <1>3, <2>1, <3>1
    <2> QED BY <1>1, <1>2, <2>1, <2>2 DEF Cleaned
  <1>10. CASE UNCHANGED vars
    BY <1>1, <1>10, CleanedKept DEF vars
  <1> QED BY <1>5, <1>6, <1>7, <1>8, <1>9, <1>10 DEF Next

LEMMA InitCleaned == Init => Cleaned
  <1> SUFFICES ASSUME Init PROVE Cleaned
    OBVIOUS
  <1>1. IInv
    BY InitIInv
  <1>2. /\ pc = "parse" /\ DOMAIN kept = 1 .. MaxLines
        /\ \A i \in 1 .. MaxLines : given[i] = 0
    BY DEF Init, None
  <1>3. Items \subseteq 1 .. MaxLines
    BY <1>1, ItemsAreLines DEF IInv, LoopTypes
  <1> QED BY <1>2, <1>3 DEF Cleaned

\* What Ingest is handed of a message is its text without the injected context
\* and in its order, however its tags follow one another as long as each that
\* closes ends one that opens, and however often the import was resumed.
THEOREM ContextIsRemoved == Spec => []ContextRemoved
  <1>1. IInv /\ Cleaned => ContextRemoved
    <2> SUFFICES ASSUME IInv, Cleaned, NEW i \in DOMAIN file.lines,
                        given[i] > 0, file.type = "session", Alternates(Marks(i))
                 PROVE  /\ {kept[i][j] : j \in DOMAIN kept[i]}
                             = DOMAIN Marks(i) \ Injected(Marks(i))
                        /\ \A j, k \in DOMAIN kept[i] :
                             j < k => kept[i][j] < kept[i][k]
      BY Zenon DEF ContextRemoved
    <2>1. i \in 1 .. MaxLines
      <3>1. IsFile(file)
        BY ConstantsAssumption DEF IInv, LoopTypes
      <3>2. DOMAIN file.lines = 1 .. Len(file.lines) /\ Len(file.lines) \in Nat
        BY <3>1 DEF IsFile
      <3> QED BY <3>1, <3>2, ConstantsAssumption DEF IsFile
    <2>2. i \in Items
      BY <2>1 DEF IInv, NotYet
    <2>3. IsClean(i)
      BY <2>2 DEF Cleaned
    <2> QED BY <2>3 DEF IsClean, Left, Upwards
  <1> QED BY <1>1, Inductive, InitCleaned, StepCleaned, PTL DEF Spec

-----------------------------------------------------------------------------
(* Types                                                                   *)

\* The number of chunks is known before one is done, and the rest is typed.
TypeInv ==
    /\ total \in {0, Batches}
    /\ done > 0 => total = Batches
    /\ item \in 0 .. MaxLines
    /\ text \in Seq(Nat)
    /\ kept \in [1 .. MaxLines -> Seq(Nat)]
    /\ crashes \in 0 .. MaxCrashes

LEMMA BatchesBounded ==
  ASSUME file \in Files
  PROVE  Batches \in 0 .. MaxLines
  <1>1. /\ Items \subseteq 1 .. MaxLines /\ MaxLines \in Nat
        /\ Count \in Nat /\ Size \in Nat \ {0}
    BY ItemsAreLines, PlaceBounded, SizeIsPositive, ConstantsAssumption
  <1>2. Count <= MaxLines
    <2>1. IsFiniteSet(1 .. MaxLines) /\ Cardinality(1 .. MaxLines) = MaxLines
      BY <1>1, FS_Interval
    <2>2. Cardinality(Items) <= Cardinality(1 .. MaxLines)
      BY <1>1, <2>1, FS_Subset
    <2> QED BY <2>1, <2>2 DEF Count
  <1>3. MaxLines * Size >= Count
    BY <1>1, <1>2, TimesPositive
  <1>4. Batches \in Nat /\ (MaxLines * Size >= Count => Batches <= MaxLines)
    BY <1>1, RoundedUp DEF Batches
  <1> QED BY <1>1, <1>3, <1>4

LEMMA WholeIsText ==
  ASSUME file \in Files, NEW i \in Items
  PROVE  Whole(i) \in Seq(Nat)
  <1>1. i \in DOMAIN file.lines
    BY DEF Items
  <1>2. IsText(Marks(i))
    BY <1>1, TextsOfLines
  <1>3. Whole(i) = [j \in DOMAIN Marks(i) |-> j]
    BY DEF Whole
  <1> QED BY <1>2, <1>3, CleanFromWhole DEF CleanTo

LEMMA StrippedIsText ==
  ASSUME text \in Seq(Nat), Opens # {}
  PROVE  Stripped \in Seq(Nat)
  <1> DEFINE a == First(Opens)  b == First(Closes)
  <1>1. Len(text) \in Nat /\ DOMAIN text = 1 .. Len(text)
    OBVIOUS
  <1>2. Opens \subseteq 1 .. Len(text) /\ Closes \subseteq 1 .. Len(text)
    BY <1>1 DEF Opens, Closes
  <1>n. Opens \subseteq Nat /\ Closes \subseteq Nat
    BY <1>1, <1>2
  <1>3. a \in 1 .. Len(text)
    <2>1. a \in Opens
      BY <1>n, FirstIsLeast
    <2> QED BY <1>2, <2>1
  <1> HIDE DEF a
  <1>4. SubSeq(text, 1, a - 1) \in Seq(Nat)
    <2>1. \A i \in 1 .. a - 1 : text[i] \in Nat
      BY <1>1, <1>3
    <2> QED BY <1>1, <1>3, <2>1, SubSeqProperties
  <1>5. CASE Closes = {}
    BY <1>4, <1>5, Zenon DEF Stripped, a
  <1>6. CASE Closes # {}
    <2>1. b \in 1 .. Len(text)
      <3>1. b \in Closes
        BY <1>n, <1>6, FirstIsLeast
      <3> QED BY <1>2, <3>1
    <2> HIDE DEF b
    <2>2. SubSeq(text, b + 1, Len(text)) \in Seq(Nat)
      <3>1. \A i \in b + 1 .. Len(text) : text[i] \in Nat
        BY <1>1, <2>1
      <3> QED BY <1>1, <2>1, <3>1, SubSeqProperties
    <2>3. SubSeq(text, 1, a - 1) \o SubSeq(text, b + 1, Len(text)) \in Seq(Nat)
      BY <1>4, <2>2
    <2> QED BY <1>6, <2>3, Zenon DEF Stripped, a, b
  <1> QED BY <1>5, <1>6

LEMMA InitTypes == Init => TypeInv
  BY ConstantsAssumption DEF Init, TypeInv

\* Every step keeps the types.
LEMMA StepTypes == IInv /\ Cleaned /\ TypeInv /\ [Next]_vars => TypeInv'
  <1> SUFFICES ASSUME IInv, Cleaned, TypeInv, [Next]_vars PROVE TypeInv'
    OBVIOUS
  <1>1. /\ file' = file /\ file \in Files /\ offset \in Nat
        /\ Count \in Nat /\ done \in Nat /\ batch \in Nat
        /\ MaxLines \in Nat /\ MaxCrashes \in Nat
    BY PlaceBounded, ConstantsAssumption
       DEF IInv, LoopTypes, Next, vars, Parse, Finish, Skip, Checkpoint, Pass,
           Clean, Store, Fail, Crash
  <1>2. Batches' = Batches /\ Batches \in Nat
    BY <1>1, Rigid, BatchesBounded
  <1>3. /\ Chunk \subseteq Items /\ Items \subseteq 1 .. MaxLines
        /\ Chunk \subseteq Nat
    BY <1>1, ItemsAreLines DEF Chunk
  <1>c. \A i \in Chunk : i \in 0 .. MaxLines
    BY <1>1, <1>3
  <1>4. CASE Parse
    BY <1>1, <1>2, <1>4 DEF Parse, TypeInv
  <1>5. CASE Finish \/ Skip \/ Fail \/ Store \/ UNCHANGED vars
    BY <1>2, <1>5 DEF Finish, Skip, Fail, Store, vars, TypeInv
  <1>6. CASE Checkpoint
    <2>1. pc = "loop" /\ total = Batches
      BY <1>6 DEF Checkpoint, IInv, Position
    <2>2. UNCHANGED <<file, total, crashes>>
      BY <1>6 DEF Checkpoint
    <2>3. \A i \in Chunk : Whole(i) \in Seq(Nat)
      BY <1>1, <1>3, WholeIsText
    <2>4. First(Chunk) \in Chunk
      <3>1. Chunk # {}
        BY <1>1, <1>6, ChunkNotEmpty DEF Checkpoint, End
      <3> QED BY <1>3, <3>1, FirstIsLeast
    <2>5. First(Chunk) \in 0 .. MaxLines
      BY <1>c, <2>4, Zenon
    <2>6. CASE file.type = "session"
      <3>1. item' = First(Chunk) /\ text' = Whole(First(Chunk)) /\ kept' = kept
        BY <1>6, <2>6 DEF Checkpoint
      <3> QED BY <1>2, <2>1, <2>2, <2>3, <2>4, <2>5, <3>1 DEF TypeInv
    <2>7. CASE file.type # "session"
      <3>1. /\ item' = item /\ text' = text
            /\ kept' = [i \in 1 .. MaxLines |-> IF i \in Chunk THEN Whole(i)
                                                ELSE kept[i]]
        BY <1>6, <2>7 DEF Checkpoint
      <3>2. kept' \in [1 .. MaxLines -> Seq(Nat)]
        BY <2>3, <3>1 DEF TypeInv
      <3> QED BY <1>2, <2>1, <2>2, <3>1, <3>2 DEF TypeInv
    <2> QED BY <2>6, <2>7
  <1>7. CASE Pass
    <2>1. text' \in Seq(Nat)
      BY <1>7, StrippedIsText DEF Pass, TypeInv
    <2> QED BY <1>2, <1>7, <2>1 DEF Pass, TypeInv
  <1>8. CASE Clean
    <2>1. /\ kept' = [kept EXCEPT ![item] = text]
          /\ UNCHANGED <<file, total, done, crashes>>
          /\ Later # {} => item' = First(Later) /\ text' = Whole(First(Later))
          /\ Later = {} => item' = 0 /\ text' = <<>>
      BY <1>8 DEF Clean
    <2>2. kept' \in [1 .. MaxLines -> Seq(Nat)]
      BY <2>1 DEF TypeInv
    <2>3. item' \in 0 .. MaxLines /\ text' \in Seq(Nat)
      <3>1. CASE Later # {}
        <4>1. Later \subseteq Chunk
          BY DEF Later
        <4>2. First(Later) \in Chunk
          <5>1. First(Later) \in Later
            BY <1>3, <3>1, <4>1, FirstIsLeast
          <5> QED BY <4>1, <5>1
        <4>3. \A i \in Chunk : Whole(i) \in Seq(Nat)
          BY <1>1, <1>3, WholeIsText
        <4>4. First(Later) \in 0 .. MaxLines /\ Whole(First(Later)) \in Seq(Nat)
          BY <1>c, <4>2, <4>3, Zenon
        <4> QED BY <2>1, <3>1, <4>4
      <3>2. CASE Later = {}
        BY <1>1, <2>1, <3>2
      <3> QED BY <3>1, <3>2
    <2> QED BY <1>2, <2>1, <2>2, <2>3 DEF TypeInv
  <1>9. CASE Crash
    BY <1>1, <1>2, <1>9 DEF Crash, TypeInv
  <1> QED BY <1>4, <1>5, <1>6, <1>7, <1>8, <1>9 DEF Next

\* Every reachable state of an import is well typed, the texts included.
THEOREM TypeCorrect == Spec => []TypeOK
  <1>1. IInv /\ TypeInv => TypeOK
    <2> SUFFICES ASSUME IInv, TypeInv PROVE TypeOK
      OBVIOUS
    <2>1. Batches \in 0 .. MaxLines /\ MaxLines \in Nat
      BY BatchesBounded, ConstantsAssumption DEF IInv, LoopTypes
    <2>2. /\ done \in Nat /\ batch \in Nat /\ batch <= done /\ done <= Batches
      BY DEF IInv, LoopTypes, Position
    <2>3. total \in 0 .. MaxLines /\ done \in 0 .. total /\ batch \in 0 .. MaxLines
      BY <2>1, <2>2 DEF TypeInv
    <2>4. given \in [1 .. MaxLines -> 0 .. 2]
      BY DEF IInv, LoopTypes, NotYet
    <2> QED BY <2>3, <2>4 DEF TypeOK, TypeInv, IInv, LoopTypes
  <1> QED
    BY <1>1, Inductive, InitCleaned, StepCleaned, InitTypes, StepTypes, PTL
       DEF Spec

=============================================================================
