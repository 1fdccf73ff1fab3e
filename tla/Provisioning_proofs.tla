-------------------------- MODULE Provisioning_proofs --------------------------
(***************************************************************************)
(* Proofs about Provisioning, for any number of processes, clients and     *)
(* tenants, any schema and any faults.  What each step does to the rows    *)
(* and the databases is told first; the invariants follow from it.         *)
(***************************************************************************)
EXTENDS Provisioning, TLAPS

\* Who is at work on a tenant has made its row and has run the statements that
\* come before the next one.
WorkAt(p) ==
    /\ run[p].pc = "create" => run[p].next = 1
    /\ run[p].pc \in Steps \ {"create"} => row[run[p].id] # NoRow
    /\ run[p].pc = "schema" => run[p].next <= built[run[p].id] + 1
    /\ run[p].pc \in {"activate", "version"} => built[run[p].id] = SchemaLength
    /\ run[p].pc = "version" => row[run[p].id].status = "active"

WorkInv == \A p \in Runs : WorkAt(p)

\* What is open has its schema.
OpenInv ==
    \A t \in Tenants : (row[t] # NoRow /\ row[t].status = "active") =>
                         built[t] = SchemaLength

\* Who was let in has found an open tenant.
AdmittedInv ==
    \A r \in Requests : req[r] \in {"connecting", "served"} =>
        row[Want[r]] # NoRow /\ row[Want[r]].status = "active"

\* A process gives up with its last attempt to open the database.
TriesInv ==
    \A i \in Instances : boot[i] = "dialing" => tries[i] # MaxRetries

Inv == TypeOK /\ WorkInv /\ OpenInv /\ AdmittedInv /\ TriesInv

\* What a step may do to the rows and the databases.
RowsKept ==
    \A t \in Tenants : row[t] # NoRow =>
      /\ row'[t] # NoRow
      /\ row[t].status = "active" => row'[t].status = "active"
      /\ row[t].version <= row'[t].version

BuiltGrows == \A t \in Tenants : built[t] <= built'[t]

-----------------------------------------------------------------------------
(* One step of a registration.                                             *)

RunRecords == [pc : Steps \cup {"idle", "done", "failed"},
               id : Tenants \cup {NoTenant},
               next : 1..SchemaLength]

\* What a step of p does to the processes: it moves p alone, and p keeps its
\* tenant.
Moves(p) ==
    /\ run' \in [Runs -> RunRecords]
    /\ run'[p].id = run[p].id
    /\ \A q \in Runs \ {p} : run'[q] = run[q]

LEMMA RunFacts ==
  ASSUME TypeOK, NEW p \in Runs, run[p].pc \in Steps
  PROVE /\ run[p].id \in Tenants
        /\ run[p].next \in 1..SchemaLength
        /\ row[run[p].id] \in Rows \cup {NoRow}
        /\ built[run[p].id] \in 0..SchemaLength
  BY DEF TypeOK

LEMMA GotoMoves ==
  ASSUME TypeOK, NEW p \in Runs,
         NEW s \in {"schema", "activate", "version", "done", "failed"},
         Goto(p, s)
  PROVE Moves(p) /\ run'[p].pc = s /\ run'[p].next = run[p].next
  BY DEF Goto, TypeOK, Moves, RunRecords, Steps

LEMMA AnsweredMoves ==
  ASSUME TypeOK, NEW p \in Runs,
         NEW s \in {"schema", "activate", "version", "done"},
         Answered(p, s)
  PROVE Moves(p) /\ run'[p].pc \in {s, "failed"} /\ run'[p].next = run[p].next
  BY GotoMoves DEF Answered

\* A step of p that keeps the types of the rows and of the databases, takes
\* nothing back, and leaves p as it should be, keeps the invariant.
LEMMA MovesKeep ==
  ASSUME Inv, NEW p \in Runs, run[p].pc \in Steps, Moves(p),
         row' \in [Tenants -> Rows \cup {NoRow}],
         built' \in [Tenants -> 0..SchemaLength],
         RowsKept, BuiltGrows, WorkAt(p)', OpenInv',
         UNCHANGED <<made, boot, key, tries, starts, req, where>>
  PROVE Inv'
<1>1. TypeOK'
  <2>1. run' \in [Runs -> RunRecords]
        BY DEF Moves
  <2>2. ASSUME NEW q \in Runs, run'[q].pc \in Steps
        PROVE run'[q].id # NoTenant
        BY <2>2 DEF Moves, Inv, TypeOK
  <2> QED  BY <2>1, <2>2 DEF Inv, TypeOK, RunRecords
<1>2. ASSUME NEW q \in Runs PROVE WorkAt(q)'
  <2>1. CASE q = p
        BY <2>1
  <2>2. CASE q # p
    <3>1. run'[q] = run[q]
          BY <2>2 DEF Moves
    <3>2. CASE run[q].pc \in Steps
      <4>1. run[q].id \in Tenants /\ SchemaLength \in Nat
            BY <3>2, RunFacts, ConstantsAssumption DEF Inv
      <4>2. /\ built[run[q].id] \in 0..SchemaLength
            /\ built'[run[q].id] \in 0..SchemaLength
            /\ built[run[q].id] <= built'[run[q].id]
            /\ run[q].next \in 1..SchemaLength
            BY <4>1, <3>2, RunFacts DEF BuiltGrows, Inv
      <4>3. WorkAt(q)
            BY DEF Inv, WorkInv
      <4> QED  BY <3>1, <4>1, <4>2, <4>3 DEF WorkAt, RowsKept, Steps
    <3>3. CASE run[q].pc \notin Steps
          BY <3>1, <3>3 DEF WorkAt, Steps
    <3> QED  BY <3>2, <3>3
  <2> QED  BY <2>1, <2>2
<1>3. AdmittedInv' /\ TriesInv'
      BY ConstantsAssumption DEF Inv, AdmittedInv, RowsKept, TriesInv
<1> QED  BY <1>1, <1>2, <1>3 DEF Inv, WorkInv

LEMMA CreateKeeps ==
  ASSUME Inv, NEW p \in Runs, Create(p)
  PROVE Inv' /\ RowsKept
<1> DEFINE t == run[p].id
<1>1. TypeOK /\ run[p].pc = "create" /\ run[p].pc \in Steps
      BY DEF Create, Inv, Steps
<1>2. /\ t \in Tenants /\ built' = built
      /\ UNCHANGED <<made, boot, key, tries, starts, req, where>>
      BY <1>1, RunFacts DEF Create
<1>3. NewRow \in Rows /\ NewRow # NoRow /\ NewRow.status = "provisioning"
      BY RowsAssumption DEF NewRow, Rows
<1>4. BuiltGrows /\ built' \in [Tenants -> 0..SchemaLength]
      BY <1>1, <1>2, ConstantsAssumption DEF BuiltGrows, TypeOK
<1>5. CASE Free(t) /\ row' = [row EXCEPT ![t] = NewRow] /\ Answered(p, "schema")
  <2>1. Moves(p) /\ run'[p].pc \in {"schema", "failed"} /\ run'[p].next = run[p].next
        BY <1>1, <1>5, AnsweredMoves
  <2>2. row[t] = NoRow
        BY <1>5 DEF Free
  <2>3. /\ row' \in [Tenants -> Rows \cup {NoRow}]
        /\ row'[t] = NewRow
        /\ \A u \in Tenants \ {t} : row'[u] = row[u]
        BY <1>1, <1>2, <1>3, <1>5 DEF TypeOK
  <2>4. RowsKept
        BY <1>1, <2>2, <2>3 DEF RowsKept, TypeOK, Rows
  <2>5. OpenInv'
        BY <1>2, <1>3, <2>3 DEF OpenInv, Inv
  <2>6. run[p].next = 1 /\ built[t] \in Nat
        BY <1>1, RunFacts, ConstantsAssumption DEF Inv, WorkInv, WorkAt
  <2>7. WorkAt(p)'
        BY <1>2, <1>3, <2>1, <2>3, <2>6 DEF WorkAt, Moves, Steps
  <2> QED  BY <1>1, <1>2, <1>4, <2>1, <2>3, <2>4, <2>5, <2>7, MovesKeep
<1>6. CASE Goto(p, "failed") /\ UNCHANGED row
  <2>1. Moves(p) /\ run'[p].pc = "failed"
        BY <1>1, <1>6, GotoMoves
  <2>2. RowsKept /\ row' \in [Tenants -> Rows \cup {NoRow}]
        BY <1>1, <1>6 DEF RowsKept, TypeOK, Rows
  <2>3. OpenInv' /\ WorkAt(p)'
        BY <1>2, <1>6, <2>1 DEF OpenInv, Inv, WorkAt, Steps
  <2> QED  BY <1>1, <1>2, <1>4, <2>1, <2>2, <2>3, MovesKeep
<1> QED  BY <1>5, <1>6 DEF Create

LEMMA InitSchemaKeeps ==
  ASSUME Inv, NEW p \in Runs, InitSchema(p)
  PROVE Inv' /\ RowsKept
<1> DEFINE t == run[p].id
           n == run[p].next
<1>1. TypeOK /\ run[p].pc = "schema" /\ run[p].pc \in Steps
      BY DEF InitSchema, Inv, Steps
<1>2. /\ t \in Tenants /\ row' = row
      /\ UNCHANGED <<made, boot, key, tries, starts, req, where>>
      BY <1>1, RunFacts DEF InitSchema
<1>3. /\ n \in 1..SchemaLength /\ SchemaLength \in Nat
      /\ built[t] \in 0..SchemaLength
      /\ row[t] # NoRow
      /\ n <= built[t] + 1
      BY <1>1, RunFacts, ConstantsAssumption DEF Inv, WorkInv, WorkAt, Steps
<1>4. RowsKept /\ row' \in [Tenants -> Rows \cup {NoRow}]
      BY <1>1, <1>2 DEF RowsKept, TypeOK, Rows
<1> DEFINE advanced == IF n = SchemaLength
                       THEN [run[p] EXCEPT !.pc = "activate"]
                       ELSE [run[p] EXCEPT !.next = n + 1]
<1>5. CASE /\ built' = [built EXCEPT ![t] = IF @ < n THEN n ELSE @]
           /\ run' = [run EXCEPT ![p] = advanced] \/ Goto(p, "failed")
  <2>1. /\ built' \in [Tenants -> 0..SchemaLength]
        /\ built'[t] \in 0..SchemaLength /\ built[t] <= built'[t] /\ n <= built'[t]
        /\ \A u \in Tenants \ {t} : built'[u] = built[u]
        BY <1>1, <1>2, <1>3, <1>5 DEF TypeOK
  <2>2. ASSUME NEW u \in Tenants PROVE built[u] <= built'[u] /\ built[u] \in 0..SchemaLength
        BY <1>1, <1>3, <2>1 DEF TypeOK
  <2>3. BuiltGrows
        BY <2>2 DEF BuiltGrows
  <2>4. OpenInv'
        BY <1>2, <1>3, <2>1, <2>2 DEF OpenInv, Inv
  <2>5. CASE run' = [run EXCEPT ![p] = advanced]
    <3>1. CASE n = SchemaLength
      <4>1. run' = [run EXCEPT ![p] = [run[p] EXCEPT !.pc = "activate"]]
            BY <2>5, <3>1
      <4>2. Moves(p) /\ run'[p].pc = "activate"
            BY <1>1, <4>1 DEF Moves, TypeOK, RunRecords, Steps
      <4>3. WorkAt(p)'
            BY <1>2, <1>3, <2>1, <3>1, <4>2 DEF WorkAt, Moves, Steps
      <4> QED  BY <1>1, <1>2, <1>4, <2>1, <2>3, <2>4, <4>2, <4>3, MovesKeep
    <3>2. CASE n # SchemaLength
      <4>1. run' = [run EXCEPT ![p] = [run[p] EXCEPT !.next = n + 1]]
            BY <2>5, <3>2
      <4>2. n + 1 \in 1..SchemaLength
            BY <1>3, <3>2
      <4>3. Moves(p) /\ run'[p].pc = "schema" /\ run'[p].next = n + 1
            BY <1>1, <4>1, <4>2 DEF Moves, TypeOK, RunRecords, Steps
      <4>4. WorkAt(p)'
            BY <1>2, <1>3, <2>1, <4>3 DEF WorkAt, Moves, Steps
      <4> QED  BY <1>1, <1>2, <1>4, <2>1, <2>3, <2>4, <4>3, <4>4, MovesKeep
    <3> QED  BY <3>1, <3>2
  <2>6. CASE Goto(p, "failed")
    <3>1. Moves(p) /\ run'[p].pc = "failed"
          BY <1>1, <2>6, GotoMoves
    <3>2. WorkAt(p)'
          BY <3>1 DEF WorkAt, Steps
    <3> QED  BY <1>1, <1>2, <1>4, <2>1, <2>3, <2>4, <3>1, <3>2, MovesKeep
  <2> QED  BY <1>4, <1>5, <2>5, <2>6
<1>6. CASE Goto(p, "failed") /\ UNCHANGED built
  <2>1. Moves(p) /\ run'[p].pc = "failed"
        BY <1>1, <1>6, GotoMoves
  <2>2. BuiltGrows /\ built' \in [Tenants -> 0..SchemaLength]
        BY <1>1, <1>6, ConstantsAssumption DEF BuiltGrows, TypeOK
  <2>3. OpenInv' /\ WorkAt(p)'
        BY <1>2, <1>6, <2>1 DEF OpenInv, Inv, WorkAt, Steps
  <2> QED  BY <1>1, <1>2, <1>4, <2>1, <2>2, <2>3, MovesKeep
<1> QED  BY <1>4, <1>5, <1>6 DEF InitSchema

LEMMA ActivateKeeps ==
  ASSUME Inv, NEW p \in Runs, Activate(p)
  PROVE Inv' /\ RowsKept
<1> DEFINE t == run[p].id
<1>1. TypeOK /\ run[p].pc = "activate" /\ run[p].pc \in Steps
      BY DEF Activate, Inv, Steps
<1>2. /\ t \in Tenants /\ built' = built
      /\ UNCHANGED <<made, boot, key, tries, starts, req, where>>
      BY <1>1, RunFacts DEF Activate
<1>3. row[t] \in Rows /\ row[t] # NoRow /\ built[t] = SchemaLength
      BY <1>1, RunFacts DEF Inv, WorkInv, WorkAt, Steps
<1>4. BuiltGrows /\ built' \in [Tenants -> 0..SchemaLength]
      BY <1>1, <1>2, ConstantsAssumption DEF BuiltGrows, TypeOK
<1>5. CASE row' = [row EXCEPT ![t].status = "active"] /\ Answered(p, "version")
  <2>1. Moves(p) /\ run'[p].pc \in {"version", "failed"}
        BY <1>1, <1>5, AnsweredMoves
  <2>2. /\ row' \in [Tenants -> Rows \cup {NoRow}]
        /\ row'[t] \in Rows /\ row'[t].status = "active"
        /\ row'[t].version = row[t].version
        /\ \A u \in Tenants \ {t} : row'[u] = row[u]
        BY <1>1, <1>2, <1>3, <1>5 DEF TypeOK, Rows
  <2>3. row'[t] # NoRow
        BY <2>2, RowsAssumption
  <2>4. RowsKept
        BY <1>1, <2>2, <2>3 DEF RowsKept, TypeOK, Rows
  <2>5. OpenInv'
        BY <1>2, <1>3, <2>2 DEF OpenInv, Inv
  <2>6. WorkAt(p)'
        BY <1>2, <1>3, <2>1, <2>2, <2>3 DEF WorkAt, Moves, Steps
  <2> QED  BY <1>1, <1>2, <1>4, <2>1, <2>2, <2>4, <2>5, <2>6, MovesKeep
<1>6. CASE Goto(p, "failed") /\ UNCHANGED row
  <2>1. Moves(p) /\ run'[p].pc = "failed"
        BY <1>1, <1>6, GotoMoves
  <2>2. RowsKept /\ row' \in [Tenants -> Rows \cup {NoRow}]
        BY <1>1, <1>6 DEF RowsKept, TypeOK, Rows
  <2>3. OpenInv' /\ WorkAt(p)'
        BY <1>2, <1>6, <2>1 DEF OpenInv, Inv, WorkAt, Steps
  <2> QED  BY <1>1, <1>2, <1>4, <2>1, <2>2, <2>3, MovesKeep
<1> QED  BY <1>5, <1>6 DEF Activate

LEMMA SetVersionKeeps ==
  ASSUME Inv, NEW p \in Runs, SetVersion(p)
  PROVE Inv' /\ RowsKept
<1> DEFINE t == run[p].id
<1>1. TypeOK /\ run[p].pc = "version" /\ run[p].pc \in Steps
      BY DEF SetVersion, Inv, Steps
<1>2. /\ t \in Tenants /\ built' = built
      /\ UNCHANGED <<made, boot, key, tries, starts, req, where>>
      BY <1>1, RunFacts DEF SetVersion
<1>3. /\ row[t] \in Rows /\ row[t] # NoRow
      /\ row[t].status = "active" /\ built[t] = SchemaLength
      BY <1>1, <1>2, RunFacts DEF Inv, WorkInv, WorkAt, OpenInv, Steps
<1>4. BuiltGrows /\ built' \in [Tenants -> 0..SchemaLength]
      BY <1>1, <1>2, ConstantsAssumption DEF BuiltGrows, TypeOK
<1>5. CASE row' = [row EXCEPT ![t].version = 1] /\ Answered(p, "done")
  <2>1. Moves(p) /\ run'[p].pc \in {"done", "failed"}
        BY <1>1, <1>5, AnsweredMoves
  <2>2. /\ row' \in [Tenants -> Rows \cup {NoRow}]
        /\ row'[t] \in Rows /\ row'[t].status = "active"
        /\ row'[t].version = 1
        /\ \A u \in Tenants \ {t} : row'[u] = row[u]
        BY <1>1, <1>2, <1>3, <1>5 DEF TypeOK, Rows
  <2>3. row'[t] # NoRow
        BY <2>2, RowsAssumption
  <2>4. RowsKept
        BY <1>1, <2>2, <2>3 DEF RowsKept, TypeOK, Rows
  <2>5. OpenInv'
        BY <1>2, <1>3, <2>2 DEF OpenInv, Inv
  <2>6. WorkAt(p)'
        BY <2>1 DEF WorkAt, Steps
  <2> QED  BY <1>1, <1>2, <1>4, <2>1, <2>2, <2>4, <2>5, <2>6, MovesKeep
<1>6. CASE Goto(p, "failed") /\ UNCHANGED row
  <2>1. Moves(p) /\ run'[p].pc = "failed"
        BY <1>1, <1>6, GotoMoves
  <2>2. RowsKept /\ row' \in [Tenants -> Rows \cup {NoRow}]
        BY <1>1, <1>6 DEF RowsKept, TypeOK, Rows
  <2>3. OpenInv' /\ WorkAt(p)'
        BY <1>2, <1>6, <2>1 DEF OpenInv, Inv, WorkAt, Steps
  <2> QED  BY <1>1, <1>2, <1>4, <2>1, <2>2, <2>3, MovesKeep
<1> QED  BY <1>5, <1>6 DEF SetVersion

LEMMA RegisterKeeps ==
  ASSUME Inv, NEW p \in Runs, Register(p)
  PROVE Inv' /\ RowsKept
  BY CreateKeeps, InitSchemaKeeps, ActivateKeeps, SetVersionKeeps DEF Register

-----------------------------------------------------------------------------
(* The other steps leave the rows and the databases alone.                 *)

LEMMA StillKept ==
  ASSUME Inv, UNCHANGED <<row, built>>
  PROVE RowsKept /\ OpenInv'
  BY DEF Inv, TypeOK, RowsKept, Rows, OpenInv

\* A process whose record stays, or that is not at work, is as it should be.
LEMMA WorkStill ==
  ASSUME Inv, UNCHANGED <<row, built>>, NEW p \in Runs,
         run'[p] = run[p] \/ run'[p].pc \in {"idle", "done", "failed"}
  PROVE WorkAt(p)'
  BY DEF Inv, WorkInv, WorkAt, Steps

\* A boot or a provision that begins has its first step before it.
LEMMA BeginWorks ==
  ASSUME NEW p \in Runs, NEW t, run'[p] = Begin(t)
  PROVE WorkAt(p)'
  BY DEF Begin, WorkAt, Steps

LEMMA BeginType ==
  ASSUME NEW t \in Tenants \cup {NoTenant}
  PROVE /\ Idle \in RunRecords /\ Idle.pc = "idle"
        /\ Begin(t) \in RunRecords /\ Begin(t).pc = "create" /\ Begin(t).id = t
        /\ [Begin(t) EXCEPT !.pc = "done"] \in RunRecords
        /\ [Begin(t) EXCEPT !.pc = "done"].pc = "done"
        /\ [Idle EXCEPT !.pc = "done"] \in RunRecords
        /\ [Idle EXCEPT !.pc = "done"].pc = "done"
  BY ConstantsAssumption DEF Idle, Begin, RunRecords, Steps

\* A step that replaces one record, by one that rests or one that begins.
LEMMA OthersKeep ==
  ASSUME Inv, UNCHANGED <<row, built, key, tries, starts, req>>,
         NEW p \in Runs, run' \in [Runs -> RunRecords],
         \A q \in Runs \ {p} : run'[q] = run[q],
         run'[p].pc \in {"done", "failed"} \/ \E t \in Tenants : run'[p] = Begin(t),
         boot' \in [Instances -> Booting \cup {"down", "ready", "failed"}],
         made' \in SUBSET ZeroIDs,
         where' \in [Provisions \cup Requests -> Instances \cup {NoTenant}],
         OpenInv', AdmittedInv', TriesInv'
  PROVE Inv'
<1>1. NoTenant \notin Tenants
      BY ConstantsAssumption DEF Tenants
<1>2. ASSUME NEW q \in Runs
      PROVE WorkAt(q)' /\ (run'[q].pc \in Steps => run'[q].id # NoTenant)
  <2>1. CASE q # p
        BY <2>1, WorkStill DEF Inv, TypeOK
  <2>2. CASE q = p /\ run'[p].pc \in {"done", "failed"}
        BY <2>2, WorkStill DEF Steps
  <2>3. ASSUME NEW t \in Tenants, q = p, run'[p] = Begin(t)
        PROVE WorkAt(q)' /\ (run'[q].pc \in Steps => run'[q].id # NoTenant)
    <3>1. WorkAt(p)'
          BY <2>3, BeginWorks
    <3>2. run'[p].id = t
          BY <2>3 DEF Begin
    <3> QED  BY <1>1, <2>3, <3>1, <3>2
  <2> QED  BY <2>1, <2>2, <2>3
<1>3. TypeOK'
      BY <1>2 DEF Inv, TypeOK, RunRecords
<1> QED  BY <1>2, <1>3 DEF Inv, WorkInv

\* Steps that touch neither the runs nor the requests.
LEMMA BootKeeps ==
  ASSUME Inv, NEW i \in Instances,
         Start(i) \/ Dial(i) \/ EnsureControlPlaneSchema(i) \/ Settle(i)
  PROVE Inv' /\ RowsKept
<1>1. UNCHANGED <<row, built, made, run, req, where>>
      BY DEF Start, Dial, EnsureControlPlaneSchema, Settle
<1>2. RowsKept /\ OpenInv'
      BY <1>1, StillKept
<1>3. WorkInv' /\ AdmittedInv'
      BY <1>1 DEF Inv, WorkInv, WorkAt, AdmittedInv
<1>4. MaxRetries \in Nat \ {0} /\ MaxStarts \in Nat
      BY ConstantsAssumption
<1>5. tries' \in [Instances -> 0..MaxRetries] /\ TriesInv'
  <2>1. CASE UNCHANGED tries /\ \A j \in Instances : boot'[j] = "dialing" => boot[j] = "dialing"
        BY <2>1 DEF Inv, TypeOK, TriesInv
  <2>2. CASE Start(i)
        BY <1>4, <2>2 DEF Start, Inv, TypeOK, TriesInv
  <2>3. CASE Dial(i) /\ tries' # tries
    <3>1. tries[i] \in 0..MaxRetries /\ tries[i] # MaxRetries
          BY <2>3 DEF Dial, Inv, TypeOK, TriesInv
    <3>2. /\ tries' = [tries EXCEPT ![i] = @ + 1]
          /\ boot' = [boot EXCEPT ![i] = IF tries[i] + 1 = MaxRetries
                                         THEN "failed" ELSE "dialing"]
          BY <2>3 DEF Dial
    <3>3. tries[i] + 1 \in 0..MaxRetries
          BY <1>4, <3>1
    <3> QED  BY <3>1, <3>2, <3>3 DEF Inv, TypeOK, TriesInv
  <2>4. CASE Dial(i) /\ UNCHANGED tries
    <3>1. ASSUME NEW j \in Instances, boot'[j] = "dialing"
          PROVE boot[j] = "dialing"
          BY <2>4, <3>1 DEF Dial, Inv, TypeOK
    <3> QED  BY <2>1, <2>4, <3>1
  <2>5. CASE EnsureControlPlaneSchema(i)
        BY <2>1, <2>5 DEF EnsureControlPlaneSchema, Inv, TypeOK
  <2>6. CASE Settle(i)
        BY <2>1, <2>6 DEF Settle, Inv, TypeOK
  <2> QED  BY <2>2, <2>3, <2>4, <2>5, <2>6
<1>6. TypeOK'
  <2>1. boot' \in [Instances -> Booting \cup {"down", "ready", "failed"}]
        BY DEF Start, Dial, EnsureControlPlaneSchema, Settle, Inv, TypeOK, Booting
  <2>2. key' \in [Instances -> BootKeys \cup {NoTenant}]
        BY DEF Start, Dial, EnsureControlPlaneSchema, Settle, Inv, TypeOK
  <2>3. starts' \in 0..MaxStarts
        BY <1>4 DEF Start, Dial, EnsureControlPlaneSchema, Settle, Inv, TypeOK
  <2> QED  BY <1>1, <1>5, <2>1, <2>2, <2>3 DEF Inv, TypeOK
<1> QED  BY <1>2, <1>3, <1>5, <1>6 DEF Inv

LEMMA CheckKeeps ==
  ASSUME Inv, NEW i \in Instances, Check(i)
  PROVE Inv' /\ RowsKept
<1>1. /\ UNCHANGED <<row, built, made, key, tries, starts, req, where>>
      /\ i \in Runs /\ key[i] \in Tenants \cup {NoTenant}
      BY DEF Check, Runs, Tenants, Inv, TypeOK
<1>2. RowsKept /\ OpenInv' /\ AdmittedInv'
      BY <1>1, StillKept DEF Inv, AdmittedInv
<1>3. /\ boot' \in [Instances -> Booting \cup {"down", "ready", "failed"}]
      /\ TriesInv'
      BY <1>1 DEF Check, Inv, TypeOK, Booting, TriesInv
<1>4. CASE UNCHANGED run
      BY <1>1, <1>2, <1>3, <1>4 DEF Inv, TypeOK, WorkInv, WorkAt
<1>5. run \in [Runs -> RunRecords]
      BY DEF Inv, TypeOK, RunRecords
<1>6. CASE run' = [run EXCEPT ![i] =
                     IF key[i] = NoTenant THEN [Idle EXCEPT !.pc = "done"]
                     ELSE IF row[key[i]] = NoRow THEN Begin(key[i])
                     ELSE [Begin(key[i]) EXCEPT !.pc = "done"]]
  <2>1. CASE key[i] # NoTenant /\ row[key[i]] = NoRow
    <3>1. key[i] \in Tenants /\ Begin(key[i]) \in RunRecords
          BY <1>1, <2>1, BeginType
    <3>2. run' = [run EXCEPT ![i] = Begin(key[i])]
          BY <1>6, <2>1
    <3>3. /\ run' \in [Runs -> RunRecords]
          /\ run'[i] = Begin(key[i])
          /\ \A q \in Runs \ {i} : run'[q] = run[q]
          BY <1>1, <1>5, <3>1, <3>2
    <3> QED  BY <1>1, <1>2, <1>3, <3>1, <3>3, OthersKeep DEF Inv, TypeOK
  <2>2. CASE ~(key[i] # NoTenant /\ row[key[i]] = NoRow)
    <3> DEFINE new == IF key[i] = NoTenant THEN [Idle EXCEPT !.pc = "done"]
                      ELSE [Begin(key[i]) EXCEPT !.pc = "done"]
    <3>1. new \in RunRecords /\ new.pc = "done"
          BY <1>1, BeginType
    <3>2. run' = [run EXCEPT ![i] = new]
          BY <1>6, <2>2
    <3> HIDE DEF new
    <3>3. /\ run' \in [Runs -> RunRecords]
          /\ run'[i].pc = "done"
          /\ \A q \in Runs \ {i} : run'[q] = run[q]
          BY <1>1, <1>5, <3>1, <3>2
    <3> QED  BY <1>1, <1>2, <1>3, <3>3, OthersKeep DEF Inv, TypeOK
  <2> QED  BY <2>1, <2>2
<1> QED  BY <1>2, <1>4, <1>6 DEF Check

LEMMA CrashKeeps ==
  ASSUME Inv, NEW i \in Instances, Crash(i)
  PROVE Inv' /\ RowsKept
<1>1. UNCHANGED <<row, built, made, key, tries, starts, where>>
      BY DEF Crash
<1>2. RowsKept /\ OpenInv'
      BY <1>1, StillKept
<1>3. boot' \in [Instances -> Booting \cup {"down", "ready", "failed"}]
      BY DEF Crash, Inv, TypeOK
<1>4. ASSUME NEW p \in Runs
      PROVE /\ run'[p] \in RunRecords
            /\ run'[p] = run[p] \/ run'[p].pc \in {"idle", "failed"}
  <2>1. run[p] \in RunRecords
        BY DEF Inv, TypeOK, RunRecords
  <2>2. [run[p] EXCEPT !.pc = "failed"] \in RunRecords
        BY <2>1 DEF RunRecords
  <2>3. run'[p] \in {Idle, [run[p] EXCEPT !.pc = "failed"], run[p]}
        BY DEF Crash
  <2>4. [run[p] EXCEPT !.pc = "failed"].pc = "failed"
        BY <2>1 DEF RunRecords
  <2> QED  BY <2>1, <2>2, <2>3, <2>4, BeginType
<1>5. \A p \in Runs : WorkAt(p)' /\ (run'[p].pc \in Steps => run'[p].id # NoTenant)
      BY <1>1, <1>4, WorkStill DEF Inv, TypeOK, Steps
<1>6. /\ req' \in [Requests -> Finished \cup {"new", "looking", "connecting"}]
      /\ AdmittedInv' /\ TriesInv'
      BY <1>1 DEF Crash, Inv, TypeOK, Finished, AdmittedInv, TriesInv
<1>7. run' \in [Runs -> RunRecords]
  <2>1. run' = [p \in Runs |-> run'[p]]
        BY DEF Crash
  <2> QED  BY <1>4, <2>1
<1>8. TypeOK'
      BY <1>1, <1>3, <1>5, <1>6, <1>7 DEF Inv, TypeOK, RunRecords
<1> QED  BY <1>2, <1>5, <1>6, <1>8 DEF Inv, WorkInv

LEMMA ProvisionKeeps ==
  ASSUME Inv, NEW c \in Provisions, NEW i \in Instances, Provision(c, i)
  PROVE Inv' /\ RowsKept
<1>1. UNCHANGED <<row, built, boot, key, tries, starts, req>> /\ c \in Runs
      BY DEF Provision, Runs
<1>2. RowsKept /\ OpenInv' /\ AdmittedInv' /\ TriesInv'
      BY <1>1, StillKept DEF Inv, AdmittedInv, TriesInv
<1>3. /\ where' \in [Provisions \cup Requests -> Instances \cup {NoTenant}]
      /\ made' \in SUBSET ZeroIDs
      /\ boot' \in [Instances -> Booting \cup {"down", "ready", "failed"}]
      BY DEF Provision, CreateInstance, Inv, TypeOK
<1>4. CASE Goto(c, "failed")
  <2>1. /\ run' \in [Runs -> RunRecords]
        /\ run'[c].pc = "failed"
        /\ \A q \in Runs \ {c} : run'[q] = run[q]
        BY <1>1, <1>4 DEF Goto, Inv, TypeOK, RunRecords
  <2> QED  BY <1>1, <1>2, <1>3, <2>1, OthersKeep
<1>5. ASSUME NEW z \in ZeroIDs, run' = [run EXCEPT ![c] = Begin(z)]
      PROVE Inv'
  <2>1. z \in Tenants /\ Begin(z) \in RunRecords
        BY BeginType DEF Tenants
  <2>2. run \in [Runs -> RunRecords]
        BY DEF Inv, TypeOK, RunRecords
  <2>3. /\ run' \in [Runs -> RunRecords]
        /\ run'[c] = Begin(z)
        /\ \A q \in Runs \ {c} : run'[q] = run[q]
        BY <1>1, <1>5, <2>1, <2>2
  <2> QED  BY <1>1, <1>2, <1>3, <2>1, <2>3, OthersKeep
<1> QED  BY <1>2, <1>4, <1>5 DEF Provision, CreateInstance

LEMMA RequestKeeps ==
  ASSUME Inv, NEW r \in Requests,
         Find(r) \/ Connect(r) \/ (\E i \in Instances : Ask(r, i))
  PROVE Inv' /\ RowsKept
<1>1. UNCHANGED <<row, built, made, boot, key, tries, starts, run>>
      BY DEF Find, Connect, Ask
<1>2. RowsKept /\ OpenInv' /\ WorkInv' /\ TriesInv'
      BY <1>1, StillKept DEF Inv, WorkInv, WorkAt, TriesInv
<1>3. /\ req' \in [Requests -> Finished \cup {"new", "looking", "connecting"}]
      /\ where' \in [Provisions \cup Requests -> Instances \cup {NoTenant}]
      BY DEF Find, Connect, Ask, Inv, TypeOK, Finished
<1>4. TypeOK'
      BY <1>1, <1>3 DEF Inv, TypeOK
<1>5. AdmittedInv'
  <2>1. CASE Find(r)
        BY <1>1, <2>1 DEF Find, Inv, TypeOK, AdmittedInv
  <2>2. CASE Connect(r)
        BY <1>1, <2>2 DEF Connect, Inv, TypeOK, AdmittedInv
  <2>3. CASE \E i \in Instances : Ask(r, i)
        BY <1>1, <2>3 DEF Ask, Inv, TypeOK, AdmittedInv
  <2> QED  BY <2>1, <2>2, <2>3
<1> QED  BY <1>2, <1>4, <1>5 DEF Inv

-----------------------------------------------------------------------------
(* The invariant.                                                          *)

LEMMA InitHolds == Init => Inv
<1> SUFFICES ASSUME Init PROVE Inv
    OBVIOUS
<1>1. Idle \in RunRecords /\ Idle.pc = "idle"
      BY BeginType
<1>2. TypeOK
      BY <1>1, ConstantsAssumption DEF Init, TypeOK, RunRecords, Steps, Finished
<1> QED  BY <1>1, <1>2 DEF Init, Inv, WorkInv, WorkAt, OpenInv, AdmittedInv,
                          TriesInv, Steps

LEMMA StepHolds == Inv /\ [Next]_vars => Inv' /\ RowsKept
<1> SUFFICES ASSUME Inv, [Next]_vars PROVE Inv' /\ RowsKept
    OBVIOUS
<1>1. ASSUME NEW i \in Instances, Start(i) \/ BootStep(i) \/ Crash(i)
      PROVE Inv' /\ RowsKept
  <2>1. i \in Runs
        BY DEF Runs
  <2> QED  BY <1>1, <2>1, BootKeeps, CheckKeeps, RegisterKeeps, CrashKeeps
           DEF BootStep
<1>2. ASSUME NEW c \in Provisions,
             Register(c) \/ (\E i \in Instances : Provision(c, i))
      PROVE Inv' /\ RowsKept
  <2>1. c \in Runs
        BY DEF Runs
  <2> QED  BY <1>2, <2>1, RegisterKeeps, ProvisionKeeps
<1>3. ASSUME NEW r \in Requests,
             Find(r) \/ Connect(r) \/ (\E i \in Instances : Ask(r, i))
      PROVE Inv' /\ RowsKept
      BY <1>3, RequestKeeps
<1>4. CASE UNCHANGED vars
  <2>1. UNCHANGED <<row, built>>
        BY <1>4 DEF vars
  <2>2. Inv'
        BY <1>4 DEF vars, Inv, TypeOK, WorkInv, WorkAt, OpenInv,
                     AdmittedInv, TriesInv
  <2> QED  BY <2>1, <2>2, StillKept
<1> QED  BY <1>1, <1>2, <1>3, <1>4 DEF Next

LEMMA InvHolds == Spec => []Inv
<1>1. Init => Inv
      BY InitHolds
<1>2. Inv /\ [Next]_vars => Inv'
      BY StepHolds
<1> QED  BY <1>1, <1>2, PTL DEF Spec

\* The rows, the databases, the processes and the requests are well typed.
THEOREM ProvisioningTypes == Spec => []TypeOK
<1>1. Inv => TypeOK
      BY DEF Inv
<1> QED  BY <1>1, InvHolds, PTL

\* However many processes work on a tenant and wherever they crash or fail, a
\* request is only let in where the whole schema is.
THEOREM ServedSchema == Spec => []ServedHasSchema
<1>1. Inv => ServedHasSchema
      BY ConstantsAssumption DEF Inv, AdmittedInv, OpenInv, ServedHasSchema
<1> QED  BY <1>1, InvHolds, PTL

\* No process sets a tenant back that another one has brought forward.
THEOREM RowsNeverSetBack == Spec => NeverSetBack
<1>1. Inv /\ [Next]_vars => RowsKept
      BY StepHolds
<1>2. RowsKept =>
        \A t \in Tenants : row[t] # NoRow =>
          /\ row'[t] # NoRow
          /\ row[t].status = "active" => row'[t].status = "active"
          /\ row[t].version <= row'[t].version
      BY DEF RowsKept
<1> QED  BY <1>1, <1>2, InvHolds, PTL DEF Spec, NeverSetBack

-----------------------------------------------------------------------------
(* Who is at work, and who is done.                                        *)

AtWork(p) == run[p].pc \in Steps \ {"create"}
Delivered(p) ==
    /\ run[p].id \in Tenants
    /\ row[run[p].id] = [status |-> "active", version |-> 1]
    /\ built[run[p].id] = SchemaLength

\* A process sets to work on its tenant when it has made the row.
SetsToWork(p) ==
    AtWork(p)' =>
      /\ run'[p].id = run[p].id
      /\ \/ AtWork(p)
         \/ /\ row[run[p].id] = NoRow
            /\ \A q \in Runs \ {p} : run'[q] = run[q]

\* A provision is done when its tenant is complete.
GetsDone(p) ==
    (p \in Provisions /\ run'[p].pc = "done") =>
      run'[p] = run[p] \/ Delivered(p)'

LEMMA RegisterProgress ==
  ASSUME Inv, NEW p \in Runs, Register(p), NEW q \in Runs
  PROVE SetsToWork(q) /\ GetsDone(q)
<1>1. TypeOK /\ run[p].pc \in Steps
      BY DEF Inv, Register, Create, InitSchema, Activate, SetVersion, Steps
<1>2. Moves(p)
  <2>1. CASE Create(p)
        BY <1>1, <2>1, AnsweredMoves, GotoMoves DEF Create
  <2>2. CASE InitSchema(p)
    <3>1. run[p] \in RunRecords /\ run[p].next \in 1..SchemaLength /\ SchemaLength \in Nat
          BY <1>1, ConstantsAssumption DEF TypeOK, RunRecords
    <3>2. CASE Goto(p, "failed")
          BY <1>1, <3>2, GotoMoves
    <3>3. CASE run' = [run EXCEPT ![p] = [run[p] EXCEPT !.pc = "activate"]]
          BY <1>1, <3>3 DEF Moves, TypeOK, RunRecords, Steps
    <3>4. CASE /\ run[p].next # SchemaLength
               /\ run' = [run EXCEPT ![p] = [run[p] EXCEPT !.next = run[p].next + 1]]
      <4>1. run[p].next + 1 \in 1..SchemaLength
            BY <3>1, <3>4
      <4> QED  BY <1>1, <3>4, <4>1 DEF Moves, TypeOK, RunRecords
    <3> QED  BY <2>2, <3>2, <3>3, <3>4 DEF InitSchema
  <2>3. CASE Activate(p)
        BY <1>1, <2>3, AnsweredMoves, GotoMoves DEF Activate
  <2>4. CASE SetVersion(p)
        BY <1>1, <2>4, AnsweredMoves, GotoMoves DEF SetVersion
  <2> QED  BY <2>1, <2>2, <2>3, <2>4 DEF Register
<1>3. CASE q # p
      BY <1>2, <1>3 DEF Moves, SetsToWork, GetsDone, AtWork
<1>4. CASE q = p
  <2>1. SetsToWork(p)
    <3>1. CASE run[p].pc # "create"
          BY <1>1, <1>2, <3>1 DEF Moves, SetsToWork, AtWork
    <3>2. CASE Create(p) /\ row[run[p].id] = NoRow
          BY <1>2, <3>2 DEF Moves, SetsToWork
    <3>3. CASE Create(p) /\ row[run[p].id] # NoRow
      <4>1. run'[p].pc = "failed"
            BY <1>1, <3>3, GotoMoves DEF Create, Free
      <4> QED  BY <4>1 DEF SetsToWork, AtWork, Steps
    <3> QED  BY <3>1, <3>2, <3>3 DEF Register, InitSchema, Activate, SetVersion
  <2>2. CASE SetVersion(p) /\ Answered(p, "done")
             /\ row' = [row EXCEPT ![run[p].id].version = 1]
    <3>1. /\ run[p].id \in Tenants /\ row[run[p].id] \in Rows
          /\ row[run[p].id].status = "active" /\ built[run[p].id] = SchemaLength
          BY <1>1, <2>2, RunFacts
          DEF SetVersion, Inv, WorkInv, WorkAt, OpenInv, Steps
    <3>2. row'[run[p].id] = [status |-> "active", version |-> 1]
          BY <1>1, <2>2, <3>1 DEF TypeOK, Rows
    <3>3. built' = built
          BY <2>2 DEF SetVersion
    <3>4. run'[p].id = run[p].id
          BY <1>2 DEF Moves
    <3>5. Delivered(p)'
          BY <3>1, <3>2, <3>3, <3>4 DEF Delivered
    <3> QED  BY <1>4, <2>1, <3>5 DEF GetsDone
  <2>3. CASE run'[p].pc # "done"
        BY <1>4, <2>1, <2>3 DEF GetsDone
  <2>4. SetVersion(p) => \/ /\ Answered(p, "done")
                            /\ row' = [row EXCEPT ![run[p].id].version = 1]
                         \/ Goto(p, "failed")
        BY DEF SetVersion
  <2>5. Goto(p, "failed") => run'[p].pc # "done"
        BY <1>1, GotoMoves
  <2>6. ASSUME ~SetVersion(p) PROVE run'[p].pc # "done"
    <3>1. CASE Create(p)
          BY <1>1, <3>1, AnsweredMoves, GotoMoves DEF Create
    <3>2. CASE InitSchema(p)
          BY <1>1, <2>5, <3>2 DEF InitSchema, TypeOK
    <3>3. CASE Activate(p)
          BY <1>1, <3>3, AnsweredMoves, GotoMoves DEF Activate
    <3> QED  BY <2>6, <3>1, <3>2, <3>3 DEF Register
  <2> QED  BY <1>4, <2>1, <2>2, <2>3, <2>4, <2>5, <2>6
<1> QED  BY <1>3, <1>4

LEMMA StepProgress ==
  ASSUME Inv, [Next]_vars, NEW p \in Runs
  PROVE SetsToWork(p) /\ GetsDone(p)
<1>1. CASE run'[p] = run[p]
      BY <1>1 DEF SetsToWork, GetsDone, AtWork
<1>2. CASE run'[p].pc \in {"idle", "create", "failed"}
      BY <1>2 DEF SetsToWork, GetsDone, AtWork, Steps
<1>3. CASE run'[p].pc = "done" /\ p \notin Provisions
      BY <1>3 DEF SetsToWork, GetsDone, AtWork, Steps
<1>4. ASSUME NEW q \in Runs, Register(q) PROVE SetsToWork(p) /\ GetsDone(p)
      BY <1>4, RegisterProgress
<1>5. ASSUME NEW i \in Instances, Start(i) \/ Dial(i) \/ EnsureControlPlaneSchema(i) \/ Settle(i)
      PROVE run'[p] = run[p]
      BY <1>5 DEF Start, Dial, EnsureControlPlaneSchema, Settle
<1>6. ASSUME NEW i \in Instances, Check(i)
      PROVE \/ run'[p] = run[p]
            \/ run'[p].pc \in {"create", "done"} /\ p \notin Provisions
  <2>1. i \in Runs /\ i \notin Provisions /\ run \in [Runs -> RunRecords]
        BY ConstantsAssumption DEF Runs, Inv, TypeOK, RunRecords
  <2>2. CASE p # i
        BY <1>6, <2>1, <2>2 DEF Check
  <2>3. CASE p = i
    <3>1. \/ run' = run
          \/ run'[i] \in {[Idle EXCEPT !.pc = "done"], Begin(key[i]),
                          [Begin(key[i]) EXCEPT !.pc = "done"]}
          BY <1>6, <2>1 DEF Check
    <3>2. /\ [Idle EXCEPT !.pc = "done"].pc = "done"
          /\ Begin(key[i]).pc = "create"
          /\ [Begin(key[i]) EXCEPT !.pc = "done"].pc = "done"
          BY DEF Idle, Begin
    <3> QED  BY <2>1, <2>3, <3>1, <3>2
  <2> QED  BY <2>2, <2>3
<1>7. ASSUME NEW i \in Instances, Crash(i)
      PROVE run'[p] = run[p] \/ run'[p].pc \in {"idle", "failed"}
  <2>1. run'[p] \in {Idle, [run[p] EXCEPT !.pc = "failed"], run[p]}
        BY <1>7 DEF Crash
  <2>2. [run[p] EXCEPT !.pc = "failed"].pc = "failed" /\ Idle.pc = "idle"
        BY DEF Inv, TypeOK, Idle
  <2> QED  BY <2>1, <2>2
<1>8. ASSUME NEW c \in Provisions, NEW i \in Instances, Provision(c, i)
      PROVE run'[p] = run[p] \/ run'[p].pc \in {"create", "failed"}
  <2>1. c \in Runs
        BY DEF Runs
  <2>2. CASE Goto(c, "failed")
        BY <2>1, <2>2 DEF Goto, Inv, TypeOK
  <2>3. ASSUME NEW z \in ZeroIDs, run' = [run EXCEPT ![c] = Begin(z)]
        PROVE run'[p] = run[p] \/ run'[p].pc \in {"create", "failed"}
    <3>1. Begin(z).pc = "create"
          BY DEF Begin
    <3> QED  BY <2>1, <2>3, <3>1 DEF Inv, TypeOK
  <2> QED  BY <1>8, <2>2, <2>3 DEF Provision, CreateInstance
<1>9. ASSUME NEW r \in Requests, Find(r) \/ Connect(r) \/ (\E i \in Instances : Ask(r, i))
      PROVE run'[p] = run[p]
      BY <1>9 DEF Find, Connect, Ask
<1>10. CASE UNCHANGED vars
       BY <1>1, <1>10 DEF vars
<1> QED  BY <1>1, <1>2, <1>3, <1>4, <1>5, <1>6, <1>7, <1>8, <1>9, <1>10
         DEF Next, BootStep, Runs

\* Insert lets one process through: over any number of processes, and of
\* crashes, no two are at work on one tenant.
THEOREM OneBuilderEach == Spec => []OneBuilder
<1>1. Init => OneBuilder
      BY DEF Init, OneBuilder, Idle, Steps
<1>2. Inv /\ OneBuilder /\ [Next]_vars => OneBuilder'
  <2> SUFFICES ASSUME Inv, OneBuilder, [Next]_vars,
                      NEW p \in Runs, NEW q \in Runs,
                      AtWork(p)', AtWork(q)', run'[p].id = run'[q].id, p # q
               PROVE FALSE
      BY DEF OneBuilder, AtWork
  <2>1. SetsToWork(p) /\ SetsToWork(q)
        BY StepProgress
  <2>2. ASSUME NEW u \in Runs, AtWork(u) PROVE row[run[u].id] # NoRow
        BY <2>2 DEF Inv, WorkInv, WorkAt, AtWork
  <2>3. CASE AtWork(p) /\ AtWork(q)
        BY <2>1, <2>3 DEF SetsToWork, OneBuilder, AtWork
  <2>4. CASE ~AtWork(p)
    <3>1. row[run[p].id] = NoRow /\ run'[q] = run[q] /\ AtWork(q)
          BY <2>1, <2>4 DEF SetsToWork, AtWork
    <3> QED  BY <2>1, <2>2, <3>1 DEF SetsToWork
  <2>5. CASE ~AtWork(q)
    <3>1. row[run[q].id] = NoRow /\ run'[p] = run[p] /\ AtWork(p)
          BY <2>1, <2>5 DEF SetsToWork, AtWork
    <3> QED  BY <2>1, <2>2, <3>1 DEF SetsToWork
  <2> QED  BY <2>3, <2>4, <2>5
<1> QED  BY <1>1, <1>2, InvHolds, PTL DEF Spec

\* A client is given a tenant that is complete, and it stays so.
THEOREM GivenComplete == Spec => []GivenIsComplete
<1> DEFINE Given == \A c \in Provisions : run[c].pc = "done" => Delivered(c)
<1>1. Init => Given
      BY DEF Init, Idle, Runs
<1>2. Inv /\ Given /\ [Next]_vars => Given'
  <2> SUFFICES ASSUME Inv, Given, [Next]_vars,
                      NEW c \in Provisions, run'[c].pc = "done"
               PROVE Delivered(c)'
      OBVIOUS
  <2>1. c \in Runs
        BY DEF Runs
  <2>2. CASE run'[c] = run[c]
    <3> DEFINE t == run[c].id
    <3>1. Delivered(c)
          BY <2>2
    <3>2. RowsKept /\ Inv'
          BY StepHolds
    <3>3. row'[t] \in Rows /\ row[t] # NoRow
          BY <3>1, <3>2, RowsAssumption DEF RowsKept, Inv, TypeOK, Delivered, Rows
    <3>4. row'[t].status = "active" /\ row'[t].version = 1
          BY <3>1, <3>2, <3>3 DEF RowsKept, Delivered, Rows
    <3>5. row'[t] = [status |-> "active", version |-> 1]
          BY <3>3, <3>4 DEF Rows
    <3>6. built'[t] = SchemaLength
          BY <3>1, <3>2, <3>3, <3>4, RowsAssumption DEF Inv, OpenInv, Delivered, Rows
    <3> QED  BY <2>2, <3>1, <3>5, <3>6 DEF Delivered
  <2>3. CASE run'[c] # run[c]
        BY <2>1, <2>3, StepProgress DEF GetsDone
  <2> QED  BY <2>2, <2>3
<1>3. Given => GivenIsComplete
      BY DEF Delivered, GivenIsComplete
<1> QED  BY <1>1, <1>2, <1>3, InvHolds, PTL DEF Spec

=============================================================================
