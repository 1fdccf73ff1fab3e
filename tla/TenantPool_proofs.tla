-------------------------- MODULE TenantPool_proofs --------------------------
(***************************************************************************)
(* The map of the pool holds open handles only, no handle is lost, and the *)
(* limit is kept, for any number of tenants, handles and requests.         *)
(*                                                                         *)
(* The argument: a handle that somebody is about to close has left the     *)
(* map, and never comes back, because each handle was opened for one       *)
(* tenant and only the request that opened it puts it in the map, under    *)
(* the lock it has held since it saw that the tenant had no entry and the  *)
(* limit was not reached.                                                  *)
(***************************************************************************)
EXTENDS TenantPool, TLAPS, FiniteSetTheorems

Pending == evicted \cup closer.conns
             \cup {request[r].conn : r \in {q \in Requests : At(q, "close")}}

\* What a request holds at each point of Get.
RequestsHold ==
    \A r \in Requests :
      /\ ~At(r, "start") => request[r].tenant \in Tenants
      /\ request[r].pc \in {"ping", "touch", "close", "got"} =>
           /\ request[r].conn \in Handles
           /\ dsn[request[r].conn] # NoTenant

\* The dialling request has the lock, and its tenant still has no entry.
DialHasLock ==
    \A r \in Requests : At(r, "dial") => /\ lock = r
                                         /\ request[r].tenant \notin Known

IdleKnown == idle \subseteq Known

\* An entry is an open handle of its own tenant; a pending one is no entry.
EntriesFit ==
    /\ \A t \in Known : /\ dsn[conns[t]] = t
                        /\ conns[t] \in open
                        /\ conns[t] \notin Pending
    /\ \A h \in open \cup Pending : dsn[h] # NoTenant

CloserHolds == closer.pc # "close" => closer.conns = {}

PoolInv == TypeOK /\ RequestsHold /\ DialHasLock /\ IdleKnown /\ EntriesFit
             /\ NoHandleLeaked /\ CloserHolds

LEMMA InitPool == Init => PoolInv
  BY ConstantsAssumption
  DEF Init, PoolInv, TypeOK, Request, RequestsHold, DialHasLock, IdleKnown,
      EntriesFit, NoHandleLeaked, CloserHolds, Known, Entries, Pending, At

\* What Goto does to the requests.
LEMMA GotoStep ==
  ASSUME TypeOK, NEW r \in Requests, NEW pc, NEW h, Goto(r, pc, h),
         pc \in {"start", "ping", "touch", "remove", "close", "open", "dial",
                 "got", "failed"},
         h \in Handles \cup {NoHandle}
  PROVE /\ request' \in [Requests -> Request]
        /\ request'[r].pc = pc
        /\ request'[r].conn = h
        /\ request'[r].tenant = request[r].tenant
        /\ \A q \in Requests \ {r} : request'[q] = request[q]
<1>1. request' = [request EXCEPT ![r] = [request[r] EXCEPT !.pc = pc,
                                                          !.conn = h]]
      BY DEF Goto
<1>2. request[r] \in Request  BY DEF TypeOK
<1>3. [request[r] EXCEPT !.pc = pc, !.conn = h] \in Request
      BY <1>2 DEF Request
<1>4. request'[r] = [request[r] EXCEPT !.pc = pc, !.conn = h]
      BY <1>1 DEF TypeOK
<1>5. /\ request'[r].pc = pc
      /\ request'[r].conn = h
      /\ request'[r].tenant = request[r].tenant
      BY <1>2, <1>4 DEF Request
<1> QED  BY <1>1, <1>3, <1>5 DEF TypeOK

\* The pool invariant is inductive: one step per critical section of Get, of
\* the eviction loop and of Close.
LEMMA StepPool == PoolInv /\ [Next]_vars => PoolInv'
<1> SUFFICES ASSUME PoolInv, [Next]_vars PROVE PoolInv'
    OBVIOUS
<1> USE ConstantsAssumption
    DEF PoolInv, TypeOK, RequestsHold, DialHasLock, IdleKnown,
        EntriesFit, NoHandleLeaked, CloserHolds, Known, Entries, Pending, At
<1>1. ASSUME NEW r \in Requests, Lookup(r) PROVE PoolInv'
  <2>1. PICK t \in Tenants :
          request' = [request EXCEPT ![r] =
                        [pc |-> IF t \in Known THEN "ping" ELSE "open",
                         tenant |-> t, conn |-> conns[t],
                         late |-> closer.pc = "done"]]
        BY <1>1 DEF Lookup
  <2>2. /\ request' \in [Requests -> Request]
        /\ request'[r].pc = IF t \in Known THEN "ping" ELSE "open"
        /\ request'[r].tenant = t
        /\ request'[r].conn = conns[t]
        /\ \A q \in Requests \ {r} : request'[q] = request[q]
        BY <2>1 DEF Request
  <2>3. TypeOK'
        BY <1>1, <2>2 DEF Lookup
  <2>4. RequestsHold'
        BY <1>1, <2>2 DEF Lookup
  <2>5. DialHasLock'
        BY <1>1, <2>2 DEF Lookup
  <2>6. IdleKnown'
        BY <1>1, <2>2 DEF Lookup
  <2>7. EntriesFit'
        BY <1>1, <2>2 DEF Lookup
  <2>8. NoHandleLeaked'
        BY <1>1, <2>2 DEF Lookup
  <2>9. CloserHolds'
        BY <1>1, <2>2 DEF Lookup
  <2> HIDE DEF TypeOK, RequestsHold, DialHasLock, IdleKnown, EntriesFit,
               NoHandleLeaked, CloserHolds
  <2> QED  BY <2>3, <2>4, <2>5, <2>6, <2>7, <2>8, <2>9
<1>2. ASSUME NEW r \in Requests, Ping(r) PROVE PoolInv'
  <2>1. PICK pc \in {"touch", "remove"}, h \in Handles \cup {NoHandle} :
          /\ Goto(r, pc, h)
          /\ pc = "touch" => h = request[r].conn
        BY <1>2 DEF Ping
  <2>2. /\ request' \in [Requests -> Request]
        /\ request'[r].pc = pc
        /\ request'[r].conn = h
        /\ request'[r].tenant = request[r].tenant
        /\ \A q \in Requests \ {r} : request'[q] = request[q]
        BY <2>1, GotoStep
  <2>3. TypeOK'
        BY <1>2, <2>1, <2>2 DEF Ping
  <2>4. RequestsHold'
        BY <1>2, <2>1, <2>2 DEF Ping
  <2>5. DialHasLock'
        BY <1>2, <2>1, <2>2 DEF Ping
  <2>6. IdleKnown'
        BY <1>2, <2>1, <2>2 DEF Ping
  <2>7. EntriesFit'
        BY <1>2, <2>1, <2>2 DEF Ping
  <2>8. NoHandleLeaked'
        BY <1>2, <2>1, <2>2 DEF Ping
  <2>9. CloserHolds'
        BY <1>2, <2>1, <2>2 DEF Ping
  <2> HIDE DEF TypeOK, RequestsHold, DialHasLock, IdleKnown, EntriesFit,
               NoHandleLeaked, CloserHolds
  <2> QED  BY <2>3, <2>4, <2>5, <2>6, <2>7, <2>8, <2>9
<1>3. ASSUME NEW r \in Requests, Touch(r) PROVE PoolInv'
  <2>1. PICK pc \in {"got"}, h \in Handles \cup {NoHandle} :
          /\ Goto(r, pc, h)
          /\ h = (IF request[r].tenant \in Known THEN conns[request[r].tenant]
                  ELSE request[r].conn)
        BY <1>3 DEF Touch
  <2>2. /\ request' \in [Requests -> Request]
        /\ request'[r].pc = pc
        /\ request'[r].conn = h
        /\ request'[r].tenant = request[r].tenant
        /\ \A q \in Requests \ {r} : request'[q] = request[q]
        BY <2>1, GotoStep
  <2>3. TypeOK'
        BY <1>3, <2>1, <2>2 DEF Touch
  <2>4. RequestsHold'
        BY <1>3, <2>1, <2>2 DEF Touch
  <2>5. DialHasLock'
        BY <1>3, <2>1, <2>2 DEF Touch
  <2>6. IdleKnown'
        BY <1>3, <2>1, <2>2 DEF Touch
  <2>7. EntriesFit'
        BY <1>3, <2>1, <2>2 DEF Touch
  <2>8. NoHandleLeaked'
        BY <1>3, <2>1, <2>2 DEF Touch
  <2>9. CloserHolds'
        BY <1>3, <2>1, <2>2 DEF Touch
  <2> HIDE DEF TypeOK, RequestsHold, DialHasLock, IdleKnown, EntriesFit,
               NoHandleLeaked, CloserHolds
  <2> QED  BY <2>3, <2>4, <2>5, <2>6, <2>7, <2>8, <2>9
<1>4. ASSUME NEW r \in Requests, Remove(r) PROVE PoolInv'
  <2>1. PICK pc \in {"close", "open"}, h \in Handles \cup {NoHandle} :
          /\ Goto(r, pc, h)
          /\ /\ pc = (IF request[r].tenant \in Known THEN "close" ELSE "open")
             /\ h = conns[request[r].tenant]
        BY <1>4 DEF Remove
  <2>2. /\ request' \in [Requests -> Request]
        /\ request'[r].pc = pc
        /\ request'[r].conn = h
        /\ request'[r].tenant = request[r].tenant
        /\ \A q \in Requests \ {r} : request'[q] = request[q]
        BY <2>1, GotoStep
  <2>3. TypeOK'
        BY <1>4, <2>1, <2>2 DEF Remove, Drop
  <2>4. RequestsHold'
        BY <1>4, <2>1, <2>2 DEF Remove, Drop
  <2>5. DialHasLock'
        BY <1>4, <2>1, <2>2 DEF Remove, Drop
  <2>6. IdleKnown'
        BY <1>4, <2>1, <2>2 DEF Remove, Drop
  <2>7. EntriesFit'
        BY <1>4, <2>1, <2>2 DEF Remove, Drop
  <2>8. NoHandleLeaked'
    <3>1. ASSUME NEW t \in Known
          PROVE IF t = request[r].tenant
                THEN conns[t] = request'[r].conn /\ request'[r].pc = "close"
                ELSE conns'[t] = conns[t] /\ conns[t] # NoHandle
          BY <1>4, <2>1, <2>2 DEF Remove, Drop
    <3>2. Entries \subseteq Entries'
             \cup {request'[q].conn : q \in {p \in Requests : At(p, "close")'}}
          BY <3>1, <1>4
    <3>3. ASSUME NEW q \in Requests, At(q, "close")
          PROVE At(q, "close")' /\ request'[q].conn = request[q].conn
          BY <1>4, <2>2, <3>3 DEF Remove
    <3>4. UNCHANGED <<open, evicted, closer>>
          BY <1>4 DEF Remove
    <3>5. Pending \subseteq Pending'
          BY <3>3, <3>4
    <3>6. open \subseteq Entries \cup Pending
          OBVIOUS
    <3>7. open' \subseteq Entries' \cup Pending'
          BY <3>2, <3>4, <3>5, <3>6
    <3> QED  BY <3>7
  <2>9. CloserHolds'
        BY <1>4, <2>1, <2>2 DEF Remove, Drop
  <2> HIDE DEF TypeOK, RequestsHold, DialHasLock, IdleKnown, EntriesFit,
               NoHandleLeaked, CloserHolds
  <2> QED  BY <2>3, <2>4, <2>5, <2>6, <2>7, <2>8, <2>9
<1>5. ASSUME NEW r \in Requests, CloseRemoved(r) PROVE PoolInv'
  <2>1. PICK pc \in {"open"}, h \in Handles \cup {NoHandle} :
          Goto(r, pc, h)
        BY <1>5 DEF CloseRemoved
  <2>2. /\ request' \in [Requests -> Request]
        /\ request'[r].pc = pc
        /\ request'[r].conn = h
        /\ request'[r].tenant = request[r].tenant
        /\ \A q \in Requests \ {r} : request'[q] = request[q]
        BY <2>1, GotoStep
  <2>3. TypeOK'
        BY <1>5, <2>1, <2>2 DEF CloseRemoved
  <2>4. RequestsHold'
        BY <1>5, <2>1, <2>2 DEF CloseRemoved
  <2>5. DialHasLock'
        BY <1>5, <2>1, <2>2 DEF CloseRemoved
  <2>6. IdleKnown'
        BY <1>5, <2>1, <2>2 DEF CloseRemoved
  <2>7. EntriesFit'
        BY <1>5, <2>1, <2>2 DEF CloseRemoved
  <2>8. NoHandleLeaked'
        BY <1>5, <2>1, <2>2 DEF CloseRemoved
  <2>9. CloserHolds'
        BY <1>5, <2>1, <2>2 DEF CloseRemoved
  <2> HIDE DEF TypeOK, RequestsHold, DialHasLock, IdleKnown, EntriesFit,
               NoHandleLeaked, CloserHolds
  <2> QED  BY <2>3, <2>4, <2>5, <2>6, <2>7, <2>8, <2>9
<1>6. ASSUME NEW r \in Requests, FindOrDial(r) PROVE PoolInv'
  <2>1. PICK pc \in {"got", "failed", "dial"}, h \in Handles \cup {NoHandle} :
          /\ Goto(r, pc, h)
          /\ /\ pc = "got" <=> request[r].tenant \in Known
             /\ pc = "got" => h = conns[request[r].tenant]
             /\ lock' = (IF pc = "dial" THEN r ELSE lock)
        BY <1>6 DEF FindOrDial
  <2>2. /\ request' \in [Requests -> Request]
        /\ request'[r].pc = pc
        /\ request'[r].conn = h
        /\ request'[r].tenant = request[r].tenant
        /\ \A q \in Requests \ {r} : request'[q] = request[q]
        BY <2>1, GotoStep
  <2>3. TypeOK'
        BY <1>6, <2>1, <2>2 DEF FindOrDial
  <2>4. RequestsHold'
        BY <1>6, <2>1, <2>2 DEF FindOrDial
  <2>5. DialHasLock'
        BY <1>6, <2>1, <2>2 DEF FindOrDial
  <2>6. IdleKnown'
        BY <1>6, <2>1, <2>2 DEF FindOrDial
  <2>7. EntriesFit'
        BY <1>6, <2>1, <2>2 DEF FindOrDial
  <2>8. NoHandleLeaked'
        BY <1>6, <2>1, <2>2 DEF FindOrDial
  <2>9. CloserHolds'
        BY <1>6, <2>1, <2>2 DEF FindOrDial
  <2> HIDE DEF TypeOK, RequestsHold, DialHasLock, IdleKnown, EntriesFit,
               NoHandleLeaked, CloserHolds
  <2> QED  BY <2>3, <2>4, <2>5, <2>6, <2>7, <2>8, <2>9
<1>7. ASSUME NEW r \in Requests, Dial(r) PROVE PoolInv'
  <2>1. PICK pc \in {"got", "failed"}, h \in Handles \cup {NoHandle} :
          /\ Goto(r, pc, h)
          /\ pc = "got" =>
               /\ h \in UnusedHandles
               /\ dsn' = [dsn EXCEPT ![h] = request[r].tenant]
               /\ open' = open \cup {h}
               /\ conns' = [conns EXCEPT ![request[r].tenant] = h]
        BY <1>7 DEF Dial, UnusedHandles
  <2>2. /\ request' \in [Requests -> Request]
        /\ request'[r].pc = pc
        /\ request'[r].conn = h
        /\ request'[r].tenant = request[r].tenant
        /\ \A q \in Requests \ {r} : request'[q] = request[q]
        BY <2>1, GotoStep
  <2>3. TypeOK'
        BY <1>7, <2>1, <2>2 DEF Dial, UnusedHandles
  <2>4. RequestsHold'
        BY <1>7, <2>1, <2>2 DEF Dial, UnusedHandles
  <2>5. DialHasLock'
        BY <1>7, <2>1, <2>2 DEF Dial, UnusedHandles
  <2>6. IdleKnown'
        BY <1>7, <2>1, <2>2 DEF Dial, UnusedHandles
  <2>7. EntriesFit'
        BY <1>7, <2>1, <2>2 DEF Dial, UnusedHandles
  <2>8. NoHandleLeaked'
        BY <1>7, <2>1, <2>2 DEF Dial, UnusedHandles
  <2>9. CloserHolds'
        BY <1>7, <2>1, <2>2 DEF Dial, UnusedHandles
  <2> HIDE DEF TypeOK, RequestsHold, DialHasLock, IdleKnown, EntriesFit,
               NoHandleLeaked, CloserHolds
  <2> QED  BY <2>3, <2>4, <2>5, <2>6, <2>7, <2>8, <2>9
<1>8. ASSUME NEW t \in Tenants, Age(t) PROVE PoolInv'
  <2>1. TypeOK /\ EntriesFit /\ NoHandleLeaked /\ IdleKnown
        OBVIOUS
  <2>2. idle' \subseteq Known /\ idle' \subseteq Tenants
        BY <1>8 DEF Age
  <2>3. UNCHANGED <<conns, lock, dsn, open, request, evicted, closer>>
        BY <1>8 DEF Age
  <2> QED  BY <2>1, <2>2, <2>3
<1>9. CASE EvictIdle
      BY <1>9 DEF EvictIdle, Drop
<1>10. ASSUME NEW h \in Handles, CloseEvicted(h) PROVE PoolInv'
      BY <1>10 DEF CloseEvicted
<1>11. CASE Stop
      BY <1>11 DEF Stop
<1>12. CASE CloseAll
  <2>1. TypeOK'
        BY <1>12 DEF CloseAll, Drop
  <2>2. RequestsHold'
        BY <1>12 DEF CloseAll, Drop
  <2>3. DialHasLock'
        BY <1>12 DEF CloseAll, Drop
  <2>4. IdleKnown'
        BY <1>12 DEF CloseAll, Drop
  <2>5. EntriesFit'
        BY <1>12 DEF CloseAll, Drop
  <2>6. NoHandleLeaked'
        BY <1>12 DEF CloseAll, Drop
  <2>7. CloserHolds'
        BY <1>12 DEF CloseAll, Drop
  <2> HIDE DEF TypeOK, RequestsHold, DialHasLock, IdleKnown, EntriesFit,
               NoHandleLeaked, CloserHolds
  <2> QED  BY <2>1, <2>2, <2>3, <2>4, <2>5, <2>6, <2>7
<1>13. CASE CloseNext
      BY <1>13 DEF CloseNext
<1>14. CASE UNCHANGED vars
      BY <1>14 DEF vars
<1> HIDE DEF PoolInv
<1> QED
    BY <1>1, <1>2, <1>3, <1>4, <1>5, <1>6, <1>7, <1>8, <1>9, <1>10, <1>11,
       <1>12, <1>13, <1>14 DEF Next, Get

LEMMA PoolInvariant == Spec => []PoolInv
<1>1. PoolInv /\ [Next]_vars => PoolInv'  BY StepPool
<1> QED  BY InitPool, <1>1, PTL DEF Spec

\* The pool is well typed whatever its callers do.
THEOREM PoolTypes == Spec => []TypeOK
<1>1. PoolInv => TypeOK  BY DEF PoolInv
<1> QED  BY PoolInvariant, <1>1, PTL

\* Get, the eviction loop and Close never leave a closed handle in the map.
THEOREM EntriesStayOpen == Spec => []EntriesAreOpen
<1>1. PoolInv => EntriesAreOpen
      BY DEF PoolInv, EntriesFit, EntriesAreOpen, Entries, Known
<1> QED  BY PoolInvariant, <1>1, PTL

\* Every handle ever opened is closed, in the map, or about to be closed.
THEOREM NoLeak == Spec => []NoHandleLeaked
<1>1. PoolInv => NoHandleLeaked  BY DEF PoolInv
<1> QED  BY PoolInvariant, <1>1, PTL

-----------------------------------------------------------------------------
(* The limit                                                               *)

LimitInv ==
    /\ LimitKept
    /\ lock # Nobody => Cardinality(Known) < TotalLimit

\* Only a dial adds an entry, and only FindOrDial takes the lock.
LEMMA KnownStep ==
  ASSUME PoolInv, [Next]_vars
  PROVE \/ /\ Known' \subseteq Known
           /\ \/ lock' = Nobody
              \/ lock' = lock /\ Known' = Known
              \/ Known' = Known /\ Cardinality(Known) < TotalLimit
        \/ /\ lock # Nobody /\ lock' = Nobody
           /\ \E t \in Tenants : Known' = Known \cup {t}
<1> USE DEF Known
<1>0. lock \in Requests \cup {Nobody} /\ conns \in [Tenants -> Handles \cup {NoHandle}]
      BY DEF PoolInv, TypeOK
<1>1. ASSUME NEW r \in Requests, Dial(r)
      PROVE \/ Known' = Known /\ lock' = Nobody
            \/ /\ lock # Nobody /\ lock' = Nobody
               /\ \E t \in Tenants : Known' = Known \cup {t}
  <2>1. lock = r /\ request[r].tenant \in Tenants /\ lock' = Nobody /\ r # Nobody
        BY <1>1, ConstantsAssumption DEF Dial, PoolInv, DialHasLock, RequestsHold, At
  <2>2. CASE UNCHANGED conns
        BY <2>1, <2>2
  <2>3. CASE \E h \in UnusedHandles :
               conns' = [conns EXCEPT ![request[r].tenant] = h]
    <3>1. Known' = Known \cup {request[r].tenant}
          BY <1>0, <2>1, <2>3, ConstantsAssumption DEF UnusedHandles
    <3> QED  BY <2>1, <3>1
  <2> QED  BY <1>1, <2>2, <2>3 DEF Dial
<1>2. ASSUME NEW r \in Requests, FindOrDial(r)
      PROVE /\ Known' = Known
            /\ lock' = lock \/ Cardinality(Known) < TotalLimit
  <2>1. Cardinality(Known) \in Nat /\ TotalLimit \in Nat
        BY ConstantsAssumption, FS_Subset, FS_CardinalityType
  <2> QED  BY <1>2, <2>1 DEF FindOrDial
<1>3. ASSUME NEW r \in Requests, Remove(r) PROVE Known' \subseteq Known /\ lock' = lock /\ lock = Nobody
      BY <1>0, <1>3 DEF Remove, Drop
<1>4. CASE EvictIdle
      BY <1>0, <1>4 DEF EvictIdle, Drop
<1>5. CASE CloseAll
      BY <1>0, <1>5 DEF CloseAll, Drop
<1>6. CASE UNCHANGED <<conns, lock>>
      BY <1>6
<1>7. \/ \E r \in Requests : Dial(r) \/ FindOrDial(r) \/ Remove(r)
      \/ EvictIdle \/ CloseAll \/ UNCHANGED <<conns, lock>>
      BY DEF Next, Get, Lookup, Ping, Touch, CloseRemoved, Age, CloseEvicted,
             Stop, CloseNext, vars
<1> QED  BY <1>1, <1>2, <1>3, <1>4, <1>5, <1>6, <1>7

\* The pool never holds more entries than its limit: the request that adds one
\* has held the lock since it counted them.
THEOREM LimitHolds == Spec => []LimitKept
<1>1. Init => LimitInv
  <2>1. ASSUME Init PROVE Known = {}
        BY <2>1 DEF Init, Known
  <2> QED  BY <2>1, FS_EmptySet, ConstantsAssumption DEF Init, LimitInv, LimitKept
<1>2. PoolInv /\ LimitInv /\ [Next]_vars => LimitInv'
  <2> SUFFICES ASSUME PoolInv, LimitInv, [Next]_vars PROVE LimitInv'
      OBVIOUS
  <2>1. IsFiniteSet(Known) /\ Cardinality(Known) \in Nat /\ TotalLimit \in Nat
        BY ConstantsAssumption, FS_Subset, FS_CardinalityType DEF Known
  <2>2. ASSUME Known' \subseteq Known
        PROVE Cardinality(Known') <= Cardinality(Known)
        BY <2>1, <2>2, FS_Subset
  <2>3. ASSUME NEW t \in Tenants, Known' = Known \cup {t}
        PROVE Cardinality(Known') <= Cardinality(Known) + 1
        BY <2>1, <2>3, FS_AddElement
  <2>4. IsFiniteSet(Known') /\ Cardinality(Known') \in Nat
        BY ConstantsAssumption, FS_Subset, FS_CardinalityType DEF Known
  <2> QED
      BY <2>1, <2>2, <2>3, <2>4, KnownStep DEF LimitInv, LimitKept
<1>3. LimitInv => LimitKept  BY DEF LimitInv
<1> QED  BY <1>1, <1>2, <1>3, PoolInvariant, PTL DEF Spec

=============================================================================
