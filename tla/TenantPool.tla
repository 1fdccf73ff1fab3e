------------------------------ MODULE TenantPool ------------------------------
(***************************************************************************)
(* The pool of database handles, one per tenant, shared by the requests    *)
(* that resolve a tenant, the eviction loop and the shutdown.              *)
(*                                                                         *)
(* A request looks its tenant up under the read lock, pings the handle it  *)
(* finds without a lock, and takes the lock again: to note the use, or to  *)
(* throw the entry out and open another.  It keeps the lock while it dials *)
(* the new handle.  Handles are closed after the lock is released.         *)
(*                                                                         *)
(* Some definitions are preceded by a variant of themselves with one slip  *)
(* in it.  No action uses them: they show that the properties notice.      *)
(***************************************************************************)
EXTENDS Naturals, FiniteSets

CONSTANTS
    Tenants,
    NoTenant,
    Handles,     \* the *sql.DB values ever opened (a bound for TLC)
    NoHandle,
    Requests,    \* calls of Get, each made once
    Nobody,
    TotalLimit,  \* PoolConfig.TotalLimit
    Faults       \* "unreachable": a ping may fail;  "close": the server stops

ASSUME ConstantsAssumption ==
    /\ NoTenant \notin Tenants
    /\ NoHandle \notin Handles
    /\ Nobody \notin Requests
    /\ IsFiniteSet(Tenants)
    /\ TotalLimit \in Nat
    /\ Faults \subseteq {"unreachable", "close"}

VARIABLES
    conns,    \* the map: the handle of each tenant
    idle,     \* tenants whose entry was last used idleTimeout ago
    lock,     \* the request that dials while it holds p.mu
    dsn,      \* the tenant each handle was opened for
    open,     \* handles opened and not closed
    request,  \* the requests
    evicted,  \* handles the eviction loop has yet to close
    closer    \* Close: where it is and which handles it has yet to close

vars == <<conns, idle, lock, dsn, open, request, evicted, closer>>

Request == [pc : {"start", "ping", "touch", "remove", "close", "open", "dial",
                  "got", "failed"},
            tenant : Tenants \cup {NoTenant}, conn : Handles \cup {NoHandle},
            late : BOOLEAN]

TypeOK ==
    /\ conns \in [Tenants -> Handles \cup {NoHandle}]
    /\ idle \subseteq Tenants
    /\ lock \in Requests \cup {Nobody}
    /\ dsn \in [Handles -> Tenants \cup {NoTenant}]
    /\ open \subseteq Handles
    /\ request \in [Requests -> Request]
    /\ evicted \subseteq Handles
    /\ closer \in [pc : {"run", "stop", "close", "done"}, conns : SUBSET Handles]

Init ==
    /\ conns = [t \in Tenants |-> NoHandle]
    /\ idle = {}
    /\ lock = Nobody
    /\ dsn = [h \in Handles |-> NoTenant]
    /\ open = {}
    /\ request = [r \in Requests |-> [pc |-> "start", tenant |-> NoTenant,
                                      conn |-> NoHandle, late |-> FALSE]]
    /\ evicted = {}
    /\ closer = [pc |-> "run", conns |-> {}]

Known == {t \in Tenants : conns[t] # NoHandle}
Entries == {conns[t] : t \in Known}
UnusedHandles == {h \in Handles : dsn[h] = NoTenant}

At(r, pc) == request[r].pc = pc
Goto(r, pc, h) == request' = [request EXCEPT ![r] = [@ EXCEPT !.pc = pc,
                                                             !.conn = h]]
Drop(T) == [t \in Tenants |-> IF t \in T THEN NoHandle ELSE conns[t]]

-----------------------------------------------------------------------------
(* Get                                                                     *)

Lookup(r) ==
    /\ At(r, "start")
    /\ lock = Nobody
    /\ \E t \in Tenants :
         request' = [request EXCEPT ![r] =
                       [pc |-> IF t \in Known THEN "ping" ELSE "open",
                        tenant |-> t, conn |-> conns[t],
                        late |-> closer.pc = "done"]]
    /\ UNCHANGED <<conns, idle, lock, dsn, open, evicted, closer>>

\* Nothing keeps the handle from being closed before or during the ping.
Ping(r) ==
    /\ At(r, "ping")
    /\ \/ request[r].conn \in open /\ Goto(r, "touch", request[r].conn)
       \/ /\ request[r].conn \notin open \/ "unreachable" \in Faults
          /\ Goto(r, "remove", NoHandle)
    /\ UNCHANGED <<conns, idle, lock, dsn, open, evicted, closer>>

TouchPinged(r) ==
    /\ At(r, "touch")
    /\ lock = Nobody
    /\ conns' = [conns EXCEPT ![request[r].tenant] = request[r].conn]
    /\ idle' = idle \ {request[r].tenant}
    /\ Goto(r, "got", request[r].conn)
    /\ UNCHANGED <<lock, dsn, open, evicted, closer>>

\* The entry may be gone, or another handle, by now.
Touch(r) ==
    /\ At(r, "touch")
    /\ lock = Nobody
    /\ IF request[r].tenant \in Known
       THEN /\ idle' = idle \ {request[r].tenant}
            /\ Goto(r, "got", conns[request[r].tenant])
       ELSE /\ UNCHANGED idle
            /\ Goto(r, "got", request[r].conn)
    /\ UNCHANGED <<conns, lock, dsn, open, evicted, closer>>

\* Remove takes whatever the map holds now, not the handle that was pinged.
Remove(r) ==
    /\ At(r, "remove")
    /\ lock = Nobody
    /\ conns' = Drop({request[r].tenant})
    /\ idle' = idle \ {request[r].tenant}
    /\ Goto(r, IF request[r].tenant \in Known THEN "close" ELSE "open",
            conns[request[r].tenant])
    /\ UNCHANGED <<lock, dsn, open, evicted, closer>>

CloseRemoved(r) ==
    /\ At(r, "close")
    /\ open' = open \ {request[r].conn}
    /\ Goto(r, "open", NoHandle)
    /\ UNCHANGED <<conns, idle, lock, dsn, evicted, closer>>

DialOneMore(r) ==
    /\ At(r, "open")
    /\ lock = Nobody
    /\ LET t == request[r].tenant
       IN CASE t \in Known ->
                 /\ idle' = idle \ {t}
                 /\ Goto(r, "got", conns[t])
                 /\ UNCHANGED lock
            [] t \notin Known /\ Cardinality(Known) > TotalLimit ->
                 /\ Goto(r, "failed", NoHandle)
                 /\ UNCHANGED <<idle, lock>>
            [] OTHER ->
                 /\ lock' = r
                 /\ Goto(r, "dial", NoHandle)
                 /\ UNCHANGED idle
    /\ UNCHANGED <<conns, dsn, open, evicted, closer>>

FailLocked(r) ==
    /\ At(r, "open")
    /\ lock = Nobody
    /\ LET t == request[r].tenant
       IN IF t \in Known
          THEN /\ idle' = idle \ {t}
               /\ Goto(r, "got", conns[t])
               /\ UNCHANGED lock
          ELSE /\ lock' = r
               /\ Goto(r, IF Cardinality(Known) >= TotalLimit THEN "failed"
                          ELSE "dial", NoHandle)
               /\ UNCHANGED idle
    /\ UNCHANGED <<conns, dsn, open, evicted, closer>>

\* Under the lock: an entry another request made meanwhile, the limit, or a
\* new handle, for which the lock is kept.
FindOrDial(r) ==
    /\ At(r, "open")
    /\ lock = Nobody
    /\ LET t == request[r].tenant
       IN CASE t \in Known ->
                 /\ idle' = idle \ {t}
                 /\ Goto(r, "got", conns[t])
                 /\ UNCHANGED lock
            [] t \notin Known /\ Cardinality(Known) >= TotalLimit ->
                 /\ Goto(r, "failed", NoHandle)
                 /\ UNCHANGED <<idle, lock>>
            [] OTHER ->
                 /\ lock' = r
                 /\ Goto(r, "dial", NoHandle)
                 /\ UNCHANGED idle
    /\ UNCHANGED <<conns, dsn, open, evicted, closer>>

DialLeavingOpen(r) ==
    /\ At(r, "dial")
    /\ \E h \in UnusedHandles :
          /\ dsn' = [dsn EXCEPT ![h] = request[r].tenant]
          /\ open' = open \cup {h}
          /\ \/ /\ conns' = [conns EXCEPT ![request[r].tenant] = h]
                /\ Goto(r, "got", h)
             \/ /\ "unreachable" \in Faults
                /\ Goto(r, "failed", NoHandle)
                /\ UNCHANGED conns
    /\ lock' = Nobody
    /\ UNCHANGED <<idle, evicted, closer>>

DialFailLocked(r) ==
    /\ At(r, "dial")
    /\ \/ \E h \in UnusedHandles :
            /\ dsn' = [dsn EXCEPT ![h] = request[r].tenant]
            /\ open' = open \cup {h}
            /\ conns' = [conns EXCEPT ![request[r].tenant] = h]
            /\ Goto(r, "got", h)
            /\ lock' = Nobody
       \/ /\ "unreachable" \in Faults
          /\ Goto(r, "failed", NoHandle)
          /\ UNCHANGED <<conns, lock, dsn, open>>
    /\ UNCHANGED <<idle, evicted, closer>>

\* sql.Open, the first ping, and the new entry if it answers.
Dial(r) ==
    /\ At(r, "dial")
    /\ \/ \E h \in UnusedHandles :
            /\ dsn' = [dsn EXCEPT ![h] = request[r].tenant]
            /\ open' = open \cup {h}
            /\ conns' = [conns EXCEPT ![request[r].tenant] = h]
            /\ Goto(r, "got", h)
       \/ /\ "unreachable" \in Faults
          /\ Goto(r, "failed", NoHandle)
          /\ UNCHANGED <<conns, dsn, open>>
    /\ lock' = Nobody
    /\ UNCHANGED <<idle, evicted, closer>>

Get(r) ==
    \/ Lookup(r) \/ Ping(r) \/ Touch(r) \/ Remove(r) \/ CloseRemoved(r)
    \/ FindOrDial(r) \/ Dial(r)

-----------------------------------------------------------------------------
(* The eviction loop and Close                                             *)

\* idleTimeout passes since the entry was last used.
Age(t) ==
    /\ t \in Known
    /\ idle' = idle \cup {t}
    /\ UNCHANGED <<conns, lock, dsn, open, request, evicted, closer>>

EvictIdle ==
    /\ lock = Nobody
    /\ evicted = {}
    /\ idle # {}
    /\ evicted' = {conns[t] : t \in idle}
    /\ conns' = Drop(idle)
    /\ idle' = {}
    /\ UNCHANGED <<lock, dsn, open, request, closer>>

CloseEvicted(h) ==
    /\ h \in evicted
    /\ open' = open \ {h}
    /\ evicted' = evicted \ {h}
    /\ UNCHANGED <<conns, idle, lock, dsn, request, closer>>

\* The server stops: Close ends the eviction loop and empties the map.
Stop ==
    /\ "close" \in Faults
    /\ closer.pc = "run"
    /\ closer' = [closer EXCEPT !.pc = "stop"]
    /\ UNCHANGED <<conns, idle, lock, dsn, open, request, evicted>>

CloseAll ==
    /\ closer.pc = "stop"
    /\ lock = Nobody
    /\ closer' = [pc |-> "close", conns |-> Entries]
    /\ conns' = Drop(Tenants)
    /\ idle' = {}
    /\ UNCHANGED <<lock, dsn, open, request, evicted>>

CloseNext ==
    /\ closer.pc = "close"
    /\ IF closer.conns = {}
       THEN /\ closer' = [closer EXCEPT !.pc = "done"]
            /\ UNCHANGED open
       ELSE \E h \in closer.conns :
              /\ open' = open \ {h}
              /\ closer' = [closer EXCEPT !.conns = @ \ {h}]
    /\ UNCHANGED <<conns, idle, lock, dsn, request, evicted>>

Next ==
    \/ \E r \in Requests : Get(r)
    \/ \E t \in Tenants : Age(t)
    \/ EvictIdle
    \/ \E h \in Handles : CloseEvicted(h)
    \/ Stop \/ CloseAll \/ CloseNext

Spec == Init /\ [][Next]_vars

(***************************************************************************)
(* A mutex of Go is handed over in turn, hence strong fairness for a       *)
(* request that waits for it; pings and dials end, if only because the     *)
(* connection times out.                                                   *)
(***************************************************************************)
Fairness == \A r \in Requests : SF_vars(Get(r))

FairSpec == Spec /\ Fairness

-----------------------------------------------------------------------------
(* Properties                                                              *)

\* The map never holds a closed handle, whoever removes, evicts and closes
\* at the same time: Get returns an entry it finds under the lock unpinged.
EntriesAreOpen == Entries \subseteq open

\* Every open handle is an entry, or somebody is about to close it: no race
\* of two requests, of a request and the eviction loop, or of a request and
\* Close loses a handle with its connections.
NoHandleLeaked ==
    open \subseteq
           Entries \cup evicted \cup closer.conns
             \cup {request[r].conn : r \in {q \in Requests : At(q, "close")}}

\* The limit counts the entries, checked and added under one lock.
LimitKept == Cardinality(Known) <= TotalLimit

\* A request that asks a pool after Close gets an error.
ClosedPoolGivesNone ==
    \A r \in Requests : At(r, "got") => ~request[r].late

\* No request waits for ever on the mutex, whatever the others do with it.
Answered == \A r \in Requests : <>(At(r, "got") \/ At(r, "failed"))

=============================================================================
