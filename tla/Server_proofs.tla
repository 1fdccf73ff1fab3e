----------------------------- MODULE Server_proofs -----------------------------
(***************************************************************************)
(* The server runs the pool as TenantPool describes it, so that what is    *)
(* proved of the pool holds in the server; requests are never served from  *)
(* a dead handle or another tenant's database; and the shutdown leaves the *)
(* pool empty.  For any number of tenants, handles and requests.           *)
(***************************************************************************)
EXTENDS Server, TenantPool_proofs

\* The steps of the server that are steps of the pool.
LEMMA ServerStep == ServerNext => [Next]_vars
<1> SUFFICES ASSUME ServerNext PROVE [Next]_vars
    OBVIOUS
<1>1. CASE Build \/ Ready \/ Signal \/ CloseControlPlane \/ Exit
      BY <1>1 DEF Build, Ready, Signal, CloseControlPlane, Exit
<1>2. ASSUME NEW r \in Requests,
             \/ \E kind \in Http : Arrive(r, kind)
             \/ Claim(r) \/ Authenticate(r) \/ Resolve(r) \/ Finish(r)
      PROVE UNCHANGED vars
      BY <1>2 DEF Arrive, Claim, Authenticate, Resolve, Finish
<1>3. ASSUME NEW r \in Requests, GetHandle(r) PROVE Next
      BY <1>3 DEF GetHandle, Next
<1>4. CASE Drained \/ Expired
      BY <1>4 DEF Drained, Expired, ClosePool, Next
<1>5. CASE PoolStep
      BY <1>5 DEF PoolStep, Next
<1> QED  BY <1>1, <1>2, <1>3, <1>4, <1>5 DEF ServerNext

\* The composed server, seen from the pool, is a pool: callers, eviction and
\* the shutdown use it by its own steps only.
THEOREM ServerRunsPool == ServerSpec => Spec
<1>1. ServerInit => Init
      BY DEF ServerInit
<1>2. [ServerNext]_allVars => [Next]_vars
      BY ServerStep DEF allVars
<1> QED  BY <1>1, <1>2, PTL DEF ServerSpec, Spec

\* What is proved of the pool alone holds in the server.
THEOREM ServerKeepsPool ==
    ServerSpec => [](EntriesAreOpen /\ NoHandleLeaked /\ LimitKept)
  BY ServerRunsPool, EntriesStayOpen, NoLeak, LimitHolds, PTL

-----------------------------------------------------------------------------
(* Types                                                                   *)

LEMMA InitServerTypes == ServerInit => ServerTypeOK
  BY DEF ServerInit, ServerTypeOK, Call, NoCall

LEMMA StepServerTypes ==
  ASSUME PoolInv, ServerTypeOK, [ServerNext]_allVars
  PROVE ServerTypeOK'
<1> USE DEF ServerTypeOK
<1>0. \A pc \in {"new", "done"} : NoCall(pc) \in Call
      BY DEF NoCall, Call
<1>1. CASE Build \/ Ready
      BY <1>1 DEF Build, Ready
<1>2. ASSUME NEW r \in Requests, NEW kind \in Http, Arrive(r, kind)
      PROVE ServerTypeOK'
  <2>1. [call[r] EXCEPT !.pc = "auth", !.kind = kind, !.dead = Closed] \in Call
        BY DEF Call, Closed
  <2> QED  BY <1>0, <1>2, <2>1 DEF Arrive, End
<1>3. ASSUME NEW r \in Requests, Claim(r) PROVE ServerTypeOK'
  <2>1. [call[r] EXCEPT !.pc = "auth", !.kind = "task", !.dead = Closed] \in Call
        BY DEF Call, Closed
  <2> QED  BY <1>3, <2>1 DEF Claim
<1>4. ASSUME NEW r \in Requests, Authenticate(r) PROVE ServerTypeOK'
  <2>1. [call[r] EXCEPT !.pc = "get"] \in Call
        BY DEF Call
  <2> QED  BY <1>0, <1>4, <2>1 DEF Authenticate, End
<1>5. ASSUME NEW r \in Requests, GetHandle(r) PROVE ServerTypeOK'
      BY <1>0, <1>5 DEF GetHandle, End
<1>6. ASSUME NEW r \in Requests, Resolve(r) PROVE ServerTypeOK'
  <2>1. /\ request[r].tenant \in Tenants
        /\ request[r].conn \in Handles
        BY <1>6 DEF Resolve, PoolInv, RequestsHold, At
  <2>2. Key(request[r].tenant, request[r].conn) \in Keys
        BY <2>1 DEF Key, Keys
  <2>3. ASSUME NEW h \in Handles \cup {NoHandle}, NEW pc \in {"work", "detached"}
        PROVE [call[r] EXCEPT !.pc = pc, !.conn = h] \in Call
        BY DEF Call
  <2>4. call' \in [Requests -> Call]
        BY <1>6, <2>1, <2>2, <2>3 DEF Resolve
  <2>5. cache' \in [Keys -> Handles \cup {NoHandle}]
        BY <1>6, <2>1 DEF Resolve
  <2> QED  BY <1>6, <2>4, <2>5 DEF Resolve
<1>7. ASSUME NEW r \in Requests, Finish(r) PROVE ServerTypeOK'
      BY <1>0, <1>7 DEF Finish, End
<1>8. CASE Signal
      BY <1>8 DEF Signal
<1>9. CASE Drained \/ Expired
      BY <1>9 DEF Drained, Expired, ClosePool
<1>10. CASE CloseControlPlane
      BY <1>10 DEF CloseControlPlane
<1>11. CASE Exit
      BY <1>0, <1>11 DEF Exit
<1>12. CASE PoolStep
      BY <1>12 DEF PoolStep, serverVars
<1>13. CASE UNCHANGED allVars
      BY <1>13 DEF allVars, serverVars
<1> QED
    BY <1>1, <1>2, <1>3, <1>4, <1>5, <1>6, <1>7, <1>8, <1>9, <1>10, <1>11,
       <1>12, <1>13 DEF ServerNext

\* Calls, cache and shutdown are well typed at every step of the server.
THEOREM ServerTypes == ServerSpec => []ServerTypeOK
<1>1. ServerInit => ServerTypeOK  BY InitServerTypes
<1>2. PoolInv /\ ServerTypeOK /\ [ServerNext]_allVars => ServerTypeOK'
      BY StepServerTypes
<1> QED  BY <1>1, <1>2, ServerRunsPool, PoolInvariant, PTL DEF ServerSpec

-----------------------------------------------------------------------------
(* Handles and services                                                    *)

\* The handle a request looks at was opened for its tenant.
HandlesFit ==
    \A r \in Requests :
       request[r].pc \in {"ping", "touch", "got"} =>
          dsn[request[r].conn] = request[r].tenant

\* No handle is opened for another tenant later, or opened again.
LEMMA HandleStep ==
  ASSUME PoolInv, [Next]_vars, NEW h \in Handles, dsn[h] # NoTenant
  PROVE /\ dsn'[h] = dsn[h]
        /\ h \notin open => h \notin open'
<1> USE DEF PoolInv, TypeOK
<1>1. ASSUME NEW r \in Requests, Dial(r)
      PROVE /\ dsn'[h] = dsn[h]
            /\ h \notin open => h \notin open'
      BY <1>1 DEF Dial, UnusedHandles
<1>2. ASSUME NEW r \in Requests, Get(r), ~Dial(r)
      PROVE dsn' = dsn /\ open' \subseteq open
      BY <1>2 DEF Get, Lookup, Ping, Touch, Remove, CloseRemoved, FindOrDial
<1>3. CASE \/ \E t \in Tenants : Age(t)
           \/ EvictIdle \/ \E g \in Handles : CloseEvicted(g)
           \/ Stop \/ CloseAll \/ CloseNext \/ UNCHANGED vars
  <2>1. dsn' = dsn /\ open' \subseteq open
        BY <1>3 DEF Age, EvictIdle, CloseEvicted, Stop, CloseAll, CloseNext, vars
  <2> QED  BY <2>1
<1> QED  BY <1>1, <1>2, <1>3 DEF Next

\* What a step of the pool does to the handle a request looks at: it is the
\* one it looked at, or an open one, of the request's tenant either way.
LEMMA GetStep ==
  ASSUME PoolInv, HandlesFit, NEW r \in Requests, Get(r),
         request'[r].pc \in {"ping", "touch", "got"}
  PROVE /\ request'[r].conn \in Handles
        /\ dsn'[request'[r].conn] = request'[r].tenant
        /\ \/ request'[r].conn \in open'
           \/ /\ request[r].pc \in {"ping", "touch"}
              /\ request'[r].conn = request[r].conn
<1> USE ConstantsAssumption
    DEF PoolInv, TypeOK, RequestsHold, EntriesFit, HandlesFit, Known, At
<1>1. CASE Lookup(r)
  <2>1. PICK t \in Tenants :
          request' = [request EXCEPT ![r] =
                        [pc |-> IF t \in Known THEN "ping" ELSE "open",
                         tenant |-> t, conn |-> conns[t],
                         late |-> closer.pc = "done"]]
        BY <1>1 DEF Lookup
  <2>2. /\ request'[r].pc = IF t \in Known THEN "ping" ELSE "open"
        /\ request'[r].tenant = t
        /\ request'[r].conn = conns[t]
        BY <2>1
  <2> QED  BY <1>1, <2>2 DEF Lookup
<1>2. CASE Ping(r)
  <2>1. Goto(r, "touch", request[r].conn) \/ Goto(r, "remove", NoHandle)
        BY <1>2 DEF Ping
  <2>2. request[r].pc = "ping" /\ request[r].conn \in Handles /\ UNCHANGED dsn
        BY <1>2 DEF Ping
  <2>3. CASE Goto(r, "touch", request[r].conn)
    <3>1. request'[r].conn = request[r].conn /\ request'[r].tenant = request[r].tenant
          BY <2>2, <2>3, GotoStep
    <3> QED  BY <2>2, <3>1
  <2>4. CASE Goto(r, "remove", NoHandle)
        BY <2>4, GotoStep
  <2> QED  BY <2>1, <2>3, <2>4
<1>3. CASE Touch(r)
  <2>1. request[r].pc = "touch" /\ request[r].conn \in Handles
        /\ request[r].tenant \in Tenants /\ UNCHANGED <<dsn, open>>
        BY <1>3 DEF Touch
  <2>2. CASE request[r].tenant \in Known
    <3>1. Goto(r, "got", conns[request[r].tenant])
          BY <1>3, <2>2 DEF Touch
    <3>2. /\ request'[r].conn = conns[request[r].tenant]
          /\ request'[r].tenant = request[r].tenant
          BY <2>1, <3>1, GotoStep
    <3> QED  BY <2>1, <2>2, <3>2
  <2>3. CASE request[r].tenant \notin Known
    <3>1. Goto(r, "got", request[r].conn)
          BY <1>3, <2>3 DEF Touch
    <3>2. /\ request'[r].conn = request[r].conn
          /\ request'[r].tenant = request[r].tenant
          BY <2>1, <3>1, GotoStep
    <3> QED  BY <2>1, <3>2
  <2> QED  BY <2>2, <2>3
<1>4. CASE Remove(r)
  <2>1. /\ conns[request[r].tenant] \in Handles \cup {NoHandle}
        /\ \/ Goto(r, "close", conns[request[r].tenant])
           \/ Goto(r, "open", conns[request[r].tenant])
        BY <1>4 DEF Remove
  <2> QED  BY <2>1, GotoStep
<1>5. CASE CloseRemoved(r)
      BY <1>5, GotoStep DEF CloseRemoved
<1>6. CASE FindOrDial(r)
  <2>1. request[r].tenant \in Tenants /\ UNCHANGED <<dsn, open>>
        BY <1>6 DEF FindOrDial
  <2>2. CASE request[r].tenant \in Known
    <3>1. Goto(r, "got", conns[request[r].tenant])
          BY <1>6, <2>2 DEF FindOrDial
    <3>2. /\ request'[r].conn = conns[request[r].tenant]
          /\ request'[r].tenant = request[r].tenant
          BY <2>1, <3>1, GotoStep
    <3> QED  BY <2>1, <2>2, <3>2
  <2>3. CASE request[r].tenant \notin Known
    <3>1. Goto(r, "failed", NoHandle) \/ Goto(r, "dial", NoHandle)
          BY <1>6, <2>3 DEF FindOrDial
    <3> QED  BY <3>1, GotoStep
  <2> QED  BY <2>2, <2>3
<1>7. CASE Dial(r)
  <2>1. CASE \E h \in UnusedHandles :
               /\ dsn' = [dsn EXCEPT ![h] = request[r].tenant]
               /\ open' = open \cup {h}
               /\ Goto(r, "got", h)
    <3>1. PICK h \in Handles :
               /\ dsn' = [dsn EXCEPT ![h] = request[r].tenant]
               /\ open' = open \cup {h}
               /\ Goto(r, "got", h)
          BY <2>1 DEF UnusedHandles
    <3>2. request'[r].conn = h /\ request'[r].tenant = request[r].tenant
          BY <3>1, GotoStep
    <3> QED  BY <3>1, <3>2
  <2>2. CASE Goto(r, "failed", NoHandle)
        BY <2>2, GotoStep
  <2> QED  BY <1>7, <2>1, <2>2 DEF Dial
<1> QED  BY <1>1, <1>2, <1>3, <1>4, <1>5, <1>6, <1>7 DEF Get

\* No step of the pool touches the requests of others.
LEMMA OthersStep ==
  ASSUME PoolInv, NEW r \in Requests, Get(r), NEW q \in Requests, q # r
  PROVE request'[q] = request[q]
<1> USE DEF PoolInv, TypeOK
<1> QED  BY DEF Get, Lookup, Ping, Touch, Remove, CloseRemoved, FindOrDial,
                Dial, Goto

LEMMA StepHandlesFit ==
  ASSUME PoolInv, HandlesFit, [Next]_vars PROVE HandlesFit'
<1>1. ASSUME NEW r \in Requests, Get(r) PROVE HandlesFit'
  <2> SUFFICES ASSUME NEW q \in Requests,
                      request'[q].pc \in {"ping", "touch", "got"}
               PROVE dsn'[request'[q].conn] = request'[q].tenant
      BY DEF HandlesFit
  <2>1. CASE q = r
        BY <1>1, <2>1, GetStep
  <2>2. CASE q # r
    <3>1. request'[q] = request[q]
          BY <1>1, <2>2, OthersStep
    <3>2. request[q].conn \in Handles /\ dsn[request[q].conn] # NoTenant
          BY <3>1 DEF PoolInv, RequestsHold
    <3>3. Next
          BY <1>1 DEF Next
    <3> QED  BY <3>1, <3>2, <3>3, HandleStep DEF HandlesFit
  <2> QED  BY <2>1, <2>2
<1>2. CASE ~\E r \in Requests : Get(r)
      BY <1>2 DEF HandlesFit, Next, Age, EvictIdle, CloseEvicted, Stop,
                  CloseAll, CloseNext, vars
<1> QED  BY <1>1, <1>2

\* The cache keeps under each key the services of the key's own handle.
CacheNamesHandle == \A k \in Keys : cache[k] # NoHandle => cache[k] = k[2]

\* A handle closed before a call came in stays closed.
DeadStayClosed ==
    \A r \in Requests : \A h \in call[r].dead : dsn[h] # NoTenant /\ h \notin open

\* What a call looks at in Get, and then works with, is alive and its own.
CallsFit ==
    \A r \in Requests :
      /\ In(r, "get") /\ request[r].pc \in {"ping", "touch", "got"} =>
           request[r].conn \notin call[r].dead
      /\ call[r].pc \in {"new", "auth"} => At(r, "start")
      /\ call[r].pc \in {"new", "auth", "get", "done"} => call[r].conn = NoHandle
      /\ call[r].conn # NoHandle =>
           /\ At(r, "got")
           /\ call[r].conn = request[r].conn
           /\ call[r].conn \notin call[r].dead

ServiceInv == HandlesFit /\ CacheNamesHandle /\ DeadStayClosed /\ CallsFit

LEMMA InitServices == ServerInit => ServiceInv
  BY ConstantsAssumption
  DEF ServerInit, Init, NoCall, ServiceInv, HandlesFit, CacheNamesHandle,
      DeadStayClosed, CallsFit, In, At

\* What the steps of the server do to a call.
LEMMA CallStep ==
  ASSUME PoolInv, ServerTypeOK, [ServerNext]_allVars, NEW r \in Requests
  PROVE \/ call'[r] = call[r]
        \/ call'[r] = NoCall("done")
        \/ /\ call[r].pc = "new" /\ call'[r].pc = "auth"
           /\ call'[r].kind # "none"
           /\ call'[r].conn = call[r].conn /\ call'[r].dead = Closed
           /\ UNCHANGED vars
           /\ stop.pc = "run" \/ call'[r].kind = "task"
        \/ /\ call[r].pc = "auth" /\ call'[r].pc = "get"
           /\ call'[r].kind = call[r].kind
           /\ call'[r].conn = call[r].conn /\ call'[r].dead = call[r].dead
           /\ UNCHANGED vars
        \/ /\ Resolve(r)
           /\ call'[r].pc \in {"work", "detached"}
           /\ call'[r].pc = "work" => call'[r].kind = call[r].kind
           /\ call'[r].kind = call[r].kind
           /\ call'[r].dead = call[r].dead
<1> USE DEF ServerTypeOK
<1>1. ASSUME NEW q \in Requests, NEW kind \in Http \cup {"task"},
             call' = [call EXCEPT ![q] = [@ EXCEPT !.pc = "auth", !.kind = kind,
                                                   !.dead = Closed]]
      PROVE /\ r # q => call'[r] = call[r]
            /\ r = q => /\ call'[r].pc = "auth" /\ call'[r].kind = kind
                        /\ call'[r].conn = call[r].conn
                        /\ call'[r].dead = Closed
  <2>1. /\ r # q => call'[r] = call[r]
        /\ r = q => call'[r] = [call[r] EXCEPT !.pc = "auth", !.kind = kind,
                                               !.dead = Closed]
        BY <1>1
  <2> QED  BY <2>1 DEF Call
<1>2. ASSUME NEW q \in Requests, \E kind \in Http : Arrive(q, kind)
      PROVE \/ call'[r] = call[r] \/ call'[r] = NoCall("done")
            \/ /\ call[r].pc = "new" /\ call'[r].pc = "auth"
               /\ call'[r].kind # "none"
               /\ call'[r].conn = call[r].conn /\ call'[r].dead = Closed
               /\ UNCHANGED vars /\ stop.pc = "run"
      BY <1>1, <1>2 DEF Arrive, In, End, Http
<1>3. ASSUME NEW q \in Requests, Claim(q)
      PROVE \/ call'[r] = call[r]
            \/ /\ call[r].pc = "new" /\ call'[r].pc = "auth"
               /\ call'[r].kind = "task"
               /\ call'[r].conn = call[r].conn /\ call'[r].dead = Closed
               /\ UNCHANGED vars
      BY <1>1, <1>3 DEF Claim, In
<1>4. ASSUME NEW q \in Requests, Authenticate(q)
      PROVE \/ call'[r] = call[r] \/ call'[r] = NoCall("done")
            \/ /\ call[r].pc = "auth" /\ call'[r].pc = "get"
               /\ call'[r].kind = call[r].kind
               /\ call'[r].conn = call[r].conn /\ call'[r].dead = call[r].dead
               /\ UNCHANGED vars
  <2>1. CASE call' = [call EXCEPT ![q].pc = "get"]
    <3>1. /\ r # q => call'[r] = call[r]
          /\ r = q => call'[r] = [call[r] EXCEPT !.pc = "get"]
          BY <2>1
    <3> QED  BY <1>4, <3>1 DEF Authenticate, In, Call
  <2>2. CASE End(q)
        BY <2>2 DEF End
  <2> QED  BY <1>4, <2>1, <2>2 DEF Authenticate
<1>5. ASSUME NEW q \in Requests, GetHandle(q) \/ Finish(q)
      PROVE call'[r] = call[r] \/ call'[r] = NoCall("done")
      BY <1>5 DEF GetHandle, Finish, End
<1>6. ASSUME NEW q \in Requests, Resolve(q)
      PROVE \/ call'[r] = call[r]
            \/ /\ q = r
               /\ call'[r].pc \in {"work", "detached"}
               /\ call'[r].kind = call[r].kind
               /\ call'[r].dead = call[r].dead
  <2> DEFINE p == IF call[q].kind = "create" THEN "detached" ELSE "work"
  <2>1. PICK h : call' = [call EXCEPT ![q] = [@ EXCEPT !.pc = p, !.conn = h]]
        BY <1>6 DEF Resolve
  <2>2. p \in {"work", "detached"}
        OBVIOUS
  <2> HIDE DEF p
  <2>3. /\ r # q => call'[r] = call[r]
        /\ r = q => call'[r] = [call[r] EXCEPT !.pc = p, !.conn = h]
        BY <2>1
  <2> QED  BY <2>2, <2>3 DEF Call
<1>7. CASE Exit
      BY <1>7 DEF Exit
<1>8. CASE \/ Build \/ Ready \/ Signal \/ Drained \/ Expired
           \/ CloseControlPlane \/ PoolStep \/ UNCHANGED allVars
      BY <1>8 DEF Build, Ready, Signal, Drained, Expired, ClosePool,
                  CloseControlPlane, PoolStep, serverVars, allVars
<1> QED
    BY <1>2, <1>3, <1>4, <1>5, <1>6, <1>7, <1>8 DEF ServerNext

LEMMA StepDead ==
  ASSUME PoolInv, ServerTypeOK, DeadStayClosed, [ServerNext]_allVars
  PROVE DeadStayClosed'
<1> SUFFICES ASSUME NEW r \in Requests, NEW h \in call'[r].dead
             PROVE dsn'[h] # NoTenant /\ h \notin open'
    BY DEF DeadStayClosed
<1>1. [Next]_vars
      BY ServerStep DEF allVars
<1>2. CASE h \in call[r].dead
  <2>1. h \in Handles
        BY <1>2 DEF ServerTypeOK, Call
  <2> QED  BY <1>1, <1>2, <2>1, HandleStep DEF DeadStayClosed
<1>3. CASE h \notin call[r].dead
  <2>1. h \in Closed /\ UNCHANGED vars
        BY <1>3, CallStep DEF NoCall
  <2> QED  BY <2>1 DEF Closed, vars
<1> QED  BY <1>2, <1>3

\* The services of a request are those of the handle Get returned.
LEMMA StepCache ==
  ASSUME PoolInv, ServerTypeOK, CacheNamesHandle, [ServerNext]_allVars
  PROVE /\ CacheNamesHandle'
        /\ \A r \in Requests : Resolve(r) => call'[r].conn = request[r].conn
<1> USE DEF ServerTypeOK
<1>1. ASSUME NEW r \in Requests, Resolve(r)
      PROVE CacheNamesHandle' /\ call'[r].conn = request[r].conn
  <2> DEFINE k == Key(request[r].tenant, request[r].conn)
             h == IF call[r].kind \in Http /\ cache[k] # NoHandle
                  THEN cache[k] ELSE request[r].conn
  <2>1. request[r].tenant \in Tenants /\ request[r].conn \in Handles
        BY <1>1 DEF Resolve, PoolInv, RequestsHold, At
  <2>2. k \in Keys /\ k[2] = request[r].conn
        BY <2>1 DEF Key, Keys
  <2>3. h = request[r].conn
        BY <2>2 DEF CacheNamesHandle
  <2>4. PICK pc : call' = [call EXCEPT ![r] = [@ EXCEPT !.pc = pc, !.conn = h]]
        BY <1>1 DEF Resolve
  <2>5. call'[r] = [call[r] EXCEPT !.pc = pc, !.conn = h]
        BY <2>4
  <2>6. call'[r].conn = h
        BY <2>5 DEF Call
  <2>7. cache' = cache \/ cache' = [cache EXCEPT ![k] = request[r].conn]
        BY <1>1 DEF Resolve
  <2> HIDE DEF k, h
  <2> QED  BY <2>2, <2>3, <2>6, <2>7 DEF CacheNamesHandle
<1>2. CASE ~\E r \in Requests : Resolve(r)
  <2>1. cache' = cache \/ cache' = [k \in Keys |-> NoHandle]
        BY <1>2 DEF ServerNext, Build, Ready, Arrive, Claim, Authenticate, GetHandle,
              Finish, Signal, Drained, Expired, ClosePool,
              CloseControlPlane, Exit, PoolStep, serverVars, allVars
  <2> QED  BY <1>2, <2>1 DEF CacheNamesHandle
<1> QED  BY <1>1, <1>2

\* A request of the pool moves only while its call is in Get.
LEMMA RequestStep ==
  ASSUME PoolInv, [ServerNext]_allVars, NEW r \in Requests
  PROVE \/ request'[r] = request[r]
        \/ GetHandle(r)
<1>1. ASSUME NEW q \in Requests, GetHandle(q), q # r
      PROVE request'[r] = request[r]
      BY <1>1, OthersStep DEF GetHandle
<1>2. CASE ~\E q \in Requests : GetHandle(q)
      BY <1>2 DEF ServerNext, Build, Ready, Arrive, Claim, Authenticate, Resolve,
            Finish, Signal, Drained, Expired, ClosePool, CloseControlPlane, Exit,
            PoolStep, Age, EvictIdle, CloseEvicted, Stop, CloseAll, CloseNext,
            vars, allVars
<1> QED  BY <1>1, <1>2

LEMMA StepCallsFit ==
  ASSUME PoolInv, ServerTypeOK, ServiceInv, [ServerNext]_allVars
  PROVE CallsFit'
<1> SUFFICES ASSUME NEW r \in Requests
    PROVE (/\ In(r, "get") /\ request[r].pc \in {"ping", "touch", "got"} =>
                request[r].conn \notin call[r].dead
           /\ call[r].pc \in {"new", "auth"} => At(r, "start")
           /\ call[r].pc \in {"new", "auth", "get", "done"} =>
                call[r].conn = NoHandle
           /\ call[r].conn # NoHandle =>
                /\ At(r, "got")
                /\ call[r].conn = request[r].conn
                /\ call[r].conn \notin call[r].dead)'
    BY DEF CallsFit
<1> USE DEF ServiceInv, In, At
<1>1. DeadStayClosed'
      BY StepDead
<1>2. ASSUME request'[r] = request[r], call'[r] = call[r]
      PROVE (/\ In(r, "get") /\ request[r].pc \in {"ping", "touch", "got"} =>
                  request[r].conn \notin call[r].dead
             /\ call[r].pc \in {"new", "auth"} => At(r, "start")
             /\ call[r].pc \in {"new", "auth", "get", "done"} =>
                  call[r].conn = NoHandle
             /\ call[r].conn # NoHandle =>
                  /\ At(r, "got")
                  /\ call[r].conn = request[r].conn
                  /\ call[r].conn \notin call[r].dead)'
      BY <1>2 DEF CallsFit
<1>3. CASE call'[r] = NoCall("done")
      BY <1>3 DEF NoCall
<1>4. CASE GetHandle(r) /\ call'[r] = call[r]
  <2>1. call[r].pc = "get" /\ Get(r) /\ call[r].conn = NoHandle
        BY <1>4 DEF GetHandle, CallsFit
  <2>2. ASSUME request'[r].pc \in {"ping", "touch", "got"}
        PROVE request'[r].conn \notin call'[r].dead
    <3>1. \/ request'[r].conn \in open'
          \/ /\ request[r].pc \in {"ping", "touch"}
             /\ request'[r].conn = request[r].conn
          BY <2>1, <2>2, GetStep
    <3> QED  BY <1>1, <1>4, <2>1, <3>1 DEF DeadStayClosed, CallsFit
  <2> QED  BY <1>4, <2>1, <2>2
<1>5. CASE /\ request'[r] = request[r]
           /\ call[r].pc = "new" /\ call'[r].pc = "auth"
           /\ call'[r].conn = call[r].conn
      BY <1>5 DEF CallsFit
<1>6. CASE /\ request'[r] = request[r]
           /\ call[r].pc = "auth" /\ call'[r].pc = "get"
           /\ call'[r].conn = call[r].conn /\ call'[r].dead = call[r].dead
           /\ UNCHANGED vars
      BY <1>6 DEF CallsFit
<1>7. CASE /\ Resolve(r)
           /\ call'[r].pc \in {"work", "detached"}
           /\ call'[r].dead = call[r].dead
  <2>1. call'[r].conn = request[r].conn /\ request' = request
        BY <1>7, StepCache DEF Resolve, vars
  <2>2. request[r].pc = "got" /\ request[r].conn \notin call[r].dead
        BY <1>7 DEF Resolve, CallsFit
  <2> QED  BY <1>7, <2>1, <2>2
<1>8. GetHandle(r) => call'[r] = call[r] \/ call'[r] = NoCall("done")
      BY DEF GetHandle, End, ServerTypeOK
<1> QED
    BY <1>2, <1>3, <1>4, <1>5, <1>6, <1>7, <1>8, CallStep, RequestStep

LEMMA ServicesInvariant == ServerSpec => [](PoolInv /\ ServerTypeOK /\ ServiceInv)
<1>1. PoolInv /\ ServerTypeOK /\ ServiceInv /\ [ServerNext]_allVars => ServiceInv'
  <2> SUFFICES ASSUME PoolInv, ServerTypeOK, ServiceInv, [ServerNext]_allVars
               PROVE ServiceInv'
      OBVIOUS
  <2>1. HandlesFit'
        BY ServerStep, StepHandlesFit DEF ServiceInv, allVars
  <2> QED  BY <2>1, StepCache, StepDead, StepCallsFit DEF ServiceInv
<1> QED
    BY <1>1, InitServices, ServerTypes, ServerRunsPool, PoolInvariant, PTL
    DEF ServerSpec

\* A handle that was closed before a request came in never serves it: the cache
\* may keep the services of dead handles, but under keys nobody asks for.
THEOREM NoneServedDead == ServerSpec => []NoDeadHandleServed
<1>1. PoolInv /\ ServerTypeOK /\ ServiceInv => NoDeadHandleServed
  <2> SUFFICES ASSUME ServerTypeOK, ServiceInv, NEW r \in Requests
               PROVE call[r].conn \notin call[r].dead
      BY DEF NoDeadHandleServed
  <2>1. call[r].dead \subseteq Handles
        BY DEF ServerTypeOK, Call
  <2> QED  BY <2>1, ConstantsAssumption DEF ServiceInv, CallsFit
<1> QED  BY <1>1, ServicesInvariant, PTL

\* No request and no task works in the database of another tenant.
THEOREM AllInOwnDatabase == ServerSpec => []OwnDatabase
<1>1. PoolInv /\ ServerTypeOK /\ ServiceInv => OwnDatabase
      BY DEF ServiceInv, CallsFit, HandlesFit, OwnDatabase, At
<1> QED  BY <1>1, ServicesInvariant, PTL

-----------------------------------------------------------------------------
(* Shutdown                                                                *)

\* Close comes after the wait for the requests, and then nobody who may still
\* call Get has a context to dial on.
StopInv ==
    /\ \A r \in Requests :
          call[r].pc \notin {"new", "done"} => call[r].kind # "none"
    /\ closer.pc # "run" => stop.pc \in {"close", "stopped"}
    /\ CloseAfterDrain
    /\ StoppedPoolIsEmpty
    /\ closer.pc = "close" /\ ~stop.early /\ ~stop.expired => Entries = {}

LEMMA InitStop == ServerInit => StopInv
  BY DEF ServerInit, Init, NoCall, StopInv, CloseAfterDrain, StoppedPoolIsEmpty

\* Who is answered stays answered once the listener is closed.
LEMMA AnsweredStay ==
  ASSUME PoolInv, ServerTypeOK, [ServerNext]_allVars, NEW r \in Requests,
         ~Unanswered(r), stop.pc # "run"
  PROVE ~Unanswered(r)'
<1>1. CASE call'[r] = call[r] \/ call'[r] = NoCall("done")
      BY <1>1 DEF Unanswered, NoCall
<1>2. CASE call[r].pc = "new" /\ call'[r].kind = "task"
      BY <1>2 DEF Unanswered, Http
<1>3. CASE call[r].pc = "auth" /\ call'[r].kind = call[r].kind
      BY <1>3 DEF Unanswered
<1>4. CASE Resolve(r) /\ call'[r].kind = call[r].kind
      BY <1>4 DEF Unanswered, Resolve, In
<1> QED  BY <1>1, <1>2, <1>3, <1>4, CallStep

\* Only a dial adds an entry, and a cancelled task cannot dial.
LEMMA EmptyStays ==
  ASSUME PoolInv, ServerTypeOK, StopInv, [ServerNext]_allVars, Entries = {},
         closer.pc \in {"close", "done"}, ~stop.early, ~stop.expired
  PROVE Entries' = {}
<1> USE DEF PoolInv, TypeOK, Entries, Known
<1>0. \A t \in Tenants : conns[t] = NoHandle
      OBVIOUS
<1>1. ASSUME NEW r \in Requests, GetHandle(r), Dial(r) PROVE conns' = conns
  <2>1. call[r].kind = "task"
        BY <1>1 DEF StopInv, CloseAfterDrain, Unanswered, GetHandle, In, Call,
                    ServerTypeOK
  <2>2. Cancelled(r)
        BY <2>1 DEF Cancelled, StopInv
  <2>3. request'[r].pc = "failed"
        BY <1>1, <2>2 DEF GetHandle, Dial
  <2>4. ASSUME NEW h \in Handles, Goto(r, "got", h) PROVE FALSE
        BY <2>3, <2>4, GotoStep
  <2> QED  BY <1>1, <2>4 DEF Dial, UnusedHandles
<1>2. ASSUME NEW r \in Requests, Get(r), ~Dial(r)
      PROVE \A t \in Tenants : conns'[t] = NoHandle
      BY <1>0, <1>2 DEF Get, Lookup, Ping, Touch, Remove, CloseRemoved,
                        FindOrDial, Drop
<1>3. CASE ~\E r \in Requests : GetHandle(r)
  <2>1. \A t \in Tenants : conns'[t] = NoHandle
        BY <1>0, <1>3 DEF ServerNext, Build, Ready, Arrive, Claim, Authenticate,
            Resolve, Finish, Signal, Drained, Expired, ClosePool,
            CloseControlPlane, Exit, PoolStep, Age, EvictIdle, CloseEvicted,
            Stop, CloseAll, CloseNext, Drop, vars, allVars
  <2> QED  BY <2>1
<1> QED  BY <1>0, <1>1, <1>2, <1>3 DEF GetHandle

\* What the steps of the server do to the shutdown and to Close.
LEMMA ShutdownStep ==
  ASSUME PoolInv, ServerTypeOK, [ServerNext]_allVars
  PROVE \/ UNCHANGED <<closer, stop>>
        \/ Signal /\ stop'.pc = "drain" /\ UNCHANGED closer
        \/ /\ Drained \/ Expired
           /\ Drained => stop'.expired = FALSE
           /\ Expired => stop'.expired = TRUE
           /\ UNCHANGED call
           /\ \/ stop'.pc = "skipped" /\ UNCHANGED closer
              \/ stop'.pc = "close" /\ closer.pc = "run" /\ closer'.pc = "stop"
        \/ /\ closer.pc # "run" /\ closer'.pc \in {"close", "done"}
           /\ closer.pc = "stop" => closer'.pc = "close" /\ Entries' = {}
           /\ UNCHANGED <<stop, call>>
        \/ /\ stop.pc # "run" /\ stop'.pc = "stopped" /\ UNCHANGED closer
           /\ stop'.early = stop.early /\ stop'.expired = stop.expired
<1> USE DEF PoolInv, TypeOK, ServerTypeOK
<1>1. CASE Signal
      BY <1>1 DEF Signal, vars
<1>2. CASE Drained \/ Expired
  <2>1. PICK e \in BOOLEAN : ClosePool(e) /\ (Drained => ~e) /\ (Expired => e)
        BY <1>2 DEF Drained, Expired
  <2>2. /\ stop'.expired = e
        /\ stop'.pc = IF process = "ready" THEN "close" ELSE "skipped"
        BY <2>1 DEF ClosePool
  <2>3. CASE process = "ready"
    <3>1. Stop
          BY <2>1, <2>3 DEF ClosePool
    <3>2. closer.pc = "run" /\ closer'.pc = "stop"
          BY <3>1 DEF Stop
    <3> QED  BY <1>2, <2>1, <2>2, <2>3, <3>2 DEF ClosePool
  <2>4. CASE process # "ready"
        BY <1>2, <2>1, <2>2, <2>4 DEF ClosePool, vars
  <2> QED  BY <2>3, <2>4
<1>3. CASE CloseAll /\ UNCHANGED serverVars
      BY <1>3 DEF CloseAll, serverVars, Entries, Known, Drop
<1>4. CASE CloseNext /\ UNCHANGED serverVars
      BY <1>4 DEF CloseNext, serverVars
<1>5. CASE CloseControlPlane
      BY <1>5 DEF CloseControlPlane, vars
<1>6. CASE Exit
      BY <1>6 DEF Exit, vars
<1>7. CASE \/ Build \/ Ready
           \/ \E r \in Requests :
                \/ \E kind \in Http : Arrive(r, kind)
                \/ Claim(r) \/ Authenticate(r) \/ Resolve(r) \/ Finish(r)
           \/ UNCHANGED allVars
      BY <1>7 DEF Build, Ready, Arrive, Claim, Authenticate, Resolve, Finish,
                  vars, allVars, serverVars
<1>8. ASSUME NEW r \in Requests, GetHandle(r) PROVE UNCHANGED <<closer, stop>>
      BY <1>8 DEF GetHandle, Get, Lookup, Ping, Touch, Remove, CloseRemoved,
                  FindOrDial, Dial
<1>9. CASE PoolStep /\ ~CloseAll /\ ~CloseNext
      BY <1>9 DEF PoolStep, Age, EvictIdle, CloseEvicted, serverVars
<1> QED
    BY <1>1, <1>2, <1>3, <1>4, <1>5, <1>6, <1>7, <1>8, <1>9
    DEF ServerNext, PoolStep

LEMMA StepStop ==
  ASSUME PoolInv, ServerTypeOK, StopInv, [ServerNext]_allVars
  PROVE StopInv'
<1>1. ASSUME NEW r \in Requests, call'[r].pc \notin {"new", "done"}
      PROVE call'[r].kind # "none"
  <2>1. call[r].pc \notin {"new", "done"} => call[r].kind # "none"
        BY DEF StopInv
  <2>2. call'[r] # NoCall("done")
        BY <1>1 DEF NoCall
  <2>3. Resolve(r) => call[r].pc = "get"
        BY DEF Resolve, In
  <2> QED  BY <1>1, <2>1, <2>2, <2>3, CallStep
<1>2. (closer.pc # "run" => stop.pc \in {"close", "stopped"})'
      BY ShutdownStep DEF StopInv, Signal, Drained, Expired
<1>3. CloseAfterDrain'
  <2> SUFFICES ASSUME closer'.pc # "run", ~stop'.expired, NEW r \in Requests
               PROVE ~Unanswered(r)'
      BY DEF CloseAfterDrain
  <2>1. CASE closer.pc # "run" /\ ~stop.expired
        BY <2>1, AnsweredStay DEF StopInv, CloseAfterDrain
  <2>2. CASE Drained /\ UNCHANGED call
        BY <2>2 DEF Drained, Unanswered
  <2> QED
      BY <2>1, <2>2, ShutdownStep DEF StopInv, Signal
<1>4. (closer.pc \in {"close", "done"} /\ ~stop.early /\ ~stop.expired
        => Entries = {})'
  <2> SUFFICES ASSUME closer'.pc \in {"close", "done"}, ~stop'.early, ~stop'.expired
               PROVE Entries' = {}
      OBVIOUS
  <2>1. CASE /\ closer.pc \in {"close", "done"}
             /\ ~stop.early /\ ~stop.expired
        BY <2>1, EmptyStays DEF StopInv, StoppedPoolIsEmpty
  <2>2. CASE closer.pc = "stop" /\ UNCHANGED stop /\ Entries' = {}
        BY <2>2
  <2>3. closer.pc \in {"run", "stop", "close", "done"}
        BY DEF PoolInv, TypeOK
  <2> QED
      BY <2>1, <2>2, <2>3, ShutdownStep DEF StopInv, Signal, Drained, Expired
<1> QED
    BY <1>1, <1>2, <1>3, <1>4 DEF StopInv, StoppedPoolIsEmpty

LEMMA StopInvariant == ServerSpec => [](PoolInv /\ ServerTypeOK /\ StopInv)
<1>1. PoolInv /\ ServerTypeOK /\ StopInv /\ [ServerNext]_allVars => StopInv'
      BY StepStop
<1> QED
    BY <1>1, InitStop, ServerTypes, ServerRunsPool, PoolInvariant, PTL
    DEF ServerSpec

\* No request that ends within the ten seconds loses its handle to Close.
THEOREM DrainBeforeClose == ServerSpec => []CloseAfterDrain
<1>1. StopInv => CloseAfterDrain  BY DEF StopInv
<1> QED  BY <1>1, StopInvariant, PTL

\* Whatever the workers were doing when the signal came, nobody opens another
\* handle after Close.
THEOREM PoolStaysEmpty == ServerSpec => []StoppedPoolIsEmpty
<1>1. StopInv => StoppedPoolIsEmpty  BY DEF StopInv
<1> QED  BY <1>1, StopInvariant, PTL

=============================================================================
