-------------------------------- MODULE Server --------------------------------
(***************************************************************************)
(* One server process: its boot, the requests and import tasks that share  *)
(* the pool of TenantPool, the cache of services in front of it, and its   *)
(* shutdown.                                                               *)
(*                                                                         *)
(* A request is authenticated against the control plane, is given a handle *)
(* by Get, and works with the services cached for that handle.  A create   *)
(* is answered at once and works on in a goroutine nobody waits for.  An   *)
(* import task gets its handle the same way, on a context that the         *)
(* shutdown cancels.  The shutdown cancels the workers, waits ten seconds  *)
(* for the requests, closes the pool and then the control plane; but       *)
(* ListenAndServe returns when it begins, and then main does.              *)
(*                                                                         *)
(* A client that leaves makes the pings on its context fail: that is the   *)
(* ping of an unreachable database, which TenantPool has already.          *)
(*                                                                         *)
(* Some definitions are preceded by a variant of themselves with one slip  *)
(* in it.  No action uses them: they show that the properties notice.      *)
(***************************************************************************)
EXTENDS TenantPool

VARIABLES
    process, \* how far the boot is, or that main has returned
    call,    \* what each caller of Get is, and where it is outside Get
    cache,   \* svcCache: the handle behind the services of each key
    stop     \* the shutdown's goroutine

serverVars == <<process, call, cache, stop>>
allVars == <<vars, serverVars>>

Http == {"sync", "create"}
Keys == Tenants \X (Handles \cup {NoHandle})

Call == [pc : {"new", "auth", "get", "work", "detached", "done"},
         kind : Http \cup {"task", "none"},
         conn : Handles \cup {NoHandle},
         dead : SUBSET Handles]   \* handles closed before the call came in

NoCall(pc) == [pc |-> pc, kind |-> "none", conn |-> NoHandle, dead |-> {}]

ServerTypeOK ==
    /\ process \in {"loading", "built", "ready", "error", "exited"}
    /\ call \in [Requests -> Call]
    /\ cache \in [Keys -> Handles \cup {NoHandle}]
    /\ stop \in [pc : {"run", "drain", "close", "stopped", "skipped"},
                 early : BOOLEAN, expired : BOOLEAN]

ServerInit ==
    /\ Init
    /\ process = "loading"
    /\ call = [r \in Requests |-> NoCall("new")]
    /\ cache = [k \in Keys |-> NoHandle]
    /\ stop = [pc |-> "run", early |-> FALSE, expired |-> FALSE]

In(r, pc) == call[r].pc = pc
End(r) == call' = [call EXCEPT ![r] = NoCall("done")]
Closed == {h \in Handles : dsn[h] # NoTenant /\ h \notin open}

\* The requests Shutdown waits for: those whose answer is not written.
Unanswered(r) == call[r].kind \in Http /\ call[r].pc \in {"auth", "get", "work"}

CancelledNever(r) == FALSE

\* The context of a task ends when the shutdown calls workerCancel, unless
\* the boot had not assigned it yet.
Cancelled(r) ==
    /\ call[r].kind = "task"
    /\ stop.pc # "run"
    /\ ~stop.early

-----------------------------------------------------------------------------
(* Boot                                                                    *)

\* buildReadyHandler returns; its worker runs already.
Build ==
    /\ process = "loading"
    /\ process' \in {"built", "error"}
    /\ UNCHANGED <<vars, call, cache, stop>>

\* db, tenantPool and workerCancel are assigned, and the router installed.
Ready ==
    /\ process = "built"
    /\ process' = "ready"
    /\ UNCHANGED <<vars, call, cache, stop>>

-----------------------------------------------------------------------------
(* Requests and tasks                                                      *)

\* Until the boot is over a page says so.
Arrive(r, kind) ==
    /\ In(r, "new")
    /\ stop.pc = "run"
    /\ IF process = "ready"
       THEN call' = [call EXCEPT ![r] = [@ EXCEPT !.pc = "auth", !.kind = kind,
                                                  !.dead = Closed]]
       ELSE End(r)
    /\ UNCHANGED <<vars, process, cache, stop>>

\* FetchPending, on the worker's context, gives a goroutine its task.
Claim(r) ==
    /\ In(r, "new")
    /\ process \in {"built", "ready"}
    /\ stop.pc = "run" \/ stop.early
    /\ stop.pc # "stopped"
    /\ call' = [call EXCEPT ![r] = [@ EXCEPT !.pc = "auth", !.kind = "task",
                                             !.dead = Closed]]
    /\ UNCHANGED <<vars, process, cache, stop>>

\* GetByID on the control plane, which may know no such tenant, or fail.
Authenticate(r) ==
    /\ In(r, "auth")
    /\ \/ stop.pc # "stopped" /\ ~Cancelled(r) /\ call' = [call EXCEPT ![r].pc = "get"]
       \/ End(r)
    /\ UNCHANGED <<vars, process, cache, stop>>

\* A step of the pool's Get: on a context that is over a ping fails, whatever
\* the database would say.  No handle is an error to the caller.
GetHandle(r) ==
    /\ In(r, "get")
    /\ Get(r)
    /\ Cancelled(r) => /\ At(r, "ping") => request'[r].pc = "remove"
                       /\ At(r, "dial") => request'[r].pc = "failed"
    /\ IF request'[r].pc = "failed" THEN End(r) ELSE UNCHANGED call
    /\ UNCHANGED <<process, cache, stop>>

KeyOfAll(t, h) == CHOOSE k \in Keys : TRUE
KeyOfTenant(t, h) == <<t, NoHandle>>

\* The key names the handle as well: a tenant's next handle has services of
\* its own.  Entries are never removed, so no later handle has the address.
Key(t, h) == <<t, h>>

\* resolveServices, after which the create is answered; a task makes its own.
Resolve(r) ==
    /\ In(r, "get")
    /\ At(r, "got")
    /\ LET k == Key(request[r].tenant, request[r].conn)
           cached == call[r].kind \in Http /\ cache[k] # NoHandle
       IN /\ call' = [call EXCEPT ![r] =
                        [@ EXCEPT
                          !.pc = IF call[r].kind = "create" THEN "detached" ELSE "work",
                          !.conn = IF cached THEN cache[k] ELSE request[r].conn]]
          /\ cache' = IF call[r].kind \in Http /\ ~cached
                      THEN [cache EXCEPT ![k] = request[r].conn] ELSE cache
    /\ UNCHANGED <<vars, process, stop>>

\* The last statement on the handle: rows, or an error if it is closed.
Finish(r) ==
    /\ call[r].pc \in {"work", "detached"}
    /\ End(r)
    /\ UNCHANGED <<vars, process, cache, stop>>

-----------------------------------------------------------------------------
(* Shutdown                                                                *)

\* The signal: workerCancel, and Shutdown closes the listener.
Signal ==
    /\ stop.pc = "run"
    /\ stop' = [stop EXCEPT !.pc = "drain", !.early = process # "ready"]
    /\ UNCHANGED <<vars, process, call, cache>>

\* tenantPool.Close, if the boot has assigned it.
ClosePool(expired) ==
    /\ stop' = [stop EXCEPT !.pc = IF process = "ready" THEN "close" ELSE "skipped",
                            !.expired = expired]
    /\ IF process = "ready" THEN Stop ELSE UNCHANGED vars
    /\ UNCHANGED <<process, call, cache>>

\* Shutdown returns: every request is answered,
Drained ==
    /\ stop.pc = "drain"
    /\ \A r \in Requests : ~Unanswered(r)
    /\ ClosePool(FALSE)

\* or ten seconds have passed.
Expired ==
    /\ stop.pc = "drain"
    /\ \E r \in Requests : Unanswered(r)
    /\ ClosePool(TRUE)

\* Close has returned; the control plane is closed.
CloseControlPlane ==
    /\ stop.pc = "close"
    /\ closer.pc = "done"
    /\ stop' = [stop EXCEPT !.pc = "stopped"]
    /\ UNCHANGED <<vars, process, call, cache>>

\* Shutdown makes ListenAndServe return at once, and main with it: the
\* process may end at any time from then on, and nothing of it is left.  (The
\* pool's variables stay as they are, with nobody to use them.)
Exit ==
    /\ stop.pc # "run"
    /\ process # "exited"
    /\ process' = "exited"
    /\ call' = [r \in Requests |-> NoCall("done")]
    /\ cache' = [k \in Keys |-> NoHandle]
    /\ stop' = [stop EXCEPT !.pc = "stopped"]
    /\ UNCHANGED vars

\* The pool's own goroutine and its Close.
PoolStep ==
    /\ process \in {"built", "ready"}
    /\ \/ \E t \in Tenants : Age(t)
       \/ EvictIdle
       \/ \E h \in Handles : CloseEvicted(h)
       \/ CloseAll
       \/ CloseNext
    /\ UNCHANGED serverVars

ServerNext ==
    \/ Build \/ Ready
    \/ \E r \in Requests :
         \/ \E kind \in Http : Arrive(r, kind)
         \/ Claim(r) \/ Authenticate(r) \/ GetHandle(r)
         \/ Resolve(r) \/ Finish(r)
    \/ Signal \/ Drained \/ Expired \/ CloseControlPlane \/ Exit
    \/ PoolStep

ServerSpec == ServerInit /\ [][ServerNext]_allVars

(***************************************************************************)
(* As in TenantPool, and the other steps of a request end: statements on   *)
(* the control plane and on the tenant's database are answered or fail.    *)
(* Nothing is assumed of boot, signals, time or the process's end.         *)
(***************************************************************************)
ServerFairness ==
    \A r \in Requests :
      /\ SF_allVars(GetHandle(r))
      /\ WF_allVars(Authenticate(r) \/ Resolve(r) \/ Finish(r))

FairServerSpec == ServerSpec /\ ServerFairness

-----------------------------------------------------------------------------
(* Properties                                                              *)

\* No call works on a handle that was closed before the call came in, though
\* services outlive their handles in the cache: what one request lost, the
\* next one has again.
NoDeadHandleServed == \A r \in Requests : call[r].conn \notin call[r].dead

\* The services a call works with are those of its own tenant's database.
OwnDatabase ==
    \A r \in Requests :
       call[r].conn # NoHandle => dsn[call[r].conn] = request[r].tenant

\* Close does not take a handle from a request within its ten seconds.
CloseAfterDrain ==
    closer.pc # "run" /\ ~stop.expired => \A r \in Requests : ~Unanswered(r)

\* Once Close has returned the pool stays empty, whatever the workers were
\* doing when the signal came, if the signal came after the boot and the
\* requests ended in time.
StoppedPoolIsEmpty ==
    closer.pc = "done" /\ ~stop.early /\ ~stop.expired => Entries = {}

\* Every call ends, unless the process does.
CallsEnd == \A r \in Requests : ~In(r, "new") ~> In(r, "done")

\* A graceful shutdown: the process ends when its requests are answered.
ExitAfterDrain ==
    [][Exit => stop.expired \/ \A r \in Requests : ~Unanswered(r)]_allVars

=============================================================================
