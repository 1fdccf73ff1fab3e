----------------------------- MODULE Provisioning -----------------------------
(***************************************************************************)
(* How a tenant comes to be: server processes that boot, each of which     *)
(* registers the tenant of its configuration unless it is there, clients   *)
(* that ask a server for a tenant of their own, and requests that are let  *)
(* in to a tenant.  All of them share the rows of the control plane and    *)
(* the tenants' databases and know of each other through these alone.      *)
(*                                                                         *)
(* Outside: the statements of a process may fail before or after they took *)
(* effect, its host may crash, the service that sells databases may fail.  *)
(* The pool is an answer or an error here; TenantPool tells the rest.      *)
(*                                                                         *)
(* Some definitions are preceded by a variant of themselves with one slip  *)
(* in it.  No action uses them: they show that the properties notice.      *)
(***************************************************************************)
EXTENDS Naturals

CONSTANTS
    Instances,     \* server processes
    Provisions,    \* requests for a new tenant
    Requests,      \* requests to a tenant
    Want,          \* and the tenant each names
    BootKeys,      \* BootstrapTenantID of each start; NoTenant: disabled
    ZeroIDs,       \* the instances the service may make
    NoTenant,
    NoRow,
    TenantName,    \* BootstrapTenantName beside each BootstrapTenantID
    SchemaLength,  \* statements of initSchema; the first makes the table
    MaxRetries,    \* DBConnectMaxRetries
    MaxStarts,     \* bound on the starts of all processes
    Faults         \* "dberr", "lost", "zero", "crash"

Tenants == (BootKeys \ {NoTenant}) \cup ZeroIDs
Runs == Instances \cup Provisions

ASSUME ConstantsAssumption ==
    /\ Instances \cap Provisions = {}
    /\ NoTenant \notin ZeroIDs
    /\ BootKeys \cap ZeroIDs = {}
    /\ DOMAIN TenantName = BootKeys \ {NoTenant}
    /\ Want \in [Requests -> Tenants]
    /\ SchemaLength \in Nat \ {0}
    /\ MaxRetries \in Nat \ {0}
    /\ MaxStarts \in Nat

Rows == [status : {"provisioning", "active"}, version : {0, 1}]

ASSUME RowsAssumption == NoRow \notin Rows

VARIABLES
    row,    \* the table tenants
    built,  \* how many statements of initSchema each tenant's database has seen
    made,   \* the instances that exist at the service
    boot,   \* bootstrapState of each process
    key,    \* the tenant it is configured with
    tries,  \* its failed attempts to open the database
    starts,
    run,    \* Provision and bootstrapSingleTenant: where each is
    req,    \* the requests: where each is
    where   \* the process a provision or a request has gone to

vars == <<row, built, made, boot, key, tries, starts, run, req, where>>

Steps == {"create", "schema", "activate", "version"}
Booting == {"dialing", "ensuring", "checking", "bootstrapping"}
Finished == {"unknown", "inactive", "unavailable", "served", "broken",
             "starting", "error"}

TypeOK ==
    /\ row \in [Tenants -> Rows \cup {NoRow}]
    /\ built \in [Tenants -> 0..SchemaLength]
    /\ made \in SUBSET ZeroIDs
    /\ boot \in [Instances -> Booting \cup {"down", "ready", "failed"}]
    /\ key \in [Instances -> BootKeys \cup {NoTenant}]
    /\ tries \in [Instances -> 0..MaxRetries]
    /\ starts \in 0..MaxStarts
    /\ run \in [Runs -> [pc : Steps \cup {"idle", "done", "failed"},
                         id : Tenants \cup {NoTenant},
                         next : 1..SchemaLength]]
    /\ \A p \in Runs : run[p].pc \in Steps => run[p].id # NoTenant
    /\ req \in [Requests -> Finished \cup {"new", "looking", "connecting"}]
    /\ where \in [Provisions \cup Requests -> Instances \cup {NoTenant}]

Idle == [pc |-> "idle", id |-> NoTenant, next |-> 1]
Begin(t) == [pc |-> "create", id |-> t, next |-> 1]

Init ==
    /\ row = [t \in Tenants |-> NoRow]
    /\ built = [t \in Tenants |-> 0]
    /\ made = {}
    /\ boot = [i \in Instances |-> "down"]
    /\ key = [i \in Instances |-> NoTenant]
    /\ tries = [i \in Instances |-> 0]
    /\ starts = 0
    /\ run = [p \in Runs |-> Idle]
    /\ req = [r \in Requests |-> "new"]
    /\ where = [c \in Provisions \cup Requests |-> NoTenant]

-----------------------------------------------------------------------------
(* Registering a tenant: the part bootstrapSingleTenant and Provision share. *)

Goto(p, pc) == run' = [run EXCEPT ![p].pc = pc]

\* A tenant of a configuration has a name there, which may be that of another
\* one (it has a default); any other tenant is called by its id.
Name(t) == IF t \in ZeroIDs THEN t ELSE TenantName[t]

\* The primary key and the unique index on the names allow a row for t.
Free(t) ==
    /\ row[t] = NoRow
    /\ \A u \in Tenants : row[u] # NoRow => Name(u) # Name(t)

\* A statement that did what it should: the process goes on, unless the answer
\* was lost on its way.
Answered(p, pc) == Goto(p, pc) \/ ("lost" \in Faults /\ Goto(p, "failed"))

NewRow == [status |-> "provisioning", version |-> 0]

Create(p) ==
    /\ run[p].pc = "create"
    /\ \/ /\ Free(run[p].id)
          /\ row' = [row EXCEPT ![run[p].id] = NewRow]
          /\ Answered(p, "schema")
       \/ /\ ~Free(run[p].id) \/ "dberr" \in Faults
          /\ Goto(p, "failed")
          /\ UNCHANGED row
    /\ UNCHANGED <<built, made, boot, key, tries, starts, req, where>>

\* The next statement of initSchema, at its end the one after it.  All of them
\* do nothing where they have been run before.
InitSchema(p) ==
    /\ run[p].pc = "schema"
    /\ LET n == run[p].next
           advanced == IF n = SchemaLength
                       THEN [run[p] EXCEPT !.pc = "activate"]
                       ELSE [run[p] EXCEPT !.next = n + 1]
       IN  \/ /\ built' = [built EXCEPT ![run[p].id] =
                             IF @ < n THEN n ELSE @]
              /\ \/ run' = [run EXCEPT ![p] = advanced]
                 \/ "lost" \in Faults /\ Goto(p, "failed")
           \/ /\ "dberr" \in Faults
              /\ Goto(p, "failed")
              /\ UNCHANGED built
    /\ UNCHANGED <<row, made, boot, key, tries, starts, req, where>>

ActivateUnchecked(p) ==
    /\ run[p].pc = "activate"
    /\ \/ /\ row' = [row EXCEPT ![run[p].id].status = "active"]
          /\ Goto(p, "version")
       \/ /\ "dberr" \in Faults
          /\ Goto(p, "version")
          /\ UNCHANGED row
    /\ UNCHANGED <<built, made, boot, key, tries, starts, req, where>>

\* UpdateStatus
Activate(p) ==
    /\ run[p].pc = "activate"
    /\ \/ /\ row' = [row EXCEPT ![run[p].id].status = "active"]
          /\ Answered(p, "version")
       \/ /\ "dberr" \in Faults
          /\ Goto(p, "failed")
          /\ UNCHANGED row
    /\ UNCHANGED <<built, made, boot, key, tries, starts, req, where>>

\* It saves the whole tenant, whose Status nobody has changed in memory.
SaveTenant(p) ==
    /\ run[p].pc = "version"
    /\ row' = [row EXCEPT ![run[p].id] = [NewRow EXCEPT !.version = 1]]
    /\ Answered(p, "done")
    /\ UNCHANGED <<built, made, boot, key, tries, starts, req, where>>

\* UpdateSchemaVersion
SetVersion(p) ==
    /\ run[p].pc = "version"
    /\ \/ /\ row' = [row EXCEPT ![run[p].id].version = 1]
          /\ Answered(p, "done")
       \/ /\ "dberr" \in Faults
          /\ Goto(p, "failed")
          /\ UNCHANGED row
    /\ UNCHANGED <<built, made, boot, key, tries, starts, req, where>>

Register(p) == Create(p) \/ InitSchema(p) \/ Activate(p) \/ SetVersion(p)

-----------------------------------------------------------------------------
(* Booting.                                                                *)

Start(i) ==
    /\ boot[i] = "down"
    /\ starts < MaxStarts
    /\ \E t \in BootKeys : key' = [key EXCEPT ![i] = t]
    /\ boot' = [boot EXCEPT ![i] = "dialing"]
    /\ tries' = [tries EXCEPT ![i] = 0]
    /\ starts' = starts + 1
    /\ UNCHANGED <<row, built, made, run, req, where>>

DialAgain(i) ==
    /\ boot[i] = "dialing"
    /\ \/ /\ boot' = [boot EXCEPT ![i] = "ensuring"]
          /\ UNCHANGED tries
       \/ /\ "dberr" \in Faults
          /\ tries' = [tries EXCEPT ![i] = (@ + 1) % MaxRetries]
          /\ UNCHANGED boot
    /\ UNCHANGED <<row, built, made, key, starts, run, req, where>>

\* openDatabaseWithRetry: one attempt
Dial(i) ==
    /\ boot[i] = "dialing"
    /\ \/ /\ boot' = [boot EXCEPT ![i] = "ensuring"]
          /\ UNCHANGED tries
       \/ /\ "dberr" \in Faults
          /\ tries' = [tries EXCEPT ![i] = @ + 1]
          /\ boot' = [boot EXCEPT ![i] = IF tries[i] + 1 = MaxRetries
                                         THEN "failed" ELSE "dialing"]
    /\ UNCHANGED <<row, built, made, key, starts, run, req, where>>

\* The tables of the control plane are there when it has succeeded.
EnsureControlPlaneSchema(i) ==
    /\ boot[i] = "ensuring"
    /\ \/ boot' = [boot EXCEPT ![i] = "checking"]
       \/ /\ Faults \cap {"dberr", "lost"} # {}
          /\ boot' = [boot EXCEPT ![i] = "failed"]
    /\ UNCHANGED <<row, built, made, key, tries, starts, run, req, where>>

\* A boot that finds its tenant unfinished and takes it for nearly finished.
CheckAndActivate(i) ==
    /\ boot[i] = "checking"
    /\ boot' = [boot EXCEPT ![i] = "bootstrapping"]
    /\ run' = [run EXCEPT ![i] =
                 IF key[i] = NoTenant THEN [Idle EXCEPT !.pc = "done"]
                 ELSE IF row[key[i]] = NoRow THEN Begin(key[i])
                 ELSE [Begin(key[i]) EXCEPT !.pc = "activate"]]
    /\ UNCHANGED <<row, built, made, key, tries, starts, req, where>>

\* bootstrapSingleTenant up to GetByID: a tenant that has a row is done.
Check(i) ==
    /\ boot[i] = "checking"
    /\ \/ /\ boot' = [boot EXCEPT ![i] = "bootstrapping"]
          /\ run' = [run EXCEPT ![i] =
                       IF key[i] = NoTenant THEN [Idle EXCEPT !.pc = "done"]
                       ELSE IF row[key[i]] = NoRow THEN Begin(key[i])
                       ELSE [Begin(key[i]) EXCEPT !.pc = "done"]]
       \/ /\ "dberr" \in Faults
          /\ key[i] # NoTenant
          /\ boot' = [boot EXCEPT ![i] = "failed"]
          /\ UNCHANGED run
    /\ UNCHANGED <<row, built, made, key, tries, starts, req, where>>

\* The end of buildReadyHandler: setReady or setError.
Settle(i) ==
    /\ boot[i] = "bootstrapping"
    /\ run[i].pc \in {"done", "failed"}
    /\ boot' = [boot EXCEPT ![i] = IF run[i].pc = "done" THEN "ready"
                                   ELSE "failed"]
    /\ UNCHANGED <<row, built, made, key, tries, starts, run, req, where>>

BootStep(i) ==
    \/ Dial(i) \/ EnsureControlPlaneSchema(i) \/ Check(i)
    \/ Register(i)
    \/ Settle(i)

\* A process ends: its provisions and requests get no answer.
Crash(i) ==
    /\ "crash" \in Faults
    /\ boot[i] # "down"
    /\ boot' = [boot EXCEPT ![i] = "down"]
    /\ run' = [p \in Runs |->
                 IF p = i THEN Idle
                 ELSE IF p \in Provisions /\ where[p] = i /\ run[p].pc \in Steps
                 THEN [run[p] EXCEPT !.pc = "failed"]
                 ELSE run[p]]
    /\ req' = [r \in Requests |->
                 IF where[r] = i /\ req[r] \notin Finished THEN "broken"
                 ELSE req[r]]
    /\ UNCHANGED <<row, built, made, key, tries, starts, where>>

-----------------------------------------------------------------------------
(* What a ready process does.                                              *)

\* A new instance whose id becomes the tenant's; or an error, with an instance
\* nobody knows of or without one.
CreateInstance(c) ==
    \/ \E z \in ZeroIDs \ made :
         /\ made' = made \cup {z}
         /\ \/ run' = [run EXCEPT ![c] = Begin(z)]
            \/ "zero" \in Faults /\ Goto(c, "failed")
    \/ /\ "zero" \in Faults
       /\ Goto(c, "failed")
       /\ UNCHANGED made

\* provisionMem9s, and Provision up to the record of the tenant
Provision(c, i) ==
    /\ run[c].pc = "idle"
    /\ boot[i] = "ready"
    /\ CreateInstance(c)
    /\ where' = [where EXCEPT ![c] = i]
    /\ UNCHANGED <<row, built, boot, key, tries, starts, req>>

\* bootstrapState.ServeHTTP
Ask(r, i) ==
    /\ req[r] = "new"
    /\ boot[i] # "down"
    /\ where' = [where EXCEPT ![r] = i]
    /\ req' = [req EXCEPT ![r] = IF boot[i] = "ready" THEN "looking"
                                 ELSE IF boot[i] = "failed" THEN "error"
                                 ELSE "starting"]
    /\ UNCHANGED <<row, built, made, boot, key, tries, starts, run>>

FindAnyRow(r) ==
    /\ req[r] = "looking"
    /\ req' = [req EXCEPT ![r] = IF row[Want[r]] = NoRow THEN "unknown"
                                 ELSE "connecting"]
    /\ UNCHANGED <<row, built, made, boot, key, tries, starts, run, where>>

\* ResolveTenant and ResolveApiKey up to the status
Find(r) ==
    /\ req[r] = "looking"
    /\ \/ req' = [req EXCEPT ![r] =
                    IF row[Want[r]] = NoRow THEN "unknown"
                    ELSE IF row[Want[r]].status # "active" THEN "inactive"
                    ELSE "connecting"]
       \/ /\ "dberr" \in Faults
          /\ req' = [req EXCEPT ![r] = "unknown"]
    /\ UNCHANGED <<row, built, made, boot, key, tries, starts, run, where>>

\* the rest: pool.Get
Connect(r) ==
    /\ req[r] = "connecting"
    /\ \/ req' = [req EXCEPT ![r] = "served"]
       \/ /\ "dberr" \in Faults
          /\ req' = [req EXCEPT ![r] = "unavailable"]
    /\ UNCHANGED <<row, built, made, boot, key, tries, starts, run, where>>

Next ==
    \/ \E i \in Instances : Start(i) \/ BootStep(i) \/ Crash(i)
    \/ \E c \in Provisions : Register(c) \/ \E i \in Instances : Provision(c, i)
    \/ \E r \in Requests : Find(r) \/ Connect(r) \/ \E i \in Instances : Ask(r, i)

Spec == Init /\ [][Next]_vars

\* A boot goes on by itself if the database answers, if only with an error.
FairSpec == Spec /\ \A i \in Instances : WF_vars(BootStep(i))

-----------------------------------------------------------------------------
(* Properties                                                              *)

\* A request is only let in to a tenant whose database has its whole schema,
\* however many processes were at work on it and wherever they stopped.
ServedHasSchema ==
    \A r \in Requests : req[r] \in {"connecting", "served"} =>
        built[Want[r]] = SchemaLength

\* The tenant a client was given is complete: active, with its schema and its
\* version on record.
GivenIsComplete ==
    \A c \in Provisions : run[c].pc = "done" =>
        /\ row[run[c].id] = [status |-> "active", version |-> 1]
        /\ built[run[c].id] = SchemaLength

\* Insert lets one process through: no two are at work on one tenant.
OneBuilder ==
    \A p, q \in Runs :
      ( /\ run[p].pc \in Steps \ {"create"}
        /\ run[q].pc \in Steps \ {"create"}
        /\ run[p].id = run[q].id ) => p = q

\* A tenant that was opened stays open: no process that starts later sets it
\* back, nor takes its row away.
NeverSetBack ==
    [][ \A t \in Tenants : row[t] # NoRow =>
          /\ row'[t] # NoRow
          /\ row[t].status = "active" => row'[t].status = "active"
          /\ row[t].version <= row'[t].version ]_vars

\* A process that boots is ready or has failed in the end, or is gone.
BootEnds == \A i \in Instances : boot[i] \in Booting ~> boot[i] \notin Booting

\* "Use the fixed API key directly": a process that calls itself ready does not
\* refuse the key that it is configured with.
ReadyTakesItsKey ==
    \A r \in Requests :
      (req[r] = "inactive" /\ boot[where[r]] = "ready") => Want[r] # key[where[r]]

=============================================================================
