----------------------------- MODULE RateLimiter -----------------------------
(***************************************************************************)
(* The rate limiting middleware: a map from client addresses and API keys  *)
(* to token buckets, made on first use and thrown away when nobody used    *)
(* them for a while.  It runs before the router has matched the path, so   *)
(* the tenant in the path is not known to it.                              *)
(*                                                                         *)
(* Time is counted in the time one token takes to come back.  Finding the  *)
(* limiter and asking it are one step: the cleanup needs minutes to get    *)
(* between the two.  A client writes what it likes into X-API-Key and      *)
(* nothing checks it before it is looked up in the same map, so a key may  *)
(* be the address of this client or of another.                            *)
(*                                                                         *)
(* Some definitions are preceded by a variant of themselves with one slip  *)
(* in it.  No action uses them: they show that the properties notice.      *)
(***************************************************************************)
EXTENDS Naturals

CONSTANTS
    IPs,        \* client addresses
    Tenants,    \* what clients name as their tenant: any text, even an address
    NoTenant,
    NoBucket,
    Requests,
    Burst,      \* RateLimiter.burst
    Stale,      \* the five minutes after which cleanup drops a bucket
    MaxTime,    \* bound on time
    Addresses,  \* the address of each request,
    Headers,    \* the tenant in its X-API-Key header
    Paths       \* and the tenant in its path

Keys == IPs \cup Tenants

ASSUME ConstantsAssumption ==
    /\ NoTenant \notin Tenants
    /\ Burst \in Nat \ {0}
    /\ Stale \in Nat
    /\ MaxTime \in Nat
    /\ Addresses \in [Requests -> IPs]
    /\ Headers \in [Requests -> Tenants \cup {NoTenant}]
    /\ Paths \in [Requests -> Tenants \cup {NoTenant}]

Bucket == [tokens : 0..Burst, last : 0..MaxTime, lastSeen : 0..MaxTime]

ASSUME BucketAssumption == NoBucket \notin Bucket

VARIABLES
    now,
    visitors,  \* the map; a bucket is [tokens, last] of its limiter, lastSeen
    pc,        \* where each request is
    asked      \* what each request was told about each key

vars == <<now, visitors, pc, asked>>

TypeOK ==
    /\ now \in 0..MaxTime
    /\ visitors \in [Keys -> Bucket \cup {NoBucket}]
    /\ pc \in [Requests -> {"address", "key", "served", "rejected"}]
    /\ asked \in [Requests -> [Keys -> {"not", "allowed", "refused"}]]

Init ==
    /\ now = 0
    /\ visitors = [k \in Keys |-> NoBucket]
    /\ pc = [r \in Requests |-> "address"]
    /\ asked = [r \in Requests |-> [k \in Keys |-> "not"]]

Refilled(b) ==
    IF b.tokens + (now - b.last) < Burst THEN b.tokens + (now - b.last)
    ELSE Burst

\* The tokens a limiter would find if it were asked now.
Available(k) == IF visitors[k] = NoBucket THEN Burst ELSE Refilled(visitors[k])

AllowUnseen(r, k) ==
    /\ visitors' = [visitors EXCEPT ![k] =
                      [tokens |-> IF Available(k) > 0 THEN Available(k) - 1
                                  ELSE 0,
                       last |-> now,
                       lastSeen |-> IF visitors[k] = NoBucket THEN now
                                    ELSE visitors[k].lastSeen]]
    /\ asked' = [asked EXCEPT ![r] =
                   [@ EXCEPT ![k] = IF Available(k) > 0 THEN "allowed"
                                    ELSE "refused"]]


\* getLimiter(k).Allow()
Allow(r, k) ==
    /\ visitors' = [visitors EXCEPT ![k] =
                      [tokens |-> IF Available(k) > 0 THEN Available(k) - 1
                                  ELSE 0,
                       last |-> now, lastSeen |-> now]]
    /\ asked' = [asked EXCEPT ![r] =
                   [@ EXCEPT ![k] = IF Available(k) > 0 THEN "allowed"
                                    ELSE "refused"]]

ChargeAddress(r) ==
    /\ pc[r] = "address"
    /\ Allow(r, Addresses[r])
    /\ pc' = [pc EXCEPT ![r] = IF Available(Addresses[r]) = 0 THEN "rejected"
                               ELSE IF Headers[r] = NoTenant THEN "served"
                               ELSE "key"]
    /\ UNCHANGED now

ChargeKeyLeniently(r) ==
    /\ pc[r] = "key"
    /\ Allow(r, Headers[r])
    /\ pc' = [pc EXCEPT ![r] = "served"]
    /\ UNCHANGED now

ChargeKey(r) ==
    /\ pc[r] = "key"
    /\ Allow(r, Headers[r])
    /\ pc' = [pc EXCEPT ![r] = IF Available(Headers[r]) = 0 THEN "rejected"
                               ELSE "served"]
    /\ UNCHANGED now

Cleanup ==
    /\ visitors' = [k \in Keys |->
                      IF /\ visitors[k] # NoBucket
                         /\ now - visitors[k].lastSeen > Stale
                      THEN NoBucket ELSE visitors[k]]
    /\ UNCHANGED <<now, pc, asked>>

Tick ==
    /\ now < MaxTime
    /\ now' = now + 1
    /\ UNCHANGED <<visitors, pc, asked>>

Next ==
    \/ \E r \in Requests : ChargeAddress(r) \/ ChargeKey(r)
    \/ Cleanup
    \/ Tick

Spec == Init /\ [][Next]_vars

-----------------------------------------------------------------------------
(* Properties                                                              *)

\* Throwing buckets away is invisible: each key is limited as if its bucket
\* were kept for ever, provided a bucket is full again before it is stale.
Limiter == INSTANCE TokenBucket WITH
    tokens <- [k \in Keys |-> Available(k)]

ImplementsBucket == Limiter!Spec

Charged(r) == {Addresses[r]} \cup ({Headers[r]} \ {NoTenant})

\* What was told of every bucket tells where the request got to.
Paid(r) ==
    /\ \A k \in Keys \ Charged(r) : asked[r][k] = "not"
    /\ pc[r] = "served" => \A k \in Charged(r) : asked[r][k] = "allowed"
    /\ pc[r] = "rejected" =>
         \/ /\ asked[r][Addresses[r]] = "refused"
            /\ \A k \in Keys \ {Addresses[r]} : asked[r][k] = "not"
         \/ /\ Headers[r] # NoTenant
            /\ asked[r][Headers[r]] = "refused"
            /\ Headers[r] # Addresses[r] => asked[r][Addresses[r]] = "allowed"

\* A request is served when, and only when, its address and then its API key
\* had a token for it; one that its key refuses has spent the token of its
\* address all the same, and one that its address refuses has asked no other
\* bucket.  Nobody else's bucket is ever asked for it.
ServedPaid == \A r \in Requests : Paid(r)

\* "For routes without a tenant key, the client IP is used as fallback": with
\* one, a request is turned away for the sake of its tenant's bucket alone.
AddressIsFallback ==
    \A r \in Requests :
      (pc[r] = "rejected" /\ Headers[r] # NoTenant) =>
        asked[r][Headers[r]] = "refused"

\* "The rate-limit key is the tenantID extracted from the URL path parameter":
\* a request for a tenant is served only when its bucket had a token.
PathIsKey ==
    \A r \in Requests :
      (pc[r] = "served" /\ Paths[r] # NoTenant) => asked[r][Paths[r]] = "allowed"

=============================================================================
