-------------------------- MODULE RateLimiter_proofs --------------------------
(***************************************************************************)
(* The rate limiter implements one bucket per key that is never thrown     *)
(* away, for any set of requests, if a bucket is full again by the time    *)
(* the cleanup may drop it: Burst tokens come back in less than Stale + 1  *)
(* units of time.  The default of 100 requests a second with a burst of    *)
(* 200 fills a bucket in two seconds; it goes stale in 300.                *)
(***************************************************************************)
EXTENDS RateLimiter, TLAPS

\* The limiter was asked last when the visitor was last seen.
BucketsFit ==
    \A k \in Keys : visitors[k] # NoBucket =>
        /\ visitors[k].last <= now
        /\ visitors[k].lastSeen = visitors[k].last

\* Only a request with a key is charged to one.
KeyKnown == \A r \in Requests : pc[r] = "key" => Headers[r] # NoTenant

RateInv == TypeOK /\ BucketsFit /\ KeyKnown

LEMMA AvailableType ==
  ASSUME RateInv, NEW k \in Keys
  PROVE Available(k) \in 0..Burst
<1>1. CASE visitors[k] = NoBucket
      BY <1>1, ConstantsAssumption DEF Available
<1>2. CASE visitors[k] # NoBucket
  <2>1. visitors[k] \in Bucket /\ now \in Nat /\ Burst \in Nat /\ MaxTime \in Nat
        BY <1>2, ConstantsAssumption DEF RateInv, TypeOK
  <2>2. visitors[k].tokens \in 0..Burst /\ now - visitors[k].last \in Nat
        BY <1>2, <2>1 DEF RateInv, BucketsFit, Bucket
  <2> QED  BY <1>2, <2>1, <2>2 DEF Available, Refilled
<1> QED  BY <1>1, <1>2

LEMMA KeyTypes ==
  ASSUME NEW r \in Requests
  PROVE /\ Addresses[r] \in Keys
        /\ Headers[r] # NoTenant => Headers[r] \in Keys
  BY ConstantsAssumption DEF Keys

\* A charge leaves the bucket with what it found, less the token it takes.
LEMMA AllowStep ==
  ASSUME RateInv, NEW r \in Requests, NEW k \in Keys, Allow(r, k), now' = now
  PROVE /\ visitors' \in [Keys -> Bucket \cup {NoBucket}]
        /\ BucketsFit'
        /\ asked' \in [Requests -> [Keys -> {"not", "allowed", "refused"}]]
        /\ Available(k)' = IF Available(k) > 0 THEN Available(k) - 1 ELSE 0
        /\ \A j \in Keys \ {k} : Available(j)' = Available(j)
<1> DEFINE left == IF Available(k) > 0 THEN Available(k) - 1 ELSE 0
           b == [tokens |-> left, last |-> now, lastSeen |-> now]
<1>1. left \in 0..Burst /\ now \in 0..MaxTime /\ Burst \in Nat /\ now \in Nat
      BY AvailableType, ConstantsAssumption DEF RateInv, TypeOK
<1>2. b \in Bucket /\ b # NoBucket
      BY <1>1, BucketAssumption DEF Bucket
<1>3. visitors' = [visitors EXCEPT ![k] = b]
      BY DEF Allow
<1>4. /\ visitors' \in [Keys -> Bucket \cup {NoBucket}]
      /\ visitors'[k] = b
      /\ \A j \in Keys \ {k} : visitors'[j] = visitors[j]
      BY <1>2, <1>3 DEF RateInv, TypeOK
<1>5. b.last = now /\ b.lastSeen = now /\ b.tokens = left
      OBVIOUS
<1>6. BucketsFit'
      BY <1>1, <1>4, <1>5 DEF BucketsFit, RateInv
<1>7. asked' \in [Requests -> [Keys -> {"not", "allowed", "refused"}]]
      BY DEF Allow, RateInv, TypeOK
<1>8. Available(k)' = left
      BY <1>1, <1>2, <1>4, <1>5 DEF Available, Refilled
<1>9. \A j \in Keys \ {k} : Available(j)' = Available(j)
      BY <1>4 DEF Available, Refilled
<1> QED  BY <1>4, <1>6, <1>7, <1>8, <1>9

LEMMA InitRate == Init => RateInv
  BY ConstantsAssumption DEF Init, RateInv, TypeOK, BucketsFit, KeyKnown

LEMMA StepRate == RateInv /\ [Next]_vars => RateInv'
<1> SUFFICES ASSUME RateInv, [Next]_vars PROVE RateInv'
    OBVIOUS
<1>1. ASSUME NEW r \in Requests, ChargeAddress(r) PROVE RateInv'
  <2>1. Allow(r, Addresses[r]) /\ now' = now /\ Addresses[r] \in Keys
        BY <1>1, KeyTypes DEF ChargeAddress
  <2>2. pc' \in [Requests -> {"address", "key", "served", "rejected"}]
        BY <1>1 DEF ChargeAddress, RateInv, TypeOK
  <2>3. KeyKnown'
        BY <1>1 DEF ChargeAddress, RateInv, TypeOK, KeyKnown
  <2> QED  BY <2>1, <2>2, <2>3, AllowStep DEF RateInv, TypeOK
<1>2. ASSUME NEW r \in Requests, ChargeKey(r) PROVE RateInv'
  <2>1. Allow(r, Headers[r]) /\ now' = now /\ Headers[r] \in Keys
        BY <1>2, KeyTypes DEF ChargeKey, RateInv, KeyKnown
  <2>2. pc' \in [Requests -> {"address", "key", "served", "rejected"}]
        BY <1>2 DEF ChargeKey, RateInv, TypeOK
  <2>3. KeyKnown'
        BY <1>2 DEF ChargeKey, RateInv, TypeOK, KeyKnown
  <2> QED  BY <2>1, <2>2, <2>3, AllowStep DEF RateInv, TypeOK
<1>3. CASE Cleanup
      BY <1>3 DEF Cleanup, RateInv, TypeOK, BucketsFit, KeyKnown
<1>4. CASE Tick
  <2>1. now \in Nat /\ now' = now + 1 /\ now' \in 0..MaxTime /\ MaxTime \in Nat
        BY <1>4, ConstantsAssumption DEF Tick, RateInv, TypeOK
  <2>2. UNCHANGED <<visitors, pc, asked>>
        BY <1>4 DEF Tick
  <2>3. TypeOK'
        BY <2>1, <2>2 DEF RateInv, TypeOK
  <2>4. ASSUME NEW k \in Keys, visitors[k] # NoBucket
        PROVE visitors[k].last <= now' /\ visitors[k].lastSeen = visitors[k].last
    <3>1. visitors[k].last \in Nat /\ visitors[k].last <= now
          BY <2>1, <2>4 DEF RateInv, TypeOK, BucketsFit, Bucket
    <3> QED  BY <2>1, <2>4, <3>1 DEF RateInv, BucketsFit
  <2>5. BucketsFit'
        BY <2>2, <2>4 DEF BucketsFit
  <2>6. KeyKnown'
        BY <2>2 DEF KeyKnown, RateInv
  <2> QED  BY <2>3, <2>5, <2>6 DEF RateInv
<1>5. CASE UNCHANGED vars
      BY <1>5 DEF vars, RateInv, TypeOK, BucketsFit, KeyKnown
<1> QED  BY <1>1, <1>2, <1>3, <1>4, <1>5 DEF Next

LEMMA RateInvariant == Spec => []RateInv
<1>1. Init => RateInv
      BY InitRate
<1>2. RateInv /\ [Next]_vars => RateInv'
      BY StepRate
<1> QED  BY <1>1, <1>2, PTL DEF Spec

\* The map, the clock and the requests are well typed in every reachable
\* state; a bucket never holds more than Burst tokens.
THEOREM RateTypes == Spec => []TypeOK
<1>1. RateInv => TypeOK
      BY DEF RateInv
<1> QED  BY <1>1, RateInvariant, PTL

-----------------------------------------------------------------------------
(* Who is served.                                                          *)

\* What a request was told by the time it is where it is: nothing before its
\* address is charged, and nothing of another key before its own key is asked,
\* which needs a token of its address.
ToldSoFar(r) ==
    /\ pc[r] = "address" => \A k \in Keys : asked[r][k] = "not"
    /\ pc[r] = "key" => /\ asked[r][Addresses[r]] = "allowed"
                        /\ \A k \in Keys \ {Addresses[r]} : asked[r][k] = "not"

Told == \A r \in Requests : ToldSoFar(r)

ChargedInv == RateInv /\ Told /\ ServedPaid

\* A charge tells one request about one key.
LEMMA AllowTells ==
  ASSUME TypeOK, NEW r \in Requests, NEW k \in Keys, Allow(r, k)
  PROVE /\ asked'[r][k] = IF Available(k) > 0 THEN "allowed" ELSE "refused"
        /\ \A j \in Keys \ {k} : asked'[r][j] = asked[r][j]
        /\ \A q \in Requests \ {r} : asked'[q] = asked[q]
  BY DEF Allow, TypeOK

\* A request that is not charged is where it was.
LEMMA OthersKept ==
  ASSUME ChargedInv, NEW r \in Requests,
         \A q \in Requests \ {r} : asked'[q] = asked[q] /\ pc'[q] = pc[q],
         ToldSoFar(r)', Paid(r)'
  PROVE (Told /\ ServedPaid)'
<1>1. ASSUME NEW q \in Requests PROVE ToldSoFar(q)' /\ Paid(q)'
  <2>1. CASE q = r
        BY <2>1
  <2>2. CASE q # r
    <3>1. ToldSoFar(q) /\ Paid(q)
          BY DEF ChargedInv, Told, ServedPaid
    <3>2. asked'[q] = asked[q] /\ pc'[q] = pc[q]
          BY <2>2
    <3> QED  BY <3>1, <3>2 DEF ToldSoFar, Paid, Charged
  <2> QED  BY <2>1, <2>2
<1> QED  BY <1>1 DEF Told, ServedPaid

LEMMA ChargeAddressPaid ==
  ASSUME ChargedInv, NEW r \in Requests, ChargeAddress(r)
  PROVE (Told /\ ServedPaid)'
<1> DEFINE a == Addresses[r]
<1>1. TypeOK /\ Allow(r, a) /\ a \in Keys /\ pc[r] = "address"
      BY KeyTypes DEF ChargeAddress, ChargedInv, RateInv
<1>2. /\ asked'[r][a] = IF Available(a) > 0 THEN "allowed" ELSE "refused"
      /\ \A j \in Keys \ {a} : asked'[r][j] = "not"
      /\ \A q \in Requests \ {r} : asked'[q] = asked[q] /\ pc'[q] = pc[q]
      BY <1>1, AllowTells DEF ChargedInv, Told, ToldSoFar, ChargeAddress, TypeOK
<1>3. Available(a) \in Nat
      BY <1>1, AvailableType, ConstantsAssumption DEF ChargedInv
<1>4. ToldSoFar(r)' /\ Paid(r)'
  <2>1. CASE Available(a) = 0
    <3>1. pc'[r] = "rejected" /\ asked'[r][a] = "refused"
          BY <1>1, <1>2, <2>1 DEF ChargeAddress, TypeOK
    <3> QED  BY <1>2, <3>1 DEF ToldSoFar, Paid, Charged
  <2>2. CASE Available(a) # 0
    <3>1. /\ pc'[r] = IF Headers[r] = NoTenant THEN "served" ELSE "key"
          /\ asked'[r][a] = "allowed"
          BY <1>1, <1>2, <1>3, <2>2 DEF ChargeAddress, TypeOK
    <3> QED  BY <1>2, <3>1 DEF ToldSoFar, Paid, Charged
  <2> QED  BY <2>1, <2>2
<1> QED  BY <1>2, <1>4, OthersKept

\* A key that is the address itself is told of its second charge.
LEMMA ChargeKeyPaid ==
  ASSUME ChargedInv, NEW r \in Requests, ChargeKey(r)
  PROVE (Told /\ ServedPaid)'
<1> DEFINE h == Headers[r]
           a == Addresses[r]
<1>1. /\ TypeOK /\ Allow(r, h) /\ h \in Keys /\ a \in Keys
      /\ pc[r] = "key" /\ h # NoTenant
      BY KeyTypes DEF ChargeKey, ChargedInv, RateInv, KeyKnown
<1>2. /\ asked'[r][h] = IF Available(h) > 0 THEN "allowed" ELSE "refused"
      /\ \A j \in Keys \ {h} : asked'[r][j] = asked[r][j]
      /\ \A q \in Requests \ {r} : asked'[q] = asked[q] /\ pc'[q] = pc[q]
      BY <1>1, AllowTells DEF ChargeKey, TypeOK
<1>3. Available(h) \in Nat
      BY <1>1, AvailableType, ConstantsAssumption DEF ChargedInv
<1>4. /\ asked[r][a] = "allowed"
      /\ \A k \in Keys \ {a} : asked[r][k] = "not"
      BY <1>1 DEF ChargedInv, Told, ToldSoFar
<1>5. /\ h # a => asked'[r][a] = "allowed"
      /\ \A k \in Keys \ Charged(r) : asked'[r][k] = "not"
      BY <1>1, <1>2, <1>4 DEF Charged
<1>6. ToldSoFar(r)' /\ Paid(r)'
  <2>1. CASE Available(h) = 0
    <3>1. pc'[r] = "rejected" /\ asked'[r][h] = "refused"
          BY <1>1, <1>2, <2>1 DEF ChargeKey, TypeOK
    <3> QED  BY <1>1, <1>5, <3>1 DEF ToldSoFar, Paid, Charged
  <2>2. CASE Available(h) # 0
    <3>1. pc'[r] = "served" /\ asked'[r][h] = "allowed"
          BY <1>1, <1>2, <1>3, <2>2 DEF ChargeKey, TypeOK
    <3> QED  BY <1>5, <3>1 DEF ToldSoFar, Paid, Charged
  <2> QED  BY <2>1, <2>2
<1> QED  BY <1>2, <1>6, OthersKept

\* A request is served when, and only when, its address and then its key had a
\* token for it; one refused by its key leaves the token of its address spent:
\* no order of charges, drops and ticks lets one through unpaid or turns one
\* away that paid.
THEOREM ServedHavePaid == Spec => []ServedPaid
<1>1. Init => ChargedInv
      BY InitRate DEF Init, ChargedInv, Told, ToldSoFar, ServedPaid, Paid
<1>2. ChargedInv /\ [Next]_vars => ChargedInv'
  <2> SUFFICES ASSUME ChargedInv, [Next]_vars PROVE (Told /\ ServedPaid)'
      BY StepRate DEF ChargedInv
  <2>1. CASE UNCHANGED <<pc, asked>>
        BY <2>1 DEF ChargedInv, Told, ToldSoFar, ServedPaid, Paid, Charged
  <2> QED  BY <2>1, ChargeAddressPaid, ChargeKeyPaid
           DEF Next, Cleanup, Tick, vars
<1>3. ChargedInv => ServedPaid
      BY DEF ChargedInv
<1> QED  BY <1>1, <1>2, <1>3, PTL DEF Spec

-----------------------------------------------------------------------------
(* The refinement.                                                         *)

\* A bucket that the cleanup may drop has had the time to fill up.
FullBeforeStale == Burst <= Stale + 1

\* A charge is a step of the bucket that is charged, and of no other.
LEMMA AllowMaps ==
  ASSUME RateInv, NEW r \in Requests, NEW k \in Keys, Allow(r, k), now' = now
  PROVE Limiter!Allow(r, k) \/ Limiter!Refuse(r, k)
<1> DEFINE t == [j \in Keys |-> Available(j)]
<1>1. /\ Available(k)' = IF Available(k) > 0 THEN Available(k) - 1 ELSE 0
      /\ \A j \in Keys \ {k} : Available(j)' = Available(j)
      BY AllowStep
<1>2. Available(k) \in Nat
      BY AvailableType, ConstantsAssumption
<1>3. CASE Available(k) > 0
  <2>1. t' = [t EXCEPT ![k] = @ - 1]
        BY <1>1, <1>3
  <2>2. asked' = [asked EXCEPT ![r] = [@ EXCEPT ![k] = "allowed"]]
        BY <1>3 DEF Allow
  <2>3. t[k] > 0
        BY <1>3
  <2>4. now' = now
        OBVIOUS
  <2> QED  BY <2>1, <2>2, <2>3, <2>4 DEF Limiter!Allow, Limiter!Told
<1>4. CASE ~(Available(k) > 0)
  <2>1. Available(k) = 0
        BY <1>2, <1>4
  <2>2. t' = t
        BY <1>1, <2>1
  <2>3. asked' = [asked EXCEPT ![r] = [@ EXCEPT ![k] = "refused"]]
        BY <1>4 DEF Allow
  <2>4. t[k] = 0
        BY <2>1
  <2>5. now' = now
        OBVIOUS
  <2> QED  BY <2>2, <2>3, <2>4, <2>5 DEF Limiter!Refuse, Limiter!Told
<1> QED  BY <1>3, <1>4

\* Nothing is lost with a bucket that the cleanup drops: it was full.
LEMMA CleanupKeepsTokens ==
  ASSUME RateInv, FullBeforeStale, Cleanup, NEW k \in Keys
  PROVE Available(k)' = Available(k)
<1>1. now' = now
      BY DEF Cleanup
<1>2. CASE /\ visitors[k] # NoBucket
           /\ now - visitors[k].lastSeen > Stale
  <2>1. visitors'[k] = NoBucket
        BY <1>2 DEF Cleanup
  <2>2. /\ visitors[k].tokens \in Nat
        /\ visitors[k].last \in Nat
        /\ visitors[k].lastSeen = visitors[k].last
        /\ now \in Nat /\ Burst \in Nat /\ Stale \in Nat
        BY <1>2, ConstantsAssumption DEF RateInv, TypeOK, BucketsFit, Bucket
  <2>3. visitors[k].tokens + (now - visitors[k].last) >= Burst
        BY <1>2, <2>2 DEF FullBeforeStale
  <2>4. Available(k) = Burst
        BY <1>2, <2>2, <2>3 DEF Available, Refilled
  <2> QED  BY <2>1, <2>4 DEF Available
<1>3. CASE ~(/\ visitors[k] # NoBucket
             /\ now - visitors[k].lastSeen > Stale)
  <2>1. visitors'[k] = visitors[k]
        BY <1>3 DEF Cleanup
  <2> QED  BY <1>1, <2>1 DEF Available, Refilled
<1> QED  BY <1>2, <1>3

\* A unit of time brings every bucket one token, up to Burst.
LEMMA TickRefills ==
  ASSUME RateInv, Tick, NEW k \in Keys
  PROVE Available(k)' = IF Available(k) < Burst THEN Available(k) + 1
                        ELSE Available(k)
<1>1. /\ now' = now + 1 /\ now \in Nat /\ Burst \in Nat
      /\ visitors' = visitors
      BY ConstantsAssumption DEF Tick, RateInv, TypeOK
<1>2. CASE visitors[k] = NoBucket
      BY <1>1, <1>2 DEF Available
<1>3. CASE visitors[k] # NoBucket
  <2>1. PICK tokens \in Nat, last \in Nat :
          tokens = visitors[k].tokens /\ last = visitors[k].last
        BY <1>3, ConstantsAssumption DEF RateInv, TypeOK, Bucket
  <2>2. Available(k) = IF tokens + (now - last) < Burst
                       THEN tokens + (now - last) ELSE Burst
        BY <1>3, <2>1 DEF Available, Refilled
  <2>3. Available(k)' = IF tokens + ((now + 1) - last) < Burst
                        THEN tokens + ((now + 1) - last) ELSE Burst
        BY <1>1, <1>3, <2>1 DEF Available, Refilled
  <2>4. CASE tokens + (now - last) < Burst
    <3>1. Available(k) = tokens + (now - last) /\ Available(k) < Burst
          BY <2>2, <2>4
    <3>2. Available(k)' = tokens + (now - last) + 1
          BY <1>1, <2>1, <2>3, <2>4
    <3> QED  BY <3>1, <3>2
  <2>5. CASE ~(tokens + (now - last) < Burst)
    <3>1. Available(k) = Burst /\ ~(Available(k) < Burst)
          BY <1>1, <2>2, <2>5
    <3>2. Available(k)' = Burst
          BY <1>1, <2>1, <2>3, <2>5
    <3> QED  BY <3>1, <3>2
  <2> QED  BY <2>4, <2>5
<1> QED  BY <1>2, <1>3

LEMMA InitMaps == Init => Limiter!Init
<1> SUFFICES ASSUME Init PROVE Limiter!Init
    OBVIOUS
<1>1. [k \in Keys |-> Available(k)] = [k \in Keys |-> Burst]
      BY DEF Init, Available
<1> QED  BY <1>1 DEF Init, Limiter!Init

LEMMA StepMaps ==
  ASSUME RateInv, FullBeforeStale, [Next]_vars
  PROVE [Limiter!Next]_(Limiter!vars)
<1> DEFINE t == [k \in Keys |-> Available(k)]
<1>1. ASSUME NEW r \in Requests, ChargeAddress(r) PROVE Limiter!Next
  <2>1. Allow(r, Addresses[r]) /\ now' = now /\ Addresses[r] \in Keys
        BY <1>1, KeyTypes DEF ChargeAddress
  <2> QED  BY <2>1, AllowMaps DEF Limiter!Next
<1>2. ASSUME NEW r \in Requests, ChargeKey(r) PROVE Limiter!Next
  <2>1. Allow(r, Headers[r]) /\ now' = now /\ Headers[r] \in Keys
        BY <1>2, KeyTypes DEF ChargeKey, RateInv, KeyKnown
  <2> QED  BY <2>1, AllowMaps DEF Limiter!Next
<1>3. CASE Cleanup
  <2>1. t' = t
        BY <1>3, CleanupKeepsTokens
  <2> QED  BY <1>3, <2>1 DEF Cleanup, Limiter!vars
<1>4. CASE Tick
  <2>1. t' = [k \in Keys |-> IF t[k] < Burst THEN t[k] + 1 ELSE t[k]]
        BY <1>4, TickRefills
  <2> QED  BY <1>4, <2>1 DEF Tick, Limiter!Refill, Limiter!Next
<1>5. CASE UNCHANGED vars
  <2>1. t' = t
        BY <1>5 DEF vars, Available, Refilled
  <2> QED  BY <1>5, <2>1 DEF vars, Limiter!vars
<1> QED  BY <1>1, <1>2, <1>3, <1>4, <1>5 DEF Next

\* Dropping buckets is invisible: for any keys and requests, the middleware
\* answers as if every bucket were kept for ever, if a bucket is full again
\* before it is stale.
THEOREM BucketImplemented == FullBeforeStale => (Spec => ImplementsBucket)
<1> SUFFICES ASSUME FullBeforeStale PROVE Spec => ImplementsBucket
    OBVIOUS
<1>1. Init => Limiter!Init
      BY InitMaps
<1>2. RateInv /\ [Next]_vars => [Limiter!Next]_(Limiter!vars)
      BY StepMaps
<1> QED  BY <1>1, <1>2, RateInvariant, PTL
         DEF Spec, ImplementsBucket, Limiter!Spec

=============================================================================
