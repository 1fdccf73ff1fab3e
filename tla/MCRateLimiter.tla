---------------------------- MODULE MCRateLimiter ----------------------------
(* Instances of RateLimiter small enough for TLC.                          *)
EXTENDS RateLimiter, TLC

CONSTANTS ip1, ip2, t1, t2, r1, r2, r3, r4, r5

\* Two clients of one tenant, a request that names its own address as its key,
\* one that names the address of another client, and one without a key.
SomeAddresses == r1 :> ip1 @@ r2 :> ip2 @@ r3 :> ip1 @@ r4 :> ip2 @@ r5 :> ip2
SomeHeaders == r1 :> t1 @@ r2 :> t1 @@ r3 :> ip1 @@ r4 :> ip1 @@
               r5 :> NoTenant
NoHeaders == [r \in Requests |-> NoTenant]
NoPaths == [r \in Requests |-> NoTenant]
OnePath == [r \in Requests |-> t1]

\* Two tenants behind one address.
OneAddress == [r \in Requests |-> ip1]
TwoTenants == r1 :> t1 @@ r2 :> t2

=============================================================================
