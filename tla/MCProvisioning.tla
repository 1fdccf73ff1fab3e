---------------------------- MODULE MCProvisioning ----------------------------
(* Instances of Provisioning small enough for TLC.                         *)
EXTENDS Provisioning, TLC

CONSTANTS i1, i2, c1, r1, r2, k1, k2, k3, z1, z2

WantKey == r1 :> k1

\* Two configurations that left the name at its default, and one that did not.
OneName == k1 :> "Default Space"
TwoNames == OneName @@ k2 :> "Default Space" @@ k3 :> "Notes"

=============================================================================
