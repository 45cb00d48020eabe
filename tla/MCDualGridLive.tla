--------------------------- MODULE MCDualGridLive ---------------------------
(* Instances of DualGridLive for TLC. *)
EXTENDS DualGridLive

CONSTANTS o1, p1

OnePair == [o \in Orders |-> p1]
AllLong == [o \in Orders |-> "LONG"]
Prices == [o \in Orders |-> 0]
=============================================================================
