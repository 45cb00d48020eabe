----------------------------- MODULE MCDualGrid -----------------------------
(* Instances of DualGridEngine for TLC. *)
EXTENDS DualGridLedger

CONSTANTS o1, o2, p1, p2

OnePair == [o \in Orders |-> p1]
TwoPairs == [o \in Orders |-> IF o = o1 THEN p1 ELSE p2]

AllLong == [o \in Orders |-> "LONG"]
Mixed == [o \in Orders |-> IF o = o1 THEN "LONG" ELSE "SHORT"]

(* Farther apart than GridStep = 2 and, in the first, than Width = 1. *)
Prices == [o \in Orders |-> IF o = o1 THEN 0 ELSE 3]
(* The fill of o2 is better than its limit by more than the tolerance. *)
Slipped == [o \in Orders |-> IF o = o1 THEN 0 ELSE 2]
=============================================================================
