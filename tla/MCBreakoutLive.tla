--------------------------- MODULE MCBreakoutLive ---------------------------
(* Instances of BreakoutLive for TLC. *)
EXTENDS BreakoutLive

CONSTANTS o1, o2, p1, p2

OnePair == [o \in Orders |-> p1]
TwoPairs == [o \in Orders |-> IF o = o1 THEN p1 ELSE p2]

(* Directions and prices are none of this module's business. *)
AllLong == [o \in Orders |-> "LONG"]
NoPrice == [o \in Orders |-> 0]
=============================================================================
