--------------------------- MODULE DualGridLedger ---------------------------
(* The grid engine implements OrderLedger. *)
EXTENDS DualGridProperties

Waits(o) == \E i \in DOMAIN OwnGrid(o) : /\ OwnGrid(o)[i].cid = o
                                         /\ IsPending(OwnGrid(o)[i])
IsOver(o) == order[o] \in {"closed", "dead"}
IsAsked(o) == job.pc = "place" /\ job.cur = o

(* The first that applies. *)
StageOf(o) ==
    IF order[o] = "free"           THEN "unsent"
    ELSE IF HasPid(OwnGrid(o), o)  THEN "open"
    ELSE IF Waits(o) /\ IsOver(o)  THEN "stale"
    ELSE IF Waits(o)               THEN "pending"
    ELSE IF IsAsked(o)             THEN "asked"
    ELSE IF IsOver(o)              THEN "over"
    ELSE "missed"

Ledger == INSTANCE OrderLedger WITH stage <- [o \in Orders |-> StageOf(o)]

(* Where all orders of a pair go one way and the process lives, every      *)
(* order goes through the stages of the ledger: an order gets its level    *)
(* from the answer to its placement and from nothing later, an open level  *)
(* never waits for a fill again, and what the book has lost comes back as  *)
(* a position or not at all (_place_grid_order, _restore_broker_position,  *)
(* on_order_filled, _remove_pending_level, _reconcile_positions).          *)
KeepsLedger == Ledger!Spec
=============================================================================
