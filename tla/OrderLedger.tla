----------------------------- MODULE OrderLedger -----------------------------
(***************************************************************************)
(* What the grid engine promises of its bookkeeping, whatever its grids,   *)
(* metadata and handlers look like: to somebody who reads the book of the  *)
(* engine beside the list of the broker, every order is in one of a few    *)
(* stages.  It is asked for once, it waits for its fill in one stretch,    *)
(* and what the book has lost comes back as a position or not at all.      *)
(***************************************************************************)
CONSTANT Orders

VARIABLE stage

Stages == {
    "unsent",   \* an order that was never placed
    "asked",    \* placed, and the engine waits for the answer
    "pending",  \* it has a level that waits for its fill
    "stale",    \* such a level, of an order that has come to its end
    "open",     \* it has a level that names its position
    "missed",   \* it rests at the broker or has a position, without a level
    "over"}     \* neither the broker nor the book has it any more

(* A stale answer of the broker can drop the level of an open position and *)
(* bring back a position that is over.  A position adopted beside the      *)
(* level of its own order leaves that level behind, stale.                 *)
After == [
    unsent  |-> {"asked"},
    asked   |-> {"pending", "stale", "missed", "over"},
    pending |-> {"open", "stale", "missed", "over"},
    stale   |-> {"open", "over"},
    open    |-> {"stale", "missed", "over"},
    missed  |-> {"open", "over"},
    over    |-> {"open"}]

Init == stage = [o \in Orders |-> "unsent"]

Next ==
    /\ stage' \in [Orders -> Stages]
    /\ \A o \in Orders : stage'[o] \in {stage[o]} \cup After[stage[o]]

Spec == Init /\ [][Next]_stage
=============================================================================
