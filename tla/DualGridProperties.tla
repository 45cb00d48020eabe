------------------------- MODULE DualGridProperties -------------------------
(***************************************************************************)
(* What the grid engine keeps true, and what the repository's documents    *)
(* say of it that its code does not do.                                    *)
(***************************************************************************)
EXTENDS DualGridEngine

BrokerType ==
    /\ order \in [Orders -> OrderStates]
    /\ cancelReq \subseteq Orders /\ closeReq \subseteq Orders
    /\ events \in Seq(Event)

BookType ==
    /\ grids \in [Pairs -> [Dirs -> Seq(Level)]]
    /\ meta \in [Orders -> Meta]
    /\ tracked \in [Pairs -> OrderOrNone]
    /\ mapped \subseteq Orders

ControlType ==
    /\ lastMode \in AllVerdicts /\ halted \in BOOLEAN
    /\ cache \in Snapshot \cup {NoSnap}
    /\ polled \subseteq Pairs
    /\ job \in Job
    /\ crashes \in Nat

(* Every variable keeps its type: the counter of awaited events never goes *)
(* below zero, and no loop of the handler walks over anything but orders.  *)
TypeOK == BrokerType /\ BookType /\ ControlType

(* A client order id names at most one level of a grid: every removal and  *)
(* every fill looks its level up by this id and takes the first.           *)
CidUnique == \A p \in Pairs, d \in Dirs : UniqueCids(grids[p][d])

(* An order with an entry in pending_order_metadata has its pending level  *)
(* in the grid of its own pair and direction, whatever fills, timeouts,    *)
(* restarts and wrong-grid duplicates happened: no entry outlives the      *)
(* level it is there to time out.                                          *)
MetaHasLevel ==
    \A o \in Orders : HasMeta(o) =>
        \E i \in DOMAIN OwnGrid(o) : OwnGrid(o)[i].cid = o /\ IsPending(OwnGrid(o)[i])

(* Where all orders go one way, the converse: every pending level has the  *)
(* metadata the TTL check finds it by.  A pending level without it would   *)
(* stay until the next global close.                                       *)
PendingHasMeta ==
    \A p \in Pairs, d \in Dirs : \A i \in DOMAIN grids[p][d] :
        IsPending(grids[p][d][i]) => HasMeta(grids[p][d][i].cid)

(* While Reconcile answers, the engine never has two orders it knows of    *)
(* resting in one grid: the duplicate check before a placement sees every  *)
(* order that is still at the broker, also one that an event is under way  *)
(* for.                                                                    *)
OneKnownOrderPerGrid ==
    \A o, c \in Orders :
        /\ HasMeta(o) /\ HasMeta(c)
        /\ order[o] = "working" /\ order[c] = "working"
        /\ PairOf[o] = PairOf[c] /\ DirOf[o] = DirOf[c]
        => o = c

(* A level that is taken for open names a position that the broker has or  *)
(* had, and of the pair of its grid.                                       *)
FilledLevelsAreReal ==
    \A p \in Pairs, d \in Dirs : \A i \in DOMAIN grids[p][d] :
        LET pid == grids[p][d][i].pid IN
        pid # NoOrder => order[pid] \in {"open", "closed"} /\ PairOf[pid] = p

(* Before positions are listed for closing, the sweeps have left no pair   *)
(* with a level that still waits for its order or with metadata of one.    *)
NothingPendingWhenClosing ==
    job.pc \in {"cl_list", "cl_loop", "cl_check"} =>
        /\ \A o \in Orders : ~HasMeta(o)
        /\ \A p \in Pairs, d \in Dirs : \A i \in DOMAIN grids[p][d] :
             ~IsPending(grids[p][d][i])

-----------------------------------------------------------------------------
(* Progress *)

(* The event loop goes on: the handler is resumed when what it awaits is   *)
(* there or timed out, and bars keep coming; pushed events are read; a     *)
(* Reconcile is answered or times out; time passes.  Nothing is asked of   *)
(* the broker.                                                             *)
Fairness ==
    /\ WF_vars(Engine) /\ WF_vars(Deliver) /\ WF_vars(ServeReconcile)
    /\ WF_vars(CacheExpires)
    /\ \A o \in Orders : WF_vars(Age(o))

FairSpec == Spec /\ Fairness

(* Every bar, and the bootstrap, comes to an end. *)
BarEnds == job.pc # "idle" ~> job.pc = "idle"

(* The level of an order that was rejected, expired or cancelled does not  *)
(* stay: nothing removes it when the event arrives, the TTL check must.    *)
PhantomsGo ==
    \A o \in Orders :
        (order[o] = "dead" /\ HasCid(OwnGrid(o), o))
            ~> (~HasCid(OwnGrid(o), o) \/ halted)

(* An open position gets a level, or is closed, whatever became of the     *)
(* level it was ordered for.                                               *)
PositionsGetKnown ==
    \A o \in Orders :
        order[o] = "open" ~> (order[o] # "open" \/ HasPid(OwnGrid(o), o) \/ halted)

-----------------------------------------------------------------------------
(* Documented, and not so *)

(* "Freeze ... new levels are not opened" *)
FreezeSendsNothing ==
    [][\A o \in Orders :
         (order[o] = "free" /\ order'[o] = "sent") => job.verdict # "FREEZE"]_vars

(* "both grids work at once, without influence on each other's levels" *)
LevelsInOwnGrid ==
    \A p \in Pairs, d \in Dirs : \A i \in DOMAIN grids[p][d] :
        LET cid == grids[p][d][i].cid IN
        cid # NoOrder => PairOf[cid] = p /\ DirOf[cid] = d

(* "hard ceiling MAX_GRID_LEVELS per grid" *)
PositionsWithinCap ==
    \A p \in Pairs, d \in Dirs :
        Cardinality({o \in Positions : PairOf[o] = p /\ DirOf[o] = d}) <= MaxLevels

(* A position is matched with the order that was filled at its price. *)
LevelNamesItsPosition ==
    \A p \in Pairs, d \in Dirs : \A i \in DOMAIN grids[p][d] :
        LET level == grids[p][d][i] IN
        (level.cid # NoOrder /\ level.pid # NoOrder) => level.cid = level.pid

(* Step 0 removes the positions the broker does not have. *)
DropsOnlyGone ==
    [][\A o \in Orders :
         (job.pc = "drop" /\ HasPid(OwnGrid(o), o) /\ ~HasPid(OwnGrid(o), o)')
            => order[o] # "open"]_vars

(* Every order whose metadata the cancellation removes is cancelled. *)
ForgetsOnlyCancelled ==
    [][\A o \in Orders :
         (job.pc = "ca_tracked" /\ job.pc' = "ca_loop" /\ HasMeta(o) /\ ~HasMeta(o)')
            => order[o] # "working"]_vars
=============================================================================
