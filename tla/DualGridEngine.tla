--------------------------- MODULE DualGridEngine ---------------------------
(***************************************************************************)
(* TradingEngine (app/trading/trading_engine.py) at work against the       *)
(* broker: what it believes about its grids, and every step of the bar     *)
(* handler, of the bootstrap and of the execution event callback that      *)
(* changes this belief or sends a request.                                 *)
(*                                                                         *)
(* The program is one asyncio event loop.  A coroutine gives up the loop   *)
(* only where it awaits an answer, so the handler is cut at its awaits:    *)
(* job.pc names the await it stands at, or the loop it runs without        *)
(* awaiting (Running), during which no event can be handled.               *)
(***************************************************************************)
EXTENDS Broker, FiniteSets

CONSTANTS
    MaxLevels,          \* config.MAX_GRID_LEVELS
    GridStep,           \* grid_step of an order placed by the handler
    Width,              \* half the spread, in the units prices are compared in
    Verdicts,           \* what a bar may call for, a subset of AllVerdicts
    ReconcileMayTimeOut,
    PlaceMayTimeOut,
    MaxCrashes,         \* bound on the restarts of the program
    NoSnap,             \* no answer yet, no cached answer
    NoPair

AllVerdicts == {"NORMAL", "FREEZE", "EXIT", "TPSL"}

ASSUME EngineAssumption ==
    /\ MaxLevels \in Nat \ {0}
    /\ GridStep \in Nat
    /\ Width \in Nat
    /\ Verdicts \subseteq AllVerdicts
    /\ ReconcileMayTimeOut \in BOOLEAN
    /\ PlaceMayTimeOut \in BOOLEAN
    /\ MaxCrashes \in Nat
    /\ NoSnap \notin Snapshot
    /\ NoPair \notin Pairs

VARIABLES
    grids,    \* GridBook: pair -> direction -> levels
    meta,     \* pending_order_metadata: order -> its entry, NoMeta if none
    tracked,  \* orchestrator._limit_orders_by_pair
    mapped,   \* client._broker_order_ids: orders with a known broker id
    lastMode, \* _last_degradation_mode, Conservative counted as Normal
    halted,   \* portfolio.halted
    cache,    \* client._reconcile_cache_data while it is fresh
    polled,   \* pairs whose bar this polling cycle has handled
    job,      \* the coroutine: where it stands and its locals
    crashes   \* number of restarts so far

bookVars == <<grids, meta, tracked, mapped>>
modeVars == <<lastMode, halted>>
pollVars == <<cache, polled>>
vars == <<brokerVars, bookVars, modeVars, pollVars, job, crashes>>

PairOrNone == Pairs \cup {NoPair}

(* Stretches of the handler without an await. *)
Running == {"drop", "link", "boot_link", "boot_ord", "ttl", "ca_loop",
            "ca_direct", "res_loop", "cl_loop", "sig"}
(* Awaits of a Reconcile answer. *)
Fetching == {"boot_pos", "boot_pend", "rec", "assess", "ca", "res",
             "cl_list", "cl_check", "dup"}
(* Awaits of a cancel answer, or of a placement. *)
Waiting == {"ttl_wait", "ca_tracked", "ca_own", "res_wait", "place"}
PCs == Running \cup Fetching \cup Waiting \cup {"idle"}

Job == [pc      : PCs,
        bar     : PairOrNone,         \* pair whose bar is handled
        verdict : AllVerdicts,        \* what the bar calls for
        here    : PairOrNone,         \* pair a sweep over all pairs is at
        left    : SUBSET Pairs,       \* pairs the sweep has not reached
        side    : Dirs,               \* grid of the pair a loop is at
        todo    : SUBSET Orders,      \* rest of the list a loop walks
        cur     : OrderOrNone,        \* order or position at hand
        wait    : OrderOrNone,        \* order whose answer is awaited
        answer  : {"none", "ok", "fail"},
        retried : BOOLEAN,
        snap    : Snapshot \cup {NoSnap}, \* Reconcile answer, once there
        barrier : Nat]                \* events pushed before that answer

Idle == [pc |-> "idle", bar |-> NoPair, verdict |-> "NORMAL",
         here |-> NoPair, left |-> {}, side |-> "LONG", todo |-> {}, cur |-> NoOrder,
         wait |-> NoOrder, answer |-> "none", retried |-> FALSE,
         snap |-> NoSnap, barrier |-> 0]

(* An entry of the metadata: grid_step_at_open, and whether the order is   *)
(* older than GRID_ORDER_TTL_BARS.                                         *)
Meta == [held : BOOLEAN, step : Nat, late : BOOLEAN]
NewMeta(step) == [held |-> TRUE, step |-> step, late |-> FALSE]
NoMeta == [held |-> FALSE, step |-> 0, late |-> FALSE]

EmptyGrids == [p \in Pairs |-> [d \in Dirs |-> <<>>]]

(* What a start of the process finds in its own memory. *)
FreshProgram ==
    /\ grids' = EmptyGrids
    /\ meta' = [o \in Orders |-> NoMeta]
    /\ tracked' = [p \in Pairs |-> NoOrder]
    /\ mapped' = {}
    /\ lastMode' = "NORMAL" /\ halted' = FALSE
    /\ cache' = NoSnap /\ polled' = {}
    /\ job' = [Idle EXCEPT !.pc = "boot_pos"]

Init ==
    /\ BrokerInit
    /\ grids = EmptyGrids
    /\ meta = [o \in Orders |-> NoMeta]
    /\ tracked = [p \in Pairs |-> NoOrder]
    /\ mapped = {}
    /\ lastMode = "NORMAL" /\ halted = FALSE
    /\ cache = NoSnap /\ polled = {}
    /\ job = [Idle EXCEPT !.pc = "boot_pos"]
    /\ crashes = 0

-----------------------------------------------------------------------------
(* Helpers *)

OwnGrid(o) == grids[PairOf[o]][DirOf[o]]

HasMeta(o) == meta[o].held
WithoutMeta(o) == [c \in Orders |-> IF c = o THEN NoMeta ELSE meta[c]]

(* find_position_by_client_order_id, find_position_by_id: of the two grids *)
(* of the pair the long one is searched first.                             *)
CidHome(o) == IF HasCid(grids[PairOf[o]]["LONG"], o) THEN "LONG" ELSE "SHORT"
PidHome(o) == IF HasPid(grids[PairOf[o]]["LONG"], o) THEN "LONG" ELSE "SHORT"

(* Variant: the level stays. *)
RemovePendingMeta(o) ==
    meta' = WithoutMeta(o) /\ UNCHANGED grids

(* _remove_pending_level *)
RemovePendingLevel(o) ==
    /\ meta' = WithoutMeta(o)
    /\ grids' = [grids EXCEPT ![PairOf[o]][CidHome(o)] = DropCid(@, o)]

(* Variant: the metadata of the filled order is not popped. *)
OnOrderFilledOnce(o) ==
    /\ grids' = [grids EXCEPT ![PairOf[o]][CidHome(o)] =
                    IF HasCid(@, o) THEN SetPid(@, IndexOfCid(@, o), o) ELSE @]
    /\ UNCHANGED meta

(* on_order_filled *)
OnOrderFilled(o) ==
    LET p == PairOf[o]
        d == CidHome(o)
    IN  \/ /\ HasCid(grids[p][d], o)
           /\ grids' = [grids EXCEPT
                          ![p][d] = SetPid(@, IndexOfCid(@, o), o)]
           /\ meta' = WithoutMeta(o)
        \/ ~HasCid(grids[p][d], o) /\ UNCHANGED <<grids, meta>>

(* Nothing outside the program is seen while it runs without an await: what *)
(* happens meanwhile happens, as far as the program can tell, at the next  *)
(* one.                                                                    *)
Suspended == job.pc \notin Running

(* The Reconcile answer is there, and so is every event sent before it. *)
Answered(pc) == job.pc = pc /\ job.snap # NoSnap /\ job.barrier = 0

(* for pair in self._watched_pairs(): the set has no particular order. *)
Sweep(j, pc, pairs, after) ==
    IF pairs = {} THEN after
    ELSE {[j EXCEPT !.pc = pc, !.here = p, !.left = pairs \ {p},
                    !.snap = NoSnap, !.todo = {}, !.cur = NoOrder,
                    !.wait = NoOrder, !.answer = "none"] : p \in pairs}

-----------------------------------------------------------------------------
(* The connection, the clock, and the process *)

(* _fetch_reconcile: the answer, or after the timeout an empty one.        *)
(* fetch_reconcile_snapshot caches either.                                 *)
ServeReconcile ==
    /\ job.pc \in Fetching /\ job.snap = NoSnap
    /\ \/ /\ job' = [job EXCEPT !.snap = CurrentSnapshot, !.barrier = Len(events)]
          /\ cache' = CurrentSnapshot
       \/ /\ ReconcileMayTimeOut
          /\ job' = [job EXCEPT !.snap = [pos |-> {}, ords |-> {}]]
          /\ cache' = [pos |-> {}, ords |-> {}]
    /\ UNCHANGED <<brokerVars, bookVars, modeVars, polled, crashes>>

CacheExpires ==
    /\ cache # NoSnap /\ cache' = NoSnap
    /\ UNCHANGED <<brokerVars, bookVars, modeVars, polled, job, crashes>>

Age(o) ==
    /\ HasMeta(o) /\ ~meta[o].late
    /\ meta' = [meta EXCEPT ![o].late = TRUE]
    /\ UNCHANGED <<brokerVars, grids, tracked, mapped, modeVars, pollVars, job,
                   crashes>>

(* The process or the connection is lost; _run_live starts over with a new *)
(* client, orchestrator and engine.  The broker keeps what it has.         *)
Crash ==
    /\ Suspended
    /\ crashes < MaxCrashes
    /\ crashes' = crashes + 1
    /\ events' = <<>>
    /\ FreshProgram
    /\ UNCHANGED <<order, cancelReq, closeReq>>

-----------------------------------------------------------------------------
(* Execution events: the client's branch of _listen_loop, then the         *)
(* orchestrator's on_execution_event, a task of its own.  It has run when  *)
(* the coroutine that the event wakes goes on; from Python 3.12 the        *)
(* coroutine goes on first, but all the task then adds before its next     *)
(* await is that the pair has no tracked order, and the coroutine looks at *)
(* that only where it also goes on after a timeout, without the event.     *)

Handle(type, o) ==
    /\ Suspended
    /\ events # <<>>
    /\ Head(events) = [type |-> type, ord |-> o]
    /\ events' = Tail(events)
    /\ UNCHANGED <<order, cancelReq, closeReq, modeVars, pollVars, crashes>>

(* Variant: the count of events to wait for runs below zero. *)
PassedAlways == job.barrier - 1

Passed == IF job.barrier = 0 THEN 0 ELSE job.barrier - 1

(* The future of the placement, or of the cancel, of order o gets a result. *)
Resolve(pcs, o, result) ==
    job' = [job EXCEPT
              !.barrier = Passed,
              !.answer = IF job.pc \in pcs /\ job.wait = o /\ job.answer = "none"
                         THEN result ELSE @]

Untrack(p) == tracked' = [tracked EXCEPT ![p] = NoOrder]

OnAccepted(o) ==
    /\ Handle("ACCEPTED", o)
    /\ mapped' = mapped \cup {o}
    /\ Resolve({"place"}, o, "ok")
    /\ UNCHANGED <<grids, meta, tracked>>

OnFilled(o) ==
    /\ Handle("FILLED", o)
    /\ Untrack(PairOf[o])
    /\ OnOrderFilled(o)
    /\ Resolve({"place"}, o, "ok")
    /\ UNCHANGED mapped

OnExpired(o) ==
    /\ Handle("EXPIRED", o)
    /\ mapped' = mapped \ {o}
    /\ Untrack(PairOf[o])
    /\ Resolve({"place"}, o, "fail")
    /\ UNCHANGED <<grids, meta>>

(* ORDER_CANCELLED and ORDER_REJECTED resolve the cancel future too. *)
OnCancelled(o) ==
    /\ Handle("CANCELLED", o) \/ Handle("REJECTED", o)
    /\ mapped' = mapped \ {o}
    /\ Untrack(PairOf[o])
    /\ IF job.pc = "place" THEN Resolve({"place"}, o, "fail")
                           ELSE Resolve(Waiting, o, "ok")
    /\ UNCHANGED <<grids, meta>>

(* An order error event reaches the future only, no callback. *)
OnError(o) ==
    /\ Handle("ERROR", o)
    /\ Resolve({"place"}, o, "fail")
    /\ UNCHANGED bookVars

OnClosed(o) ==
    /\ Handle("CLOSED", o)
    /\ Untrack(PairOf[o])
    /\ Resolve({}, o, "ok")
    /\ UNCHANGED <<grids, meta, mapped>>

Deliver == \E o \in Orders : \/ OnAccepted(o) \/ OnFilled(o) \/ OnExpired(o)
                             \/ OnCancelled(o) \/ OnError(o) \/ OnClosed(o)

-----------------------------------------------------------------------------
(* _restore_broker_position: a position of the broker finds its level *)

Slots(o, width) ==
    {i \in DOMAIN OwnGrid(o) : /\ IsPending(OwnGrid(o)[i])
                               /\ Near(OwnGrid(o)[i].price, EntryOf[o], width)}

(* _match_pending_order_metadata *)
Matches(o, width) ==
    {c \in Orders : /\ HasMeta(c)
                    /\ PairOf[c] = PairOf[o] /\ DirOf[c] = DirOf[o]
                    /\ Near(PriceOf[c], EntryOf[o], width)}

Adopt(o, level) ==
    grids' = [grids EXCEPT ![PairOf[o]][DirOf[o]] = AddLevel(@, level)]

(* An ambiguous match is left alone: the level gets a made-up id. *)
MatchOrNone(o, width) ==
    IF Cardinality(Matches(o, width)) = 1
    THEN CHOOSE c \in Matches(o, width) : TRUE ELSE NoOrder

StepOf(c) == IF c \in Orders THEN meta[c].step ELSE 0

(* Variant: an unknown position is not adopted. *)
RestorePositionIfPending(o, width) ==
    \/ /\ ~HasPid(OwnGrid(o), o)
       /\ \E i \in Slots(o, width) :
            /\ \A j \in Slots(o, width) : i <= j
            /\ grids' = [grids EXCEPT ![PairOf[o]][DirOf[o]] = SetPid(@, i, o)]
            /\ meta' = WithoutMeta(OwnGrid(o)[i].cid)
    \/ /\ HasPid(OwnGrid(o), o) \/ Slots(o, width) = {}
       /\ UNCHANGED <<grids, meta>>

RestorePosition(o, width) ==
    \/ HasPid(OwnGrid(o), o) /\ UNCHANGED <<grids, meta>>
    \/ /\ ~HasPid(OwnGrid(o), o)
       /\ \E i \in Slots(o, width) :
            /\ \A j \in Slots(o, width) : i <= j
            /\ grids' = [grids EXCEPT ![PairOf[o]][DirOf[o]] = SetPid(@, i, o)]
            /\ meta' = WithoutMeta(OwnGrid(o)[i].cid)
    \/ /\ ~HasPid(OwnGrid(o), o) /\ Slots(o, width) = {}
       /\ LET c == MatchOrNone(o, width) IN
          /\ Adopt(o, NewLevel(c, o, EntryOf[o], StepOf(c)))
          /\ meta' = WithoutMeta(c)

(* The loop over the broker's positions, at the two places that have one. *)
LinkPosition(o) ==
    /\ job.pc \in {"link", "boot_link"} /\ o \in job.todo
    /\ RestorePosition(o, IF job.pc = "link" THEN Width ELSE 0)
    /\ job' = [job EXCEPT !.todo = @ \ {o}]
    /\ UNCHANGED <<brokerVars, tracked, mapped, modeVars, pollVars, crashes>>

-----------------------------------------------------------------------------
(* bootstrap_from_broker *)

(* Variant: resting orders are taken for positions. *)
BootEverything ==
    /\ Answered("boot_pos")
    /\ job' = [job EXCEPT !.pc = "boot_link",
                          !.todo = job.snap.pos \cup job.snap.ords,
                          !.snap = NoSnap]
    /\ UNCHANGED <<brokerVars, bookVars, modeVars, pollVars, crashes>>

BootPositions ==
    /\ Answered("boot_pos")
    /\ job' = [job EXCEPT !.pc = "boot_link", !.todo = job.snap.pos, !.snap = NoSnap]
    /\ UNCHANGED <<brokerVars, bookVars, modeVars, pollVars, crashes>>

BootLinked ==
    /\ job.pc = "boot_link" /\ job.todo = {}
    /\ job' = [job EXCEPT !.pc = "boot_pend"]
    /\ UNCHANGED <<brokerVars, bookVars, modeVars, pollVars, crashes>>

BootOrders ==
    /\ Answered("boot_pend")
    /\ job' = [job EXCEPT !.pc = "boot_ord", !.todo = job.snap.ords, !.snap = NoSnap]
    /\ UNCHANGED <<brokerVars, bookVars, modeVars, pollVars, crashes>>

(* _restore_broker_pending: only the first order finds the grid inactive. *)
RestorePending(o) ==
    /\ job.pc = "boot_ord" /\ o \in job.todo
    /\ \/ OwnGrid(o) # <<>> /\ UNCHANGED bookVars
       \/ /\ OwnGrid(o) = <<>>
          /\ meta' = [meta EXCEPT ![o] = NewMeta(0)]
          /\ Adopt(o, NewLevel(o, NoOrder, PriceOf[o], 0))
          /\ mapped' = mapped \cup {o}
          /\ tracked' = [tracked EXCEPT ![PairOf[o]] = o]
    /\ job' = [job EXCEPT !.todo = @ \ {o}]
    /\ UNCHANGED <<brokerVars, modeVars, pollVars, crashes>>

BootDone ==
    /\ job.pc = "boot_ord" /\ job.todo = {}
    /\ job' = Idle
    /\ UNCHANGED <<brokerVars, bookVars, modeVars, pollVars, crashes>>

-----------------------------------------------------------------------------
(* on_bar_update: _reconcile_positions *)

(* _poll_all_pairs hands the bars over pair by pair.  A cached Reconcile   *)
(* answer lives for seconds: it may serve the next pair, or the first      *)
(* cycle after the bootstrap, and is gone by the next cycle.               *)
StartBar(p) ==
    /\ job.pc = "idle" /\ ~halted /\ p \notin polled
    /\ job' = [Idle EXCEPT !.pc = "rec", !.bar = p, !.snap = cache]
    /\ polled' = polled \cup {p}
    /\ UNCHANGED <<brokerVars, bookVars, modeVars, cache, crashes>>

NextCycle ==
    /\ job.pc = "idle" /\ polled # {}
    /\ polled' = {} /\ cache' = NoSnap
    /\ UNCHANGED <<brokerVars, bookVars, modeVars, job, crashes>>

(* Variant: resting orders are taken for positions. *)
ReconcileEverything ==
    /\ Answered("rec")
    /\ job' = [job EXCEPT !.pc = "drop",
                          !.todo = job.snap.pos \cup job.snap.ords,
                          !.snap = NoSnap]
    /\ UNCHANGED <<brokerVars, bookVars, modeVars, pollVars, crashes>>

Reconcile ==
    /\ Answered("rec")
    /\ job' = [job EXCEPT !.pc = "drop", !.todo = job.snap.pos, !.snap = NoSnap]
    /\ UNCHANGED <<brokerVars, bookVars, modeVars, pollVars, crashes>>

IsStale(level) == ~IsPending(level) /\ level.pid \notin job.todo

DropStale ==
    /\ job.pc = "drop"
    /\ \E d \in Dirs : \E i \in DOMAIN grids[job.bar][d] :
         /\ IsStale(grids[job.bar][d][i])
         /\ grids' = [grids EXCEPT ![job.bar][d] = DropPid(@, @[i].pid)]
    /\ UNCHANGED <<brokerVars, meta, tracked, mapped, modeVars, pollVars,
                   job, crashes>>

Dropped ==
    /\ job.pc = "drop"
    /\ \A d \in Dirs : \A i \in DOMAIN grids[job.bar][d] :
         ~IsStale(grids[job.bar][d][i])
    /\ job' = [job EXCEPT !.pc = "link",
                          !.todo = {o \in @ : PairOf[o] = job.bar}]
    /\ UNCHANGED <<brokerVars, bookVars, modeVars, pollVars, crashes>>

(* _check_pending_orders_ttl collects its list before it cancels. *)
Linked ==
    /\ job.pc = "link" /\ job.todo = {}
    /\ job' = [job EXCEPT
                 !.pc = "ttl",
                 !.todo = {o \in Orders : meta[o].late /\ PairOf[o] = job.bar}]
    /\ UNCHANGED <<brokerVars, bookVars, modeVars, pollVars, crashes>>

(* cancel_order_by_client_id answers False at once for an unknown order.   *)
(* Whatever it answers, the level goes.                                    *)
TtlCancel(o) ==
    /\ job.pc = "ttl" /\ o \in job.todo
    /\ \/ /\ o \in mapped
          /\ RequestCancel(o)
          /\ job' = [job EXCEPT !.pc = "ttl_wait", !.todo = @ \ {o},
                                !.cur = o, !.wait = o]
          /\ UNCHANGED <<grids, meta>>
       \/ /\ o \notin mapped
          /\ RemovePendingLevel(o)
          /\ job' = [job EXCEPT !.todo = @ \ {o}]
          /\ UNCHANGED brokerVars
    /\ UNCHANGED <<tracked, mapped, modeVars, pollVars, crashes>>

TtlCancelled ==
    /\ job.pc = "ttl_wait"
    /\ RemovePendingLevel(job.cur)
    /\ job' = [job EXCEPT !.pc = "ttl", !.cur = NoOrder, !.wait = NoOrder,
                          !.answer = "none"]
    /\ UNCHANGED <<brokerVars, tracked, mapped, modeVars, pollVars, crashes>>

(* The handler gives up when the margin is unknown. *)
TtlDone ==
    /\ job.pc = "ttl" /\ job.todo = {}
    /\ job' \in {[job EXCEPT !.pc = "assess"], Idle}
    /\ UNCHANGED <<brokerVars, bookVars, modeVars, pollVars, crashes>>

-----------------------------------------------------------------------------
(* on_bar_update: what the bar calls for *)

FreezeOrExit == {"FREEZE", "EXIT"}

StartCancelAll(j) == Sweep(j, "ca", Pairs, {})
(* Variant: only the pair of the bar is resolved. *)
StartResolveBar(j) == Sweep(j, "res", {j.bar}, {})
StartResolve(j) == Sweep(j, "res", Pairs, {})

(* Take profit, stop loss and Exit need a profit or a loss of some         *)
(* position; Freeze comes from the volatility or from refused placements.  *)
Assess(v) ==
    /\ Answered("assess")
    /\ v \in {"TPSL", "EXIT"} => job.snap.pos # {}
    /\ LET j == [job EXCEPT !.verdict = v, !.snap = NoSnap]
           entering == v \in FreezeOrExit /\ lastMode \notin FreezeOrExit
           onward == CASE v \in {"TPSL", "EXIT"} -> StartResolve(j)
                       [] OTHER -> {[j EXCEPT !.pc = "sig"]}
       IN  job' \in IF entering THEN StartCancelAll(j) ELSE onward
    /\ lastMode' = IF v = "TPSL" THEN lastMode ELSE v
    /\ UNCHANGED <<brokerVars, bookVars, halted, pollVars, crashes>>

(* get_balance answers None *)
AssessFails ==
    /\ Answered("assess")
    /\ job' = Idle
    /\ UNCHANGED <<brokerVars, bookVars, modeVars, pollVars, crashes>>

-----------------------------------------------------------------------------
(* _cancel_all_pending_orders, for the pair job.here *)

CancelAll ==
    /\ Answered("ca")
    /\ job' = [job EXCEPT !.pc = "ca_loop",
                          !.todo = {o \in Orders : HasMeta(o) /\ PairOf[o] = job.here}]
    /\ UNCHANGED <<brokerVars, bookVars, modeVars, pollVars, crashes>>

(* orchestrator.cancel_tracked_limit_order(pair): it cancels the order it  *)
(* tracks for the pair, whichever that is.                                 *)
CancelTracked(o) ==
    /\ job.pc = "ca_loop" /\ o \in job.todo
    /\ LET t == tracked[job.here]
           j == [job EXCEPT !.cur = o, !.todo = @ \ {o}]
       IN  \/ /\ t \in mapped
              /\ RequestCancel(t)
              /\ job' = [j EXCEPT !.pc = "ca_tracked", !.wait = t]
           \/ /\ t \notin mapped
              /\ job' = [j EXCEPT !.pc = "ca_direct"]
              /\ UNCHANGED brokerVars
    /\ UNCHANGED <<bookVars, modeVars, pollVars, crashes>>

CancelledTracked ==
    /\ job.pc = "ca_tracked" /\ job.answer = "ok"
    /\ tracked' = [tracked EXCEPT ![job.here] = NoOrder]
    /\ RemovePendingLevel(job.cur)
    /\ job' = [job EXCEPT !.pc = "ca_loop", !.cur = NoOrder, !.wait = NoOrder,
                          !.answer = "none"]
    /\ UNCHANGED <<brokerVars, mapped, modeVars, pollVars, crashes>>

TrackedTimesOut ==
    /\ job.pc = "ca_tracked" /\ job.answer = "none"
    /\ job' = [job EXCEPT !.pc = "ca_direct", !.wait = NoOrder]
    /\ UNCHANGED <<brokerVars, bookVars, modeVars, pollVars, crashes>>

(* The order itself, if it was at the broker when the sweep came by. *)
CancelDirect ==
    /\ job.pc = "ca_direct"
    /\ LET o == job.cur IN
       \/ /\ o \in job.snap.ords /\ o \in mapped
          /\ RequestCancel(o)
          /\ job' = [job EXCEPT !.pc = "ca_own", !.wait = o]
          /\ UNCHANGED <<grids, meta>>
       \/ /\ ~(o \in job.snap.ords /\ o \in mapped)
          /\ RemovePendingLevel(o)
          /\ job' = [job EXCEPT !.pc = "ca_loop", !.cur = NoOrder]
          /\ UNCHANGED brokerVars
    /\ UNCHANGED <<tracked, mapped, modeVars, pollVars, crashes>>

CancelledOwn ==
    /\ job.pc = "ca_own"
    /\ RemovePendingLevel(job.cur)
    /\ job' = [job EXCEPT !.pc = "ca_loop", !.cur = NoOrder, !.wait = NoOrder,
                          !.answer = "none"]
    /\ UNCHANGED <<brokerVars, tracked, mapped, modeVars, pollVars, crashes>>

(* Next pair, or what the cancellation was for: Freeze goes on to the      *)
(* signal, Exit resolves pending levels, a global close lists positions.   *)
CancelAllDone ==
    /\ job.pc = "ca_loop" /\ job.todo = {}
    /\ LET j == [job EXCEPT !.here = NoPair, !.snap = NoSnap]
       IN  job' \in Sweep(j, "ca", job.left,
                      CASE job.verdict = "TPSL" -> {[j EXCEPT !.pc = "cl_list"]}
                        [] job.verdict = "EXIT" -> StartResolve(j)
                        [] OTHER                -> {[j EXCEPT !.pc = "sig"]})
    /\ UNCHANGED <<brokerVars, bookVars, modeVars, pollVars, crashes>>

-----------------------------------------------------------------------------
(* _resolve_pending_before_close, for the pair job.here: the long grid's    *)
(* levels in order, then those of the short grid, each list taken when its *)
(* turn comes.                                                             *)

PendingCids(grid) ==
    {o \in Orders : \E i \in DOMAIN grid : grid[i].cid = o /\ IsPending(grid[i])}

ResolveStart ==
    /\ Answered("res")
    /\ job' = [job EXCEPT !.pc = "res_loop", !.side = "LONG",
                          !.todo = PendingCids(grids[job.here]["LONG"])]
    /\ UNCHANGED <<brokerVars, bookVars, modeVars, pollVars, crashes>>

Candidates(level) ==
    {o \in job.snap.pos : /\ PairOf[o] = job.here /\ DirOf[o] = job.side
                          /\ Near(EntryOf[o], level.price, Width)}

ResolveLevel(o) ==
    /\ job.pc = "res_loop" /\ o \in job.todo
    /\ \E i \in DOMAIN grids[job.here][job.side] :
         LET level == grids[job.here][job.side][i]
             next  == [job EXCEPT !.todo = @ \ {o}]
         IN  /\ level.cid = o
             /\ \A j \in 1 .. (i - 1) : grids[job.here][job.side][j].cid \notin job.todo
             /\ \/ /\ ~IsPending(level)
                   /\ job' = next
                   /\ UNCHANGED <<brokerVars, grids, meta>>
                \/ /\ IsPending(level)
                   /\ \E b \in Candidates(level) :
                        grids' = [grids EXCEPT ![job.here][job.side] = SetPid(@, i, b)]
                   /\ meta' = WithoutMeta(o)
                   /\ job' = next
                   /\ UNCHANGED brokerVars
                \/ /\ IsPending(level) /\ Candidates(level) = {} /\ o \in mapped
                   /\ RequestCancel(o)
                   /\ job' = [next EXCEPT !.pc = "res_wait", !.cur = o, !.wait = o]
                   /\ UNCHANGED <<grids, meta>>
                \/ /\ IsPending(level) /\ Candidates(level) = {} /\ o \notin mapped
                   /\ RemovePendingLevel(o)
                   /\ job' = next
                   /\ UNCHANGED brokerVars
    /\ UNCHANGED <<tracked, mapped, modeVars, pollVars, crashes>>

ResolveCancelled ==
    /\ job.pc = "res_wait"
    /\ RemovePendingLevel(job.cur)
    /\ job' = [job EXCEPT !.pc = "res_loop", !.cur = NoOrder, !.wait = NoOrder,
                          !.answer = "none"]
    /\ UNCHANGED <<brokerVars, tracked, mapped, modeVars, pollVars, crashes>>

ResolveDone ==
    /\ job.pc = "res_loop" /\ job.todo = {}
    /\ LET j == [job EXCEPT !.here = NoPair, !.snap = NoSnap, !.side = "LONG"]
       IN  \/ /\ job.side = "LONG"
              /\ job' = [job EXCEPT !.side = "SHORT",
                                    !.todo = PendingCids(grids[job.here]["SHORT"])]
           \/ /\ job.side = "SHORT"
              /\ job' \in Sweep(j, "res", job.left,
                             IF job.verdict = "TPSL" THEN StartCancelAll(j)
                             ELSE {[j EXCEPT !.pc = "cl_list"]})
    /\ UNCHANGED <<brokerVars, bookVars, modeVars, pollVars, crashes>>

-----------------------------------------------------------------------------
(* _close_all_positions_global, _close_worst_position_global *)

(* All positions, or the one with the least profit: any may have it. *)
ListPositions ==
    /\ Answered("cl_list")
    /\ LET j == [job EXCEPT !.pc = "cl_loop", !.snap = NoSnap]
           chosen == IF job.verdict = "TPSL" THEN {job.snap.pos}
                     ELSE {{o} : o \in job.snap.pos}
       IN  \/ \E todo \in chosen : job' = [j EXCEPT !.todo = todo]
           \/ chosen = {} /\ job' = j
    /\ UNCHANGED <<brokerVars, bookVars, modeVars, pollVars, crashes>>

ClosePosition(o) ==
    /\ job.pc = "cl_loop" /\ o \in job.todo
    /\ RequestClose(o)
    /\ job' = [job EXCEPT !.pc = "cl_check", !.cur = o, !.todo = @ \ {o}]
    /\ UNCHANGED <<bookVars, modeVars, pollVars, crashes>>

(* _close_position_with_verify trusts the next Reconcile answer, whether   *)
(* the close was confirmed or timed out, and retries once.                 *)
CloseVerified ==
    /\ Answered("cl_check") /\ job.cur \notin job.snap.pos
    /\ LET o == job.cur IN
       grids' = [grids EXCEPT ![PairOf[o]][PidHome(o)] = DropPid(@, o)]
    /\ job' = [job EXCEPT !.pc = "cl_loop", !.cur = NoOrder, !.retried = FALSE,
                          !.snap = NoSnap]
    /\ UNCHANGED <<brokerVars, meta, tracked, mapped, modeVars, pollVars,
                   crashes>>

(* Variant: the retry is not counted. *)
CloseAgainAlways ==
    /\ Answered("cl_check") /\ job.cur \in job.snap.pos
    /\ RequestClose(job.cur)
    /\ job' = [job EXCEPT !.snap = NoSnap]
    /\ UNCHANGED <<bookVars, modeVars, pollVars, crashes>>

CloseAgain ==
    /\ Answered("cl_check") /\ job.cur \in job.snap.pos /\ ~job.retried
    /\ RequestClose(job.cur)
    /\ job' = [job EXCEPT !.retried = TRUE, !.snap = NoSnap]
    /\ UNCHANGED <<bookVars, modeVars, pollVars, crashes>>

CloseFails ==
    /\ Answered("cl_check") /\ job.cur \in job.snap.pos /\ job.retried
    /\ halted' = (halted \/ job.verdict = "EXIT")
    /\ job' = [job EXCEPT !.pc = "cl_loop", !.cur = NoOrder, !.retried = FALSE,
                          !.snap = NoSnap]
    /\ UNCHANGED <<brokerVars, bookVars, lastMode, pollVars, crashes>>

CloseDone ==
    /\ job.pc = "cl_loop" /\ job.todo = {}
    /\ halted' = (halted \/ job.verdict = "TPSL")
    /\ job' = Idle
    /\ UNCHANGED <<brokerVars, bookVars, lastMode, pollVars, crashes>>

-----------------------------------------------------------------------------
(* _process_grid_signal, _place_grid_order *)

(* No setup, a score too low, no room in the portfolio, or no approval. *)
NoSignal ==
    /\ job.pc = "sig"
    /\ job' = Idle
    /\ UNCHANGED <<brokerVars, bookVars, modeVars, pollVars, crashes>>

(* _can_add_level *)
CanAddLevel(grid, price) ==
    /\ Distance(price, LastLevel(grid).price) >= LastLevel(grid).step
    /\ Len(grid) < MaxLevels
    /\ job.verdict \notin FreezeOrExit

(* An inactive grid takes its first level in every mode but Exit. *)
Signal(o) ==
    /\ job.pc = "sig"
    /\ order[o] = "free" /\ PairOf[o] = job.bar
    /\ OwnGrid(o) # <<>> => CanAddLevel(OwnGrid(o), PriceOf[o])
    /\ job' = [job EXCEPT !.pc = "dup", !.cur = o]
    /\ UNCHANGED <<brokerVars, bookVars, modeVars, pollVars, crashes>>

(* Variant: only orders past their TTL are looked for. *)
LateDuplicates == {o \in job.snap.ords : meta[o].late /\ PairOf[o] = job.bar}

(* Variant: orders without metadata count as well. *)
AllPending == {o \in job.snap.ords : PairOf[o] = job.bar}

(* Pending orders of the pair at the broker that the engine knows of. *)
Duplicates == {o \in job.snap.ords : HasMeta(o) /\ PairOf[o] = job.bar}

(* A known order that has no level in the grid of the signal gets one      *)
(* there, and nothing is placed.                                           *)
(* Variant: the level is added whether there is one or not. *)
SkipDuplicateBlindly ==
    /\ Answered("dup")
    /\ \E o \in Duplicates :
         grids' = [grids EXCEPT ![job.bar][DirOf[job.cur]] =
                     AddLevel(@, NewLevel(o, NoOrder, PriceOf[o], meta[o].step))]
    /\ job' = Idle
    /\ UNCHANGED <<brokerVars, meta, tracked, mapped, modeVars, pollVars,
                   crashes>>

SkipDuplicate ==
    /\ Answered("dup")
    /\ \E o \in Duplicates :
         LET d == DirOf[job.cur] IN
         \/ HasCid(grids[job.bar][d], o) /\ UNCHANGED grids
         \/ /\ ~HasCid(grids[job.bar][d], o)
            /\ grids' = [grids EXCEPT ![job.bar][d] =
                           AddLevel(@, NewLevel(o, NoOrder, PriceOf[o], meta[o].step))]
    /\ job' = Idle
    /\ UNCHANGED <<brokerVars, meta, tracked, mapped, modeVars, pollVars,
                   crashes>>

Place ==
    /\ Answered("dup") /\ Duplicates = {}
    /\ order' = [order EXCEPT ![job.cur] = "sent"]
    /\ job' = [job EXCEPT !.pc = "place", !.wait = job.cur, !.snap = NoSnap]
    /\ UNCHANGED <<cancelReq, closeReq, events, bookVars, modeVars,
                   pollVars, crashes>>

Placed ==
    /\ job.pc = "place" /\ job.answer = "ok"
    /\ LET o == job.cur IN
       /\ meta' = [meta EXCEPT ![o] = NewMeta(GridStep)]
       /\ tracked' = [tracked EXCEPT ![job.bar] = o]
       /\ Adopt(o, NewLevel(o, NoOrder, PriceOf[o], GridStep))
    /\ job' = Idle
    /\ UNCHANGED <<brokerVars, mapped, modeVars, pollVars, crashes>>

PlaceFails ==
    /\ job.pc = "place"
    /\ job.answer = "fail" \/ (job.answer = "none" /\ PlaceMayTimeOut)
    /\ job' = Idle
    /\ UNCHANGED <<brokerVars, bookVars, modeVars, pollVars, crashes>>

-----------------------------------------------------------------------------
Link == \E o \in Orders : LinkPosition(o)

Bootstrap ==
    \/ BootPositions \/ BootLinked \/ BootOrders \/ BootDone
    \/ \E o \in Orders : RestorePending(o)

Refresh ==
    \/ NextCycle \/ \E p \in Pairs : StartBar(p)
    \/ Reconcile \/ DropStale \/ Dropped \/ Linked
    \/ \E o \in Orders : TtlCancel(o)
    \/ TtlCancelled \/ TtlDone
    \/ \E v \in Verdicts : Assess(v)
    \/ AssessFails

CancelPending ==
    \/ CancelAll \/ CancelledTracked \/ TrackedTimesOut \/ CancelDirect
    \/ CancelledOwn \/ CancelAllDone
    \/ \E o \in Orders : CancelTracked(o)

ClosePositions ==
    \/ ResolveStart \/ ResolveCancelled \/ ResolveDone
    \/ \E o \in Orders : ResolveLevel(o) \/ ClosePosition(o)
    \/ ListPositions \/ CloseVerified \/ CloseAgain \/ CloseFails \/ CloseDone

OpenLevel ==
    \/ NoSignal \/ SkipDuplicate \/ Place \/ Placed \/ PlaceFails
    \/ \E o \in Orders : Signal(o)

Engine == Link \/ Bootstrap \/ Refresh \/ CancelPending \/ ClosePositions \/ OpenLevel

Outside ==
    /\ Suspended
    /\ BrokerStep
    /\ UNCHANGED <<bookVars, modeVars, pollVars, job, crashes>>

Next ==
    \/ Engine \/ Deliver \/ Outside \/ ServeReconcile \/ CacheExpires \/ Crash
    \/ \E o \in Orders : Age(o)

Spec == Init /\ [][Next]_vars
=============================================================================
