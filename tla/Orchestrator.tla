---------------------------- MODULE Orchestrator ----------------------------
(***************************************************************************)
(* StrategyOrchestrator (app/strategy/orchestrator.py) and the stale order *)
(* sweep of app/trading/stale_orders.py: the order tracked for each pair,  *)
(* the blocks that go with it, the execution event callback, and the task  *)
(* that every PENDING_ORDER_CLEANUP_INTERVAL_SECONDS compares what is      *)
(* tracked with a Reconcile answer.  The recovery at the start of a        *)
(* session is a pass of the same task: nothing is tracked yet, so only its *)
(* sweep changes anything.                                                 *)
(*                                                                         *)
(* Ages are sets: what has reached PENDING_ORDER_MAX_AGE_SECONDS.          *)
(***************************************************************************)
EXTENDS Broker, FiniteSets

CONSTANTS
    ReconcileMayTimeOut,
    NoSnap,
    NoPair

ASSUME OrchestratorAssumption ==
    /\ ReconcileMayTimeOut \in BOOLEAN
    /\ NoSnap \notin Snapshot
    /\ NoPair \notin Pairs

VARIABLES
    tracked,    \* _limit_orders_by_pair: pair -> order
    mapped,     \* the client's _broker_order_ids
    guard,      \* TradeGuard._pending_by_pair: pairs with an entry
    locked,     \* TradeGuard._lock is held by a task that waits for it
    fsm,        \* pair -> state of the strategy, as far as the blocks go
    trackedOld, \* pairs whose entry is old
    brokerOld,  \* orders that are old at the broker
    clean       \* the cleanup task: where it stands and its locals

blockVars == <<tracked, guard, fsm, trackedOld>>
orchestratorVars == <<blockVars, mapped, locked, brokerOld, clean>>

FsmStates == {"SCAN", "ENTRY", "IN_TRADE"}

Clean == [pc      : {"idle", "recover", "fetch", "tracked", "tracked_wait",
                     "stale", "stale_wait"},
          starting : BOOLEAN,           \* the pass is the recovery
          snap    : Snapshot \cup {NoSnap},
          barrier : Nat,                \* events pushed before the answer
          todo    : SUBSET Pairs,       \* old entries the loop has yet to cancel
          left    : SUBSET Orders,      \* old orders the sweep has yet to cancel
          pair    : Pairs \cup {NoPair},
          wait    : OrderOrNone,
          ok      : BOOLEAN,            \* the cancel was answered
          young   : SUBSET Pairs]       \* entries made since the pass began

Asleep == [pc |-> "idle", starting |-> FALSE, snap |-> NoSnap, barrier |-> 0,
           todo |-> {}, left |-> {}, pair |-> NoPair, wait |-> NoOrder, ok |-> FALSE,
           young |-> {}]
Recovering == [Asleep EXCEPT !.pc = "recover", !.starting = TRUE]

OrchestratorInit ==
    /\ tracked = [p \in Pairs |-> NoOrder]
    /\ mapped = {} /\ guard = {}
    /\ fsm = [p \in Pairs |-> "SCAN"]
    /\ trackedOld = {} /\ brokerOld = {}
    /\ clean = Recovering

-----------------------------------------------------------------------------
(* The blocks of a pair *)

Entries == {p \in Pairs : tracked[p] # NoOrder}

Filled(state) == IF state = "ENTRY" THEN "IN_TRADE" ELSE state

(* Entries and guard of some pairs go; what becomes of the strategy's      *)
(* state is up to the caller.  Whoever needs the lock waits while it is    *)
(* held for good.                                                          *)
Forget(pairs) ==
    /\ pairs # {} => ~locked
    /\ tracked' = [p \in Pairs |-> IF p \in pairs THEN NoOrder ELSE tracked[p]]
    /\ guard' = guard \ pairs
    /\ trackedOld' = trackedOld \ pairs

(* release_pair_blocks, release_limit_order *)
ReleaseBlocks(p) ==
    /\ Forget({p})
    /\ fsm' = [fsm EXCEPT ![p] = "SCAN"]

(* track_limit_order, then mark_order_pending *)
Track(o) ==
    /\ ~locked
    /\ tracked' = [tracked EXCEPT ![PairOf[o]] = o]
    /\ trackedOld' = trackedOld \ {PairOf[o]}
    /\ guard' = guard \cup {PairOf[o]}
    /\ clean' = [clean EXCEPT !.young = IF clean.pc = "idle" THEN @ ELSE @ \cup {PairOf[o]}]

-----------------------------------------------------------------------------
(* on_execution_event: the callback of one event.  A task that needs the   *)
(* lock while it is held never ends, after the entry was popped.           *)

PopOnly(p) ==
    /\ tracked' = [tracked EXCEPT ![p] = NoOrder]
    /\ trackedOld' = trackedOld \ {p}
    /\ UNCHANGED guard

FillCallback(p) ==
    /\ IF locked THEN PopOnly(p) ELSE Forget({p})
    /\ fsm' = [fsm EXCEPT ![p] = Filled(@)]

ReleaseCallback(p) ==
    \/ ~locked /\ ReleaseBlocks(p)
    \/ locked /\ PopOnly(p) /\ UNCHANGED fsm

(* Variant: a close is not heard. *)
CallbackOfOrders(type, o) ==
    \/ type = "FILLED" /\ FillCallback(PairOf[o])
    \/ type \in {"CANCELLED", "EXPIRED", "REJECTED"} /\ ReleaseCallback(PairOf[o])
    \/ type \in {"ACCEPTED", "ERROR", "CLOSED"} /\ UNCHANGED blockVars

Callback(type, o) ==
    \/ type = "FILLED" /\ FillCallback(PairOf[o])
    \/ type \in {"CANCELLED", "EXPIRED", "REJECTED", "CLOSED"} /\ ReleaseCallback(PairOf[o])
    \/ type \in {"ACCEPTED", "ERROR"} /\ UNCHANGED blockVars

(* The client's maps, in the same branch of _listen_loop. *)
MappedAfter(type, o) ==
    IF type = "ACCEPTED" THEN mapped \cup {o} ELSE
    IF type \in {"CANCELLED", "EXPIRED", "REJECTED"} THEN mapped \ {o} ELSE mapped

(* Variant: the count goes on below zero. *)
CleanHearsOn(type, o) ==
    clean' = [clean EXCEPT
        !.barrier = @ - 1,
        !.ok = @ \/ (type \in {"CANCELLED", "REJECTED"} /\ clean.wait = o)]

(* What the event means to the cleanup task. *)
CleanHears(type, o) ==
    clean' = [clean EXCEPT
        !.barrier = IF @ = 0 THEN 0 ELSE @ - 1,
        !.ok = @ \/ (type \in {"CANCELLED", "REJECTED"} /\ clean.wait = o)]

-----------------------------------------------------------------------------
(* run_pending_order_cleanup, run_recovery *)

CleanAnswered(pc) == clean.pc = pc /\ clean.snap # NoSnap /\ clean.barrier = 0

(* Variant: the entries are not looked at, only the guard. *)
CleanupStartGuarded ==
    /\ clean.pc = "idle"
    /\ ~locked /\ guard # {}
    /\ clean' = [Asleep EXCEPT !.pc = "fetch"]
    /\ UNCHANGED <<brokerVars, blockVars, mapped, brokerOld>>

(* needs_broker_reconcile *)
CleanupStart ==
    /\ clean.pc = "idle"
    /\ Entries # {} \/ (~locked /\ guard # {})
    /\ clean' = [Asleep EXCEPT !.pc = "fetch"]
    /\ UNCHANGED <<brokerVars, blockVars, mapped, brokerOld>>

CleanupServed ==
    /\ clean.pc \in {"recover", "fetch"} /\ clean.snap = NoSnap
    /\ \/ clean' = [clean EXCEPT !.snap = CurrentSnapshot, !.barrier = Len(events)]
       \/ /\ ReconcileMayTimeOut
          /\ clean' = [clean EXCEPT !.snap = [pos |-> {}, ords |-> {}]]
    /\ UNCHANGED <<brokerVars, blockVars, mapped, brokerOld>>

(* The request was refused. *)
CleanupGivesUp ==
    /\ clean.pc \in {"recover", "fetch"} /\ clean.snap = NoSnap
    /\ clean' = Asleep
    /\ UNCHANGED <<brokerVars, blockVars, mapped, brokerOld>>

(* reconcile_missing_broker_pending: old entries whose order the answer    *)
(* does not have.  If the pair has a position the order counts as filled.  *)
Missing == {p \in Entries \cap trackedOld : tracked[p] \notin clean.snap.ords}

(* Variant: an order the broker does not have counts as filled. *)
MissingIsFilled ==
    /\ Forget(Missing)
    /\ fsm' = [p \in Pairs |-> IF p \in Missing THEN Filled(fsm[p]) ELSE fsm[p]]

ReconcileMissing ==
    LET held == {PairOf[o] : o \in clean.snap.pos} IN
    /\ Forget(Missing)
    /\ fsm' = [p \in Pairs |-> IF p \notin Missing THEN fsm[p]
                               ELSE IF p \in held THEN Filled(fsm[p]) ELSE "SCAN"]

(* The loop over old entries walks a copy made before its first await. *)
CleanupReconciles ==
    /\ CleanAnswered("fetch")
    /\ ReconcileMissing
    /\ clean' = [clean EXCEPT !.pc = "tracked", !.todo = (Entries \cap trackedOld)']
    /\ UNCHANGED <<brokerVars, mapped, brokerOld>>

(* cancel_tracked_limit_order looks the pair's order up again; whatever it *)
(* answers, the blocks are released.                                       *)
CancelOldEntry(p) ==
    /\ clean.pc = "tracked" /\ p \in clean.todo
    /\ \/ /\ tracked[p] \in mapped
          /\ RequestCancel(tracked[p])
          /\ clean' = [clean EXCEPT !.pc = "tracked_wait", !.todo = @ \ {p},
                                    !.pair = p, !.wait = tracked[p]]
          /\ UNCHANGED blockVars
       \/ /\ tracked[p] \notin mapped
          /\ ReleaseBlocks(p)
          /\ clean' = [clean EXCEPT !.todo = @ \ {p}]
          /\ UNCHANGED brokerVars
    /\ UNCHANGED <<mapped, brokerOld>>

(* Answered or timed out. *)
OldEntryCancelled ==
    /\ clean.pc = "tracked_wait"
    /\ ReleaseBlocks(clean.pair)
    /\ clean' = [clean EXCEPT !.pc = "tracked", !.pair = NoPair, !.wait = NoOrder,
                              !.ok = FALSE]
    /\ UNCHANGED <<brokerVars, mapped, brokerOld>>

(* cancel_stale_pending_orders: old orders of the answer that no pair      *)
(* tracks by now.                                                          *)
Untracked(snap) == {o \in snap.ords \cap brokerOld : \A p \in Pairs : tracked[p] # o}

StartSweep ==
    /\ \/ clean.pc = "tracked" /\ clean.todo = {}
       \/ CleanAnswered("recover")
    /\ clean' = [clean EXCEPT !.pc = "stale", !.left = Untracked(clean.snap)]
    /\ UNCHANGED <<brokerVars, blockVars, mapped, brokerOld>>

CancelStale(o) ==
    /\ clean.pc = "stale" /\ o \in clean.left
    /\ RequestCancel(o)
    /\ clean' = [clean EXCEPT !.pc = "stale_wait", !.left = @ \ {o}, !.wait = o]
    /\ UNCHANGED <<blockVars, mapped, brokerOld>>

StaleCancelled ==
    /\ clean.pc = "stale_wait"
    /\ \/ clean.ok /\ ReleaseBlocks(PairOf[clean.wait])
       \/ ~clean.ok /\ UNCHANGED blockVars
    /\ clean' = [clean EXCEPT !.pc = "stale", !.wait = NoOrder, !.ok = FALSE]
    /\ UNCHANGED <<brokerVars, mapped, brokerOld>>

(* The entries are compared once more, with the same answer. *)
CleanupEnds ==
    /\ clean.pc = "stale" /\ clean.left = {}
    /\ \/ ~clean.starting /\ ReconcileMissing
       \/ clean.starting /\ UNCHANGED blockVars
    /\ clean' = Asleep
    /\ UNCHANGED <<brokerVars, mapped, brokerOld>>

Cleanup ==
    \/ CleanupStart \/ CleanupServed \/ CleanupGivesUp \/ CleanupReconciles
    \/ \E p \in Pairs : CancelOldEntry(p)
    \/ OldEntryCancelled \/ StartSweep
    \/ \E o \in Orders : CancelStale(o)
    \/ StaleCancelled \/ CleanupEnds

-----------------------------------------------------------------------------
(* The clock.  A task that is able to run does so before anything ages, and *)
(* no other runs before the cleanup awaits something.                      *)

CleanRuns ==
    \/ clean.pc \in {"tracked", "stale"}
    \/ CleanAnswered("fetch") \/ CleanAnswered("recover")

CleanWaits == locked \/ clean.pc \notin {"tracked", "stale"}

(* An age is minutes (PENDING_ORDER_MAX_AGE_SECONDS), a pass of the cleanup *)
(* seconds.                                                                *)
AgeEntry(p) ==
    /\ ~CleanRuns
    /\ p \in Entries \ (trackedOld \cup clean.young)
    /\ trackedOld' = trackedOld \cup {p}
    /\ UNCHANGED <<brokerVars, tracked, guard, fsm, mapped, brokerOld, clean>>

AgeOrder(o) ==
    /\ ~CleanRuns
    /\ order[o] = "working" /\ o \notin brokerOld
    /\ brokerOld' = brokerOld \cup {o}
    /\ UNCHANGED <<brokerVars, blockVars, mapped, clean>>
=============================================================================
