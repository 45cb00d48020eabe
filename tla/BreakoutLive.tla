---------------------------- MODULE BreakoutLive ----------------------------
(***************************************************************************)
(* The breakout strategy trading live: the bar task (src/main.py, the      *)
(* strategy's update, TradeGuard and TradeExecutor) beside the cleanup     *)
(* task and the execution event callbacks of module Orchestrator, against  *)
(* the broker.  The strategy is reduced to the states that matter to the   *)
(* blocks: scanning for a setup, an entry submitted, in a trade; when a    *)
(* setup gives a signal is left open.                                      *)
(***************************************************************************)
EXTENDS Orchestrator

CONSTANTS
    Modes,           \* values of config.TRADING_MODE that are looked at
    PairInfoFields,  \* width of the tuple client.get_pair_info answers
    MaxRetries,      \* executor.MAX_RETRIES
    PlaceMayTimeOut,
    MaxCrashes       \* bound on the restarts of the session

ASSUME BreakoutAssumption ==
    /\ Modes \subseteq {"AUTO", "MANUAL"}
    /\ PairInfoFields \in Nat
    /\ MaxRetries \in Nat \ {0}
    /\ PlaceMayTimeOut \in BOOLEAN
    /\ MaxCrashes \in Nat

VARIABLES
    bar,        \* the bar task: where it stands and its locals
    signalOld,  \* pairs whose signal is older than PENDING_ORDER_MAX_AGE_SECONDS
    crashes,
    mode        \* config.TRADING_MODE

vars == <<brokerVars, orchestratorVars, bar, signalOld, crashes, mode>>

(* execute: from the signal to the first await, nothing else runs.         *)
(* stuck: in can_trade, waiting for the lock can_trade holds.              *)
Bar == [pc     : {"idle", "execute", "balance", "place", "pause", "fsm_wait", "stuck"},
        pair   : Pairs \cup {NoPair},
        wide   : BOOLEAN,                  \* the spread is over the limit
        cur    : OrderOrNone,
        tries  : 0 .. MaxRetries,
        answer : {"none", "ok", "fail"}]

Idle == [pc |-> "idle", pair |-> NoPair, wide |-> FALSE, cur |-> NoOrder,
         tries |-> 0, answer |-> "none"]

Init ==
    /\ BrokerInit /\ OrchestratorInit
    /\ locked = FALSE
    /\ bar = Idle
    /\ signalOld = {} /\ crashes = 0
    /\ mode \in Modes

(* One task runs at a time. *)
Suspended == bar.pc # "execute"
AllWait == Suspended /\ CleanWaits
Ready == bar.pc = "idle" /\ ~clean.starting /\ CleanWaits

-----------------------------------------------------------------------------
(* BreakoutRetestScalpingV3Strategy.update, called for a pair *)

(* Variant: an old entry whose order is unknown to the client is left alone. *)
FsmTimeoutIfTracked(p) ==
    /\ Ready
    /\ fsm[p] = "ENTRY" /\ p \in signalOld
    /\ signalOld' = signalOld \ {p}
    /\ tracked[p] \in mapped
    /\ RequestCancel(tracked[p])
    /\ fsm' = [fsm EXCEPT ![p] = "SCAN"]
    /\ bar' = [Idle EXCEPT !.pc = "fsm_wait", !.pair = p, !.cur = tracked[p]]
    /\ UNCHANGED <<tracked, guard, trackedOld, mapped, locked, brokerOld, clean, crashes, mode>>

(* The entry timed out: the state is reset, then _on_fsm_timeout cancels   *)
(* the tracked order and releases the blocks.                              *)
FsmTimeout(p) ==
    /\ Ready
    /\ fsm[p] = "ENTRY" /\ p \in signalOld
    /\ signalOld' = signalOld \ {p}
    /\ \/ /\ tracked[p] \in mapped
          /\ RequestCancel(tracked[p])
          /\ fsm' = [fsm EXCEPT ![p] = "SCAN"]
          /\ bar' = [Idle EXCEPT !.pc = "fsm_wait", !.pair = p, !.cur = tracked[p]]
          /\ UNCHANGED <<tracked, guard, trackedOld>>
       \/ /\ tracked[p] \notin mapped
          /\ ReleaseBlocks(p)
          /\ UNCHANGED <<brokerVars, bar>>
    /\ UNCHANGED <<mapped, locked, brokerOld, clean, crashes, mode>>

FsmTimeoutEnds ==
    /\ bar.pc = "fsm_wait"
    /\ ReleaseBlocks(bar.pair)
    /\ bar' = Idle
    /\ UNCHANGED <<brokerVars, mapped, locked, brokerOld, clean, signalOld, crashes, mode>>

(* can_trade holds the lock while it drops old entries of the guard, of    *)
(* any pair; the handler it calls for each releases the pair's blocks, and *)
(* for that waits for the lock.  Guard and entry are stamped together.     *)
StaleGuard == guard \cap trackedOld

CanTradeHangs(p, q) ==
    /\ Ready
    /\ fsm[p] = "SCAN" /\ q \in StaleGuard
    /\ guard' = guard \ {q}
    /\ tracked' = [tracked EXCEPT ![q] = NoOrder]
    /\ trackedOld' = trackedOld \ {q}
    /\ locked' = TRUE
    /\ bar' = [Idle EXCEPT !.pc = "stuck", !.pair = p]
    /\ UNCHANGED <<brokerVars, fsm, mapped, brokerOld, clean, signalOld, crashes, mode>>

CanTrade(p) == StaleGuard = {} /\ p \notin guard

(* _emit_stop_signal *)
Signal(p) ==
    /\ Ready
    /\ fsm[p] = "SCAN" /\ CanTrade(p)
    /\ fsm' = [fsm EXCEPT ![p] = "ENTRY"]
    /\ signalOld' = signalOld \ {p}
    /\ \E wide \in BOOLEAN :
        bar' = [Idle EXCEPT !.pc = "execute", !.pair = p, !.wide = wide]
    /\ UNCHANGED <<brokerVars, tracked, guard, trackedOld, mapped, locked,
                   brokerOld, clean, crashes, mode>>

-----------------------------------------------------------------------------
(* _handle_signal, TradeExecutor.execute *)

(* Variant: a signal that is not executed leaves the strategy's state. *)
AbandonHalf ==
    /\ Forget({bar.pair})
    /\ bar' = Idle
    /\ UNCHANGED <<brokerVars, fsm>>

Abandon ==
    /\ ReleaseBlocks(bar.pair)
    /\ bar' = Idle
    /\ UNCHANGED brokerVars

(* execute unpacks the pair info into six names: any other width raises,   *)
(* and the exception ends like a refused order.                            *)
Execute ==
    /\ bar.pc = "execute"
    /\ \/ /\ bar.wide \/ (mode = "AUTO" /\ PairInfoFields # 6)
          /\ Abandon
       \/ /\ ~bar.wide /\ mode = "MANUAL"
          /\ bar' = Idle
          /\ UNCHANGED <<brokerVars, blockVars>>
       \/ /\ ~bar.wide /\ mode = "AUTO" /\ PairInfoFields = 6
          /\ bar' = [bar EXCEPT !.pc = "balance"]
          /\ UNCHANGED <<brokerVars, blockVars>>
    /\ UNCHANGED <<mapped, locked, brokerOld, clean, signalOld, crashes, mode>>

(* No balance, or a lot of nothing. *)
NoLot ==
    /\ bar.pc = "balance"
    /\ Abandon
    /\ UNCHANGED <<mapped, locked, brokerOld, clean, signalOld, crashes, mode>>

(* Each attempt sends an order of its own. *)
Attempt(o) ==
    /\ bar.pc \in {"balance", "pause"}
    /\ order[o] = "free" /\ PairOf[o] = bar.pair
    /\ order' = [order EXCEPT ![o] = "sent"]
    /\ bar' = [bar EXCEPT !.pc = "place", !.cur = o, !.tries = @ + 1, !.answer = "none"]
    /\ UNCHANGED <<cancelReq, closeReq, events, blockVars, mapped, locked,
                   brokerOld, clean, signalOld, crashes, mode>>

(* Variant: the order is tracked but not marked at the guard. *)
PlacedUnmarked ==
    /\ bar.pc = "place" /\ bar.answer = "ok"
    /\ tracked' = [tracked EXCEPT ![bar.pair] = bar.cur]
    /\ trackedOld' = trackedOld \ {bar.pair}
    /\ bar' = Idle
    /\ UNCHANGED <<brokerVars, guard, fsm, mapped, locked, brokerOld, clean, signalOld,
                   crashes, mode>>

Placed ==
    /\ bar.pc = "place" /\ bar.answer = "ok"
    /\ Track(bar.cur)
    /\ bar' = Idle
    /\ UNCHANGED <<brokerVars, fsm, mapped, locked, brokerOld, signalOld, crashes, mode>>

(* Bound: orders left to try.                                              *)
Retries ==
    /\ bar.tries < MaxRetries
    /\ \E o \in Orders : order[o] = "free" /\ PairOf[o] = bar.pair

(* Variant: an attempt ends with its answer only. *)
PlaceWaits ==
    /\ bar.pc = "place" /\ bar.answer = "fail"
    /\ Abandon
    /\ UNCHANGED <<mapped, locked, brokerOld, clean, signalOld, crashes, mode>>

PlaceFails ==
    /\ bar.pc = "place"
    /\ bar.answer = "fail" \/ (bar.answer = "none" /\ PlaceMayTimeOut)
    /\ \/ /\ Retries
          /\ bar' = [bar EXCEPT !.pc = "pause", !.answer = "none"]
          /\ UNCHANGED <<brokerVars, blockVars>>
       \/ ~Retries /\ Abandon
    /\ UNCHANGED <<mapped, locked, brokerOld, clean, signalOld, crashes, mode>>

-----------------------------------------------------------------------------
(* What the placement's future learns from an event of its order. *)
PlaceHears(type, o) ==
    bar' = [bar EXCEPT !.answer =
        IF bar.pc # "place" \/ bar.cur # o \/ bar.answer # "none" THEN @
        ELSE IF type \in {"ACCEPTED", "FILLED"} THEN "ok" ELSE "fail"]

Deliver(type, o) ==
    /\ AllWait
    /\ events # <<>> /\ Head(events) = [type |-> type, ord |-> o]
    /\ events' = Tail(events)
    /\ Callback(type, o)
    /\ mapped' = MappedAfter(type, o)
    /\ CleanHears(type, o)
    /\ PlaceHears(type, o)
    /\ UNCHANGED <<order, cancelReq, closeReq, locked, brokerOld, signalOld, crashes, mode>>

(* An order error without a client id: the cancel of an order that was     *)
(* gone, and unknown to the client, is refused.  The only placement under  *)
(* way gets it.                                                            *)
StrayError ==
    /\ Suspended
    /\ clean.pc \in {"tracked_wait", "stale_wait"}
    /\ order[clean.wait] = "dead" /\ clean.wait \notin mapped
    /\ bar.pc = "place" /\ bar.answer = "none"
    /\ bar' = [bar EXCEPT !.answer = "fail"]
    /\ UNCHANGED <<brokerVars, orchestratorVars, signalOld, crashes, mode>>

Outside ==
    /\ AllWait
    /\ BrokerStep
    /\ UNCHANGED <<orchestratorVars, bar, signalOld, crashes, mode>>

CleanupTask ==
    /\ Suspended
    /\ Cleanup
    /\ UNCHANGED <<locked, bar, signalOld, crashes, mode>>

AgeSignal(p) ==
    /\ Suspended /\ ~CleanRuns
    /\ fsm[p] = "ENTRY" /\ p \notin signalOld
    /\ signalOld' = signalOld \cup {p}
    /\ UNCHANGED <<brokerVars, orchestratorVars, bar, crashes, mode>>

(* The signal bears the time of its bar, earlier than the entry's. *)
Ages ==
    /\ Suspended
    /\ \/ \E p \in Pairs : (fsm[p] = "ENTRY" => p \in signalOld) /\ AgeEntry(p)
       \/ \E o \in Orders : AgeOrder(o)
    /\ UNCHANGED <<locked, bar, signalOld, crashes, mode>>

(* A new session: client, guard, orchestrator and strategy start over. *)
Restart ==
    /\ Suspended
    /\ crashes < MaxCrashes
    /\ crashes' = crashes + 1
    /\ events' = <<>>
    /\ tracked' = [p \in Pairs |-> NoOrder]
    /\ fsm' = [p \in Pairs |-> "SCAN"]
    /\ mapped' = {} /\ guard' = {} /\ trackedOld' = {} /\ signalOld' = {}
    /\ locked' = FALSE
    /\ clean' = Recovering /\ bar' = Idle
    /\ UNCHANGED <<order, cancelReq, closeReq, brokerOld, mode>>

BarTask ==
    /\ CleanWaits
    /\ \/ \E p \in Pairs : FsmTimeout(p) \/ Signal(p)
       \/ \E p, q \in Pairs : CanTradeHangs(p, q)
       \/ FsmTimeoutEnds \/ Execute \/ NoLot \/ Placed \/ PlaceFails
       \/ \E o \in Orders : Attempt(o)

Next ==
    \/ BarTask \/ CleanupTask \/ Outside \/ Ages \/ Restart \/ StrayError
    \/ \E type \in EventTypes, o \in Orders : Deliver(type, o)
    \/ \E p \in Pairs : AgeSignal(p)

(* Both tasks run, bars of every pair keep coming, and time passes whenever *)
(* nothing is ready to run.                                                *)
Fairness ==
    /\ WF_vars(BarTask) /\ WF_vars(CleanupTask)
    /\ \A p \in Pairs : SF_vars(FsmTimeout(p)) /\ SF_vars(AgeSignal(p))

Spec == Init /\ [][Next]_vars /\ Fairness

-----------------------------------------------------------------------------
TypeOK ==
    /\ order \in [Orders -> OrderStates]
    /\ cancelReq \subseteq Orders /\ closeReq = {}
    /\ \A i \in DOMAIN events : events[i] \in Event
    /\ tracked \in [Pairs -> OrderOrNone]
    /\ mapped \subseteq Orders /\ brokerOld \subseteq Orders
    /\ guard \subseteq Pairs /\ trackedOld \subseteq Pairs /\ signalOld \subseteq Pairs
    /\ locked \in BOOLEAN
    /\ fsm \in [Pairs -> FsmStates]
    /\ clean \in Clean /\ bar \in Bar
    /\ crashes \in 0 .. MaxCrashes /\ mode \in Modes

(* As long as the lock is free, a pair has a tracked order if and only if  *)
(* the guard blocks it: fills, timeouts, the cleanup and late callbacks    *)
(* take both away together.                                                *)
TrackedIsGuarded == ~locked => guard = Entries

(* A submitted entry is either being placed or tracked: otherwise nothing  *)
(* but its timeout would ever end it.                                      *)
EntryIsBacked ==
    mode = "AUTO" /\ ~locked =>
        \A p \in Pairs : fsm[p] = "ENTRY" =>
            tracked[p] # NoOrder \/ (bar.pair = p /\ bar.pc \in {"execute", "balance", "place", "pause"})

(* A pair is in a trade only if its position is open, or the event of its  *)
(* close is still to come: nothing else takes it out of this state.        *)
InTradeEnds ==
    ~locked =>
        \A p \in Pairs : fsm[p] = "IN_TRADE" =>
            \E o \in Orders : /\ PairOf[o] = p
                              /\ \/ order[o] = "open"
                                 \/ [type |-> "CLOSED", ord |-> o] \in Range(events)

(* A submitted entry comes to an end. *)
EntryEnds == \A p \in Pairs : fsm[p] = "ENTRY" ~> fsm[p] # "ENTRY"

-----------------------------------------------------------------------------
(* What the repository says, and the code does not do *)

(* "AUTO sends orders through TradeExecutor" (README.md:38).               *)
SignalsAreExecuted ==
    [][mode = "AUTO" /\ bar.pc = "execute" /\ bar'.pc = "idle" => bar.wide]_vars

(* "After the TTL both the guard's and the orchestrator's blocks go"       *)
(* (tests/test_stale_orders.py:170).                                       *)
BlocksGo == \A q \in Pairs : q \in StaleGuard ~> q \notin guard /\ ~locked

(* "Async-safe protection against duplicate limit orders"                  *)
(* (app/strategy/trade_guard.py:13).                                       *)
OneOrderPerPair ==
    \A o, c \in Orders :
        /\ {order[o], order[c]} \subseteq {"sent", "working"}
        /\ PairOf[o] = PairOf[c]
        => o = c

(* "One active setup per pair" (app/strategy/fsm.py:10).                   *)
NoEntryInTrade ==
    [][\A o \in Orders :
        order[o] = "free" /\ order'[o] = "sent" =>
            \A c \in Positions : PairOf[c] # PairOf[o]]_vars

(* The only pending placement is the one the error is about                *)
(* (app/connection/ctrader_client.py:1540).                                *)
FailedIsNotPlaced ==
    bar.pc = "place" /\ bar.answer = "fail" => order[bar.cur] = "dead"
=============================================================================
