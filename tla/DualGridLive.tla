---------------------------- MODULE DualGridLive ----------------------------
(***************************************************************************)
(* The grid engine beside the cleanup task: one session of src/main.py     *)
(* with STRATEGY_TYPE dual_grid.  The task of module Orchestrator shares   *)
(* with the engine the tracked orders, the client's order ids and the      *)
(* cached Reconcile answer, and runs whenever the bar handler awaits.  It  *)
(* knows nothing of the grids: what it cancels or forgets the engine       *)
(* learns from events, from the broker, or not at all.                     *)
(*                                                                         *)
(* The grid strategy sets no guard and has no signal state.                *)
(***************************************************************************)
EXTENDS DualGridProperties

VARIABLES
    trackedOld, \* pairs whose tracked order is old
    brokerOld,  \* orders that are old at the broker
    clean       \* the cleanup task

sessionVars == <<vars, trackedOld, brokerOld, clean>>
engineVars == <<grids, meta, modeVars, polled, job, crashes>>

C == INSTANCE Orchestrator WITH
        guard <- {}, locked <- FALSE, fsm <- [p \in Pairs |-> "SCAN"]

SessionInit == Init /\ C!OrchestratorInit

(* run_recovery ends before the bar task starts. *)
Started == ~clean.starting

(* An entry that is replaced or goes takes its age with it, and an order   *)
(* that no longer rests at the broker has none.                            *)
KeepAges ==
    /\ trackedOld' = {p \in trackedOld : tracked'[p] = tracked[p]}
    /\ brokerOld' = {o \in brokerOld : order'[o] = "working"}

EngineTask ==
    /\ Started /\ C!CleanWaits
    /\ Engine \/ ServeReconcile
    /\ KeepAges
    /\ UNCHANGED clean

(* A second cancel of an order takes the place of the first in the         *)
(* client's _cancel_futures: of two that wait one is told.                 *)
BothWait(o) == job.wait = o /\ clean.wait = o

CancelHeardByCleanup(o) ==
    /\ BothWait(o)
    /\ Handle("CANCELLED", o) \/ Handle("REJECTED", o)
    /\ mapped' = mapped \ {o}
    /\ Untrack(PairOf[o])
    /\ job' = [job EXCEPT !.barrier = Passed]
    /\ C!CleanHears("CANCELLED", o)
    /\ UNCHANGED <<grids, meta>>

Hear ==
    /\ C!CleanWaits
    /\ \/ /\ Deliver
          /\ LET e == Head(events)
             IN  C!CleanHears(IF BothWait(e.ord) THEN "CLOSED" ELSE e.type, e.ord)
       \/ \E o \in Orders : CancelHeardByCleanup(o)
    /\ KeepAges

(* Every Reconcile answer goes through the cache, when its caller goes on: *)
(* one that the engine has yet to go on with is the newer.                 *)
AnswerIsHeard == C!CleanAnswered("fetch") \/ C!CleanAnswered("recover")

Cleans(action) ==
    /\ Suspended
    /\ action
    /\ cache' = IF AnswerIsHeard /\ job.barrier = 0 THEN clean.snap ELSE cache
    /\ UNCHANGED engineVars

CleanupTask == Cleans(C!Cleanup)

SessionAges ==
    /\ Suspended
    /\ \/ \E p \in Pairs : C!AgeEntry(p)
       \/ \E o \in Orders : C!AgeOrder(o)
    /\ UNCHANGED <<cache, engineVars>>

NewSession ==
    /\ Crash
    /\ clean' = C!Recovering
    /\ trackedOld' = {}
    /\ UNCHANGED brokerOld

SessionNext ==
    \/ EngineTask \/ Hear \/ CleanupTask \/ SessionAges \/ NewSession
    \/ /\ C!CleanWaits
       /\ Outside \/ CacheExpires \/ \E o \in Orders : Age(o)
       /\ KeepAges
       /\ UNCHANGED clean

SessionSpec == SessionInit /\ [][SessionNext]_sessionVars

(* Both tasks go on, bars of every pair keep coming, time passes, and not   *)
(* every Reconcile request of the cleanup is refused.  Nothing is asked of  *)
(* the broker's orders.                                                     *)
SessionFairness ==
    /\ WF_sessionVars(EngineTask) /\ WF_sessionVars(Hear)
    /\ \A p \in Pairs : SF_sessionVars(EngineTask /\ StartBar(p))
    /\ SF_sessionVars(CleanupTask) /\ SF_sessionVars(Cleans(C!CleanupServed))
    /\ SF_sessionVars(SessionAges)
    /\ \A o \in Orders : WF_sessionVars(Age(o) /\ KeepAges /\ UNCHANGED clean)

FairSession == SessionSpec /\ SessionFairness

-----------------------------------------------------------------------------
SessionTypeOK ==
    /\ BrokerType /\ BookType /\ ControlType
    /\ clean \in C!Clean
    /\ trackedOld \subseteq Pairs /\ brokerOld \subseteq WorkingOrders

(* A tracked order does not stay tracked for ever: its events, the engine  *)
(* or the cleanup end it, whichever order they come in, also if the order  *)
(* was gone before it was tracked.                                         *)
EntriesEnd ==
    \A o \in Orders : tracked[PairOf[o]] = o ~> tracked[PairOf[o]] # o

(* The level of an order that the cleanup, the broker or a new session     *)
(* ended does not stay in its grid.                                        *)
LevelsOfDeadGo ==
    \A o \in Orders :
        (order[o] = "dead" /\ HasCid(OwnGrid(o), o))
            ~> (~HasCid(OwnGrid(o), o) \/ halted)
=============================================================================
