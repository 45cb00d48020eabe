------------------------- MODULE BreakoutLive_proofs -------------------------
(***************************************************************************)
(* For any number of pairs, orders, retries and restarts: the guard blocks *)
(* the pairs that have a tracked order, and a submitted entry is backed.   *)
(***************************************************************************)
EXTENDS BreakoutLive, TLAPS

Working == {"execute", "balance", "place", "pause"}
InHand(p) == bar.pair = p /\ bar.pc \in Working
Backed(p) == fsm[p] = "ENTRY" => tracked[p] # NoOrder \/ InHand(p)
Guarded(p) == p \in guard <=> tracked[p] # NoOrder

BlockTypes ==
    /\ tracked \in [Pairs -> OrderOrNone]
    /\ fsm \in [Pairs -> FsmStates]
    /\ guard \subseteq Pairs
    /\ locked \in BOOLEAN

(* The pair and the order in the hands of the bar task.                    *)
HandOK ==
    /\ bar.pc \in Working => bar.pair \in Pairs
    /\ bar.pc = "place" => bar.cur \in Orders /\ PairOf[bar.cur] = bar.pair

BlocksInv ==
    /\ BlockTypes /\ HandOK
    /\ ~locked => \A p \in Pairs : Guarded(p)
    /\ mode = "AUTO" /\ ~locked => \A p \in Pairs : Backed(p)

LEMMA BlocksInit == Init => BlocksInv
<1> SUFFICES ASSUME Init PROVE BlocksInv
  OBVIOUS
<1>1. BlockTypes
  BY DEF Init, OrchestratorInit, BlockTypes, OrderOrNone, FsmStates
<1>2. HandOK
  BY DEF Init, HandOK, Working, Idle
<1>3. \A p \in Pairs : Guarded(p) /\ Backed(p)
  BY DEF Init, OrchestratorInit, Guarded, Backed
<1> QED  BY <1>1, <1>2, <1>3 DEF BlocksInv

-----------------------------------------------------------------------------
(* What every step of the other tasks does to a pair: its blocks stay as   *)
(* they are, or they go together and the entry ends.                       *)
Kept(p) ==
    /\ tracked'[p] = tracked[p] /\ fsm'[p] = fsm[p]
    /\ p \in guard' <=> p \in guard
Gone(p) ==
    /\ tracked'[p] = NoOrder /\ fsm'[p] # "ENTRY"
    /\ p \notin guard'
KeptOrGone ==
    /\ tracked' \in [Pairs -> OrderOrNone]
    /\ fsm' \in [Pairs -> FsmStates]
    /\ guard' \subseteq Pairs
    /\ locked \/ \A p \in Pairs : Kept(p) \/ Gone(p)

LEMMA BlocksKept ==
    ASSUME BlockTypes, UNCHANGED blockVars
    PROVE  KeptOrGone
BY DEF BlockTypes, blockVars, KeptOrGone, Kept

LEMMA ForgetTypes ==
    ASSUME BlockTypes, NEW S, Forget(S)
    PROVE  /\ tracked' \in [Pairs -> OrderOrNone] /\ guard' \subseteq Pairs
           /\ \A p \in Pairs :
                IF p \in S THEN tracked'[p] = NoOrder /\ p \notin guard'
                ELSE tracked'[p] = tracked[p] /\ (p \in guard' <=> p \in guard)
BY DEF BlockTypes, Forget, OrderOrNone

LEMMA ReleaseGoes ==
    ASSUME BlockTypes, NEW q, ReleaseBlocks(q)
    PROVE  KeptOrGone /\ (q \in Pairs => Gone(q)) /\ \A p \in Pairs \ {q} : Kept(p)
<1>1. /\ fsm' \in [Pairs -> FsmStates]
      /\ \A p \in Pairs : fsm'[p] = IF p = q THEN "SCAN" ELSE fsm[p]
  BY DEF BlockTypes, ReleaseBlocks, FsmStates
<1>2. Forget({q})
  BY DEF ReleaseBlocks
<1> QED  BY <1>1, <1>2, ForgetTypes DEF KeptOrGone, Kept, Gone

LEMMA PopTypes ==
    ASSUME BlockTypes, NEW q, PopOnly(q)
    PROVE  tracked' \in [Pairs -> OrderOrNone] /\ guard' \subseteq Pairs
BY DEF BlockTypes, PopOnly, OrderOrNone

LEMMA CallbackGoes ==
    ASSUME BlockTypes, NEW type \in EventTypes, NEW o \in Orders, Callback(type, o)
    PROVE  KeptOrGone
<1>1. CASE FillCallback(PairOf[o])
  <2>1. /\ fsm' \in [Pairs -> FsmStates]
        /\ \A p \in Pairs : fsm'[p] = IF p = PairOf[o] THEN Filled(fsm[p]) ELSE fsm[p]
        /\ \A p \in Pairs : Filled(fsm[p]) # "ENTRY"
    BY <1>1 DEF BlockTypes, FillCallback, Filled, FsmStates
  <2>2. CASE locked
    BY <1>1, <2>1, <2>2, PopTypes DEF FillCallback, KeptOrGone
  <2>3. CASE ~locked
    <3>1. Forget({PairOf[o]})
      BY <1>1, <2>3 DEF FillCallback
    <3> QED  BY <2>1, <3>1, ForgetTypes DEF KeptOrGone, Kept, Gone
  <2> QED  BY <2>2, <2>3
<1>2. CASE ReleaseCallback(PairOf[o])
  <2>1. CASE ReleaseBlocks(PairOf[o])
    BY <2>1, ReleaseGoes
  <2>2. CASE locked /\ PopOnly(PairOf[o]) /\ UNCHANGED fsm
    BY <2>2, PopTypes DEF KeptOrGone, BlockTypes
  <2> QED  BY <1>2, <2>1, <2>2 DEF ReleaseCallback
<1>3. CASE UNCHANGED blockVars
  BY <1>3, BlocksKept
<1> QED  BY <1>1, <1>2, <1>3 DEF Callback

LEMMA ReconcileGoes ==
    ASSUME BlockTypes, ReconcileMissing
    PROVE  KeptOrGone
<1>1. Forget(Missing)
  BY DEF ReconcileMissing
<1>2. /\ fsm' \in [Pairs -> FsmStates]
      /\ \A p \in Pairs : IF p \in Missing THEN fsm'[p] # "ENTRY" ELSE fsm'[p] = fsm[p]
  BY DEF BlockTypes, ReconcileMissing, Filled, FsmStates
<1> QED  BY <1>1, <1>2, ForgetTypes DEF KeptOrGone, Kept, Gone

LEMMA CleanupGoes ==
    ASSUME BlockTypes, Cleanup
    PROVE  KeptOrGone
<1>1. CASE UNCHANGED blockVars
  BY <1>1, BlocksKept
<1>2. CASE \E q : ReleaseBlocks(q)
  BY <1>2, ReleaseGoes
<1>3. CASE ReconcileMissing
  BY <1>3, ReconcileGoes
<1>4. UNCHANGED blockVars \/ (\E q : ReleaseBlocks(q)) \/ ReconcileMissing
  BY DEF Cleanup, CleanupStart, CleanupServed, CleanupGivesUp, CleanupReconciles, CancelOldEntry,
         OldEntryCancelled, StartSweep, CancelStale, StaleCancelled, CleanupEnds
<1> QED  BY <1>1, <1>2, <1>3, <1>4

(* Steps beside the bar task. *)
LEMMA OthersStep ==
    ASSUME BlocksInv, KeptOrGone, UNCHANGED <<locked, mode>>,
           bar'.pc = bar.pc, bar'.pair = bar.pair, bar'.cur = bar.cur
    PROVE  BlocksInv'
<1>1. BlockTypes' /\ HandOK'
  BY DEF BlocksInv, BlockTypes, HandOK, KeptOrGone
<1>2. ASSUME ~locked, NEW p \in Pairs PROVE Guarded(p)'
  BY <1>2 DEF BlocksInv, KeptOrGone, Kept, Gone, Guarded
<1>3. ASSUME mode = "AUTO", ~locked, NEW p \in Pairs PROVE Backed(p)'
  BY <1>3 DEF BlocksInv, KeptOrGone, Kept, Gone, Backed, InHand
<1> QED  BY <1>1, <1>2, <1>3 DEF BlocksInv

LEMMA OtherTasks ==
    ASSUME BlocksInv,
           \/ CleanupTask \/ Outside \/ Ages \/ StrayError
           \/ \E type \in EventTypes, o \in Orders : Deliver(type, o)
           \/ \E p \in Pairs : AgeSignal(p)
    PROVE  BlocksInv'
<1> USE DEF BlocksInv
<1>1. CASE CleanupTask
  BY <1>1, CleanupGoes, OthersStep DEF CleanupTask
<1>2. CASE Outside \/ Ages \/ StrayError \/ \E p \in Pairs : AgeSignal(p)
  <2>1. UNCHANGED <<tracked, guard, fsm, locked, mode>>
    BY <1>2 DEF Outside, Ages, AgeEntry, AgeOrder, StrayError, AgeSignal, orchestratorVars, blockVars
  <2>2. KeptOrGone
    BY <2>1 DEF BlockTypes, KeptOrGone, Kept
  <2>3. bar'.pc = bar.pc /\ bar'.pair = bar.pair /\ bar'.cur = bar.cur
    <3>1. CASE StrayError
      BY <3>1 DEF StrayError
    <3>2. CASE Outside \/ Ages \/ \E p \in Pairs : AgeSignal(p)
      BY <3>2 DEF Outside, Ages, AgeEntry, AgeOrder, AgeSignal
    <3> QED  BY <1>2, <3>1, <3>2
  <2> QED  BY <2>1, <2>2, <2>3, OthersStep
<1>3. ASSUME NEW type \in EventTypes, NEW o \in Orders, Deliver(type, o)
      PROVE  BlocksInv'
  <2>1. bar'.pc = bar.pc /\ bar'.pair = bar.pair /\ bar'.cur = bar.cur
    BY <1>3 DEF Deliver, PlaceHears
  <2> QED  BY <1>3, <2>1, CallbackGoes, OthersStep DEF Deliver
<1> QED  BY <1>1, <1>2, <1>3

-----------------------------------------------------------------------------
(* Steps of the bar task.  While it is idle or waits for a cancel it has   *)
(* no entry in its hands.                                                  *)
LEMMA EmptyHand ==
    ASSUME BlocksInv, bar.pc \notin Working, NEW p \in Pairs, mode = "AUTO", ~locked
    PROVE  fsm[p] = "ENTRY" => tracked[p] # NoOrder
BY DEF BlocksInv, Backed, InHand

LEMMA FsmTimeoutStep ==
    ASSUME BlocksInv, NEW q \in Pairs, FsmTimeout(q)
    PROVE  BlocksInv'
<1>1. bar.pc \notin Working /\ UNCHANGED <<locked, mode>> /\ bar'.pc \notin Working
  BY DEF FsmTimeout, Ready, Working, Idle
<1>2. HandOK'
  BY <1>1 DEF HandOK, Working
<1>3. CASE ReleaseBlocks(q)
  <2>1. BlockTypes' /\ \A p \in Pairs : Kept(p) \/ Gone(p)
    BY <1>1, <1>3, ReleaseGoes DEF BlocksInv, BlockTypes, KeptOrGone
  <2> QED  BY <1>1, <1>2, <2>1, EmptyHand DEF BlocksInv, Kept, Gone, Guarded, Backed
<1>4. CASE UNCHANGED <<tracked, guard>> /\ fsm' = [fsm EXCEPT ![q] = "SCAN"]
  <2>1. BlockTypes'
    BY <1>1, <1>4 DEF BlocksInv, BlockTypes, FsmStates
  <2>2. \A p \in Pairs : fsm'[p] = "ENTRY" => fsm[p] = "ENTRY"
    BY <1>4 DEF BlocksInv, BlockTypes
  <2> QED  BY <1>1, <1>2, <1>4, <2>1, <2>2, EmptyHand DEF BlocksInv, Guarded, Backed
<1> QED  BY <1>3, <1>4 DEF FsmTimeout

(* Releasing the pair in hand, or with empty hands, and going idle.        *)
LEMMA LettingGo ==
    ASSUME BlocksInv, NEW q, ReleaseBlocks(q), bar' = Idle, UNCHANGED <<locked, mode>>,
           bar.pc \in Working => q = bar.pair
    PROVE  BlocksInv'
<1>1. BlockTypes' /\ (q \in Pairs => Gone(q)) /\ \A p \in Pairs \ {q} : Kept(p)
  BY ReleaseGoes DEF BlocksInv, BlockTypes, KeptOrGone
<1>2. HandOK'
  BY DEF HandOK, Working, Idle
<1>3. ASSUME ~locked, NEW p \in Pairs PROVE Guarded(p)'
  BY <1>1, <1>3 DEF BlocksInv, Kept, Gone, Guarded
<1>4. ASSUME mode = "AUTO", ~locked, NEW p \in Pairs PROVE Backed(p)'
  <2>1. CASE p = q
    BY <1>1, <2>1 DEF Gone, Backed
  <2>2. CASE p # q
    BY <1>1, <1>4, <2>2 DEF BlocksInv, Kept, Backed, InHand
  <2> QED  BY <2>1, <2>2
<1> QED  BY <1>1, <1>2, <1>3, <1>4 DEF BlocksInv

LEMMA HangStep ==
    ASSUME BlocksInv, NEW p \in Pairs, NEW q \in Pairs, CanTradeHangs(p, q)
    PROVE  BlocksInv'
<1>1. locked' = TRUE /\ bar'.pc = "stuck"
  BY DEF CanTradeHangs
<1>2. BlockTypes'
  BY <1>1 DEF CanTradeHangs, BlocksInv, BlockTypes, OrderOrNone
<1>3. HandOK'
  BY <1>1 DEF HandOK, Working
<1> QED  BY <1>1, <1>2, <1>3 DEF BlocksInv

LEMMA SignalStep ==
    ASSUME BlocksInv, NEW q \in Pairs, Signal(q)
    PROVE  BlocksInv'
<1>1. /\ bar.pc \notin Working /\ UNCHANGED <<tracked, guard, locked, mode>>
      /\ fsm' = [fsm EXCEPT ![q] = "ENTRY"]
      /\ bar'.pc = "execute" /\ bar'.pair = q
  BY DEF Signal, Ready, Working
<1>2. BlockTypes' /\ HandOK'
  BY <1>1 DEF BlocksInv, BlockTypes, HandOK, FsmStates
<1>3. ASSUME mode = "AUTO", ~locked, NEW p \in Pairs PROVE Backed(p)'
  <2>1. CASE p = q
    BY <1>1, <2>1 DEF Backed, InHand, Working
  <2>2. CASE p # q
    BY <1>1, <1>3, <2>2, EmptyHand DEF BlocksInv, BlockTypes, Backed
  <2> QED  BY <2>1, <2>2
<1> QED  BY <1>1, <1>2, <1>3 DEF BlocksInv, Guarded

(* The entry stays in hand. *)
LEMMA HoldingOn ==
    ASSUME BlocksInv, UNCHANGED blockVars, UNCHANGED <<locked, mode>>,
           bar.pc \in Working, bar'.pc \in Working, bar'.pair = bar.pair,
           bar'.pc = "place" => bar'.cur \in Orders /\ PairOf[bar'.cur] = bar'.pair
    PROVE  BlocksInv'
<1>1. BlockTypes' /\ HandOK'
  BY DEF BlocksInv, BlockTypes, HandOK, blockVars
<1> QED  BY <1>1 DEF BlocksInv, blockVars, Guarded, Backed, InHand

LEMMA PlacedStep ==
    ASSUME BlocksInv, Placed
    PROVE  BlocksInv'
<1> DEFINE q == bar.pair
<1>1. /\ q \in Pairs /\ bar.cur \in Orders /\ PairOf[bar.cur] = q
      /\ bar' = Idle /\ UNCHANGED <<fsm, locked, mode>>
  BY DEF Placed, BlocksInv, HandOK, Working
<1>2. tracked' = [tracked EXCEPT ![q] = bar.cur] /\ guard' = guard \cup {q}
  BY <1>1 DEF Placed, Track
<1>3. BlockTypes'
  BY <1>1, <1>2 DEF BlocksInv, BlockTypes, OrderOrNone
<1>4. HandOK'
  BY <1>1 DEF HandOK, Working, Idle
<1>5. ASSUME NEW p \in Pairs
      PROVE  IF p = q THEN tracked'[p] = bar.cur ELSE tracked'[p] = tracked[p]
  BY <1>2 DEF BlocksInv, BlockTypes
<1>6. bar.cur # NoOrder
  BY <1>1, NoOrderAssumption
<1> HIDE DEF q
<1>7. ASSUME ~locked, NEW p \in Pairs PROVE Guarded(p)'
  BY <1>2, <1>5, <1>6, <1>7 DEF BlocksInv, Guarded
<1>8. ASSUME mode = "AUTO", ~locked, NEW p \in Pairs PROVE Backed(p)'
  BY <1>1, <1>5, <1>6, <1>8 DEF BlocksInv, Backed, InHand, q
<1> QED  BY <1>1, <1>3, <1>4, <1>7, <1>8 DEF BlocksInv

LEMMA BarStep ==
    ASSUME BlocksInv, BarTask
    PROVE  BlocksInv'
<1>1. ASSUME NEW p \in Pairs, FsmTimeout(p) \/ Signal(p) PROVE BlocksInv'
  BY <1>1, FsmTimeoutStep, SignalStep
<1>2. ASSUME NEW p \in Pairs, NEW q \in Pairs, CanTradeHangs(p, q) PROVE BlocksInv'
  BY <1>2, HangStep
<1>3. CASE FsmTimeoutEnds
  BY <1>3, LettingGo DEF FsmTimeoutEnds, Working
<1>4. ASSUME Abandon, UNCHANGED <<locked, mode>> PROVE BlocksInv'
  BY <1>4, LettingGo DEF Abandon
<1>5. CASE Execute
  <2>1. bar.pc = "execute" /\ UNCHANGED <<locked, mode>>
    BY <1>5 DEF Execute
  <2>2. CASE Abandon
    BY <1>4, <2>1, <2>2
  <2>3. CASE mode = "MANUAL" /\ bar' = Idle /\ UNCHANGED blockVars
    <3>1. BlockTypes' /\ HandOK'
      BY <2>1, <2>3 DEF BlocksInv, BlockTypes, HandOK, Working, Idle, blockVars
    <3> QED  BY <2>1, <2>3, <3>1 DEF BlocksInv, Guarded, blockVars
  <2>4. CASE bar' = [bar EXCEPT !.pc = "balance"] /\ UNCHANGED blockVars
    <3>1. bar'.pc = "balance" /\ bar'.pair = bar.pair
      BY <2>1, <2>4
    <3> QED  BY <2>1, <2>4, <3>1, HoldingOn DEF Working
  <2> QED  BY <1>5, <2>2, <2>3, <2>4 DEF Execute
<1>6. CASE NoLot
  BY <1>4, <1>6 DEF NoLot
<1>7. CASE Placed
  BY <1>7, PlacedStep
<1>8. CASE PlaceFails
  <2>1. bar.pc = "place" /\ UNCHANGED <<locked, mode>>
    BY <1>8 DEF PlaceFails
  <2>2. CASE Abandon
    BY <1>4, <2>1, <2>2
  <2>3. CASE bar' = [bar EXCEPT !.pc = "pause", !.answer = "none"] /\ UNCHANGED blockVars
    <3>1. bar'.pc = "pause" /\ bar'.pair = bar.pair
      BY <2>1, <2>3
    <3> QED  BY <2>1, <2>3, <3>1, HoldingOn DEF Working
  <2> QED  BY <1>8, <2>2, <2>3 DEF PlaceFails
<1>9. ASSUME NEW o \in Orders, Attempt(o) PROVE BlocksInv'
  <2>1. /\ bar.pc \in Working /\ UNCHANGED <<locked, mode>> /\ UNCHANGED blockVars
        /\ PairOf[o] = bar.pair
    BY <1>9 DEF Attempt, Working
  <2>2. bar'.pc = "place" /\ bar'.pair = bar.pair /\ bar'.cur = o
    BY <1>9 DEF Attempt
  <2> QED  BY <2>1, <2>2, HoldingOn DEF Working
<1> QED  BY <1>1, <1>2, <1>3, <1>5, <1>6, <1>7, <1>8, <1>9 DEF BarTask

LEMMA RestartStep ==
    ASSUME BlocksInv, Restart
    PROVE  BlocksInv'
<1>1. BlockTypes'
  BY DEF Restart, BlockTypes, OrderOrNone, FsmStates
<1>2. HandOK'
  BY DEF Restart, HandOK, Working, Idle
<1>3. \A p \in Pairs : Guarded(p)' /\ Backed(p)'
  BY DEF Restart, Guarded, Backed
<1> QED  BY <1>1, <1>2, <1>3 DEF BlocksInv

LEMMA BlocksStep == BlocksInv /\ [Next]_vars => BlocksInv'
<1> SUFFICES ASSUME BlocksInv, [Next]_vars PROVE BlocksInv'
  OBVIOUS
<1>1. CASE UNCHANGED vars
  BY <1>1 DEF vars, orchestratorVars, blockVars, BlocksInv, BlockTypes, HandOK, Guarded, Backed, InHand
<1> QED  BY <1>1, BarStep, OtherTasks, RestartStep DEF Next

LEMMA BlocksAlways == Spec => []BlocksInv
BY BlocksInit, BlocksStep, PTL DEF Spec

-----------------------------------------------------------------------------
(* Whatever fills, timeouts, cleanups and late callbacks come between: as  *)
(* long as the lock is free the guard blocks the pairs that have a tracked *)
(* order, and no other.                                                    *)
THEOREM GuardMatches == Spec => []TrackedIsGuarded
<1>1. BlocksInv => TrackedIsGuarded
  BY DEF BlocksInv, BlockTypes, TrackedIsGuarded, Entries, Guarded
<1> QED  BY <1>1, BlocksAlways, PTL

(* In AUTO an entry that was submitted is being placed or is tracked.      *)
THEOREM EntriesAreBacked == Spec => []EntryIsBacked
<1>1. BlocksInv => EntryIsBacked
  BY DEF BlocksInv, EntryIsBacked, Backed, InHand, Working
<1> QED  BY <1>1, BlocksAlways, PTL

-----------------------------------------------------------------------------
(* The types of everything else, with the locals of the two tasks: the     *)
(* cleanup has an answer from its comparison on, and an attempt is made    *)
(* only while one is left.                                                 *)
RestTypes ==
    /\ order \in [Orders -> OrderStates]
    /\ cancelReq \subseteq Orders /\ closeReq = {}
    /\ events \in Seq(Event)

StampTypes ==
    /\ mapped \subseteq Orders /\ brokerOld \subseteq Orders
    /\ trackedOld \subseteq Pairs /\ signalOld \subseteq Pairs
    /\ crashes \in 0 .. MaxCrashes /\ mode \in Modes

CleanTypes ==
    /\ clean \in Clean
    /\ clean.snap = NoSnap => clean.pc \in {"idle", "recover", "fetch"}
    /\ clean.pc = "idle" => clean.snap = NoSnap

BarTypes ==
    /\ bar \in Bar
    /\ bar.pc \in {"execute", "balance"} => bar.tries = 0
    /\ bar.pc = "pause" => bar.tries < MaxRetries

TypesInv == BlocksInv /\ RestTypes /\ StampTypes /\ CleanTypes /\ BarTypes

LEMMA TypesInit == Init => TypesInv
<1> SUFFICES ASSUME Init PROVE TypesInv
  OBVIOUS
<1>1. RestTypes
  BY DEF Init, BrokerInit, RestTypes, OrderStates
<1>2. StampTypes
  BY BreakoutAssumption DEF Init, OrchestratorInit, StampTypes
<1>3. CleanTypes
  BY DEF Init, OrchestratorInit, CleanTypes, Recovering, Asleep, Clean, OrderOrNone
<1>4. BarTypes
  BY BreakoutAssumption DEF Init, BarTypes, Idle, Bar, OrderOrNone
<1> QED  BY <1>1, <1>2, <1>3, <1>4, BlocksInit DEF TypesInv

(* What is tracked and known to the client is an order. *)
LEMMA CancelTypes ==
    ASSUME RestTypes, NEW o \in Orders, RequestCancel(o)
    PROVE  RestTypes'
BY DEF RestTypes, RequestCancel

LEMMA TurnTypes ==
    ASSUME RestTypes, NEW o \in Orders, NEW from, NEW to \in OrderStates,
           NEW type \in EventTypes, Turn(o, from, to, type)
    PROVE  RestTypes'
<1>1. order' \in [Orders -> OrderStates]
  BY DEF Turn, RestTypes
<1>2. cancelReq' \subseteq Orders /\ closeReq' = {}
  BY DEF Turn, RestTypes
<1>3. [type |-> type, ord |-> o] \in Event
  BY DEF Event
<1>4. events' \in Seq(Event)
  BY <1>3 DEF Turn, RestTypes
<1> QED  BY <1>1, <1>2, <1>4 DEF RestTypes

LEMMA BrokerTypes ==
    ASSUME RestTypes, BrokerStep
    PROVE  RestTypes'
<1>1. PICK o \in Orders :
        \/ Accept(o) \/ Reject(o) \/ Fill(o) \/ Expire(o)
        \/ StopOut(o) \/ ServeCancel(o) \/ ServeClose(o)
  BY DEF BrokerStep
<1>2. \E from, to \in OrderStates : \E type \in EventTypes : Turn(o, from, to, type)
  BY <1>1 DEF Accept, Reject, Fill, Expire, StopOut, ServeCancel, ServeClose, OrderStates, EventTypes
<1> QED  BY <1>2, TurnTypes

(* What the program itself does to the broker: it asks for a cancel, or    *)
(* sends an order.                                                         *)
LEMMA ProgramSends ==
    ASSUME TypesInv,
           \/ BarTask \/ CleanupTask \/ Ages \/ StrayError \/ UNCHANGED vars
           \/ \E p \in Pairs : AgeSignal(p)
    PROVE  \/ UNCHANGED brokerVars
           \/ \E o \in Orders : RequestCancel(o)
           \/ \E o \in Orders : Attempt(o)
<1>1. mapped \subseteq Orders
  BY DEF TypesInv, StampTypes
<1>2. CASE CleanupTask
  BY <1>1, <1>2 DEF CleanupTask, Cleanup, CleanupStart, CleanupServed, CleanupGivesUp,
     CleanupReconciles, CancelOldEntry, OldEntryCancelled, StartSweep, CancelStale, StaleCancelled,
     CleanupEnds
<1>3. ASSUME NEW p \in Pairs, FsmTimeout(p)
      PROVE  UNCHANGED brokerVars \/ \E o \in Orders : RequestCancel(o)
  BY <1>1, <1>3 DEF FsmTimeout
<1>4. ASSUME NEW p \in Pairs, NEW q \in Pairs, Signal(p) \/ CanTradeHangs(p, q)
      PROVE  UNCHANGED brokerVars
  BY <1>4 DEF Signal, CanTradeHangs
<1>5. CASE FsmTimeoutEnds \/ Execute \/ NoLot \/ Placed \/ PlaceFails
  BY <1>5 DEF FsmTimeoutEnds, Execute, NoLot, Placed, PlaceFails, Abandon
<1>6. CASE Ages \/ StrayError \/ UNCHANGED vars \/ \E p \in Pairs : AgeSignal(p)
  BY <1>6 DEF Ages, AgeEntry, AgeOrder, StrayError, vars, AgeSignal
<1> QED  BY <1>2, <1>3, <1>4, <1>5, <1>6 DEF BarTask

LEMMA RestStep == TypesInv /\ [Next]_vars => RestTypes'
<1> SUFFICES ASSUME TypesInv, [Next]_vars PROVE RestTypes'
  OBVIOUS
<1>1. RestTypes
  BY DEF TypesInv
<1>2. CASE \/ BarTask \/ CleanupTask \/ Ages \/ StrayError \/ UNCHANGED vars
           \/ \E p \in Pairs : AgeSignal(p)
  <2>1. CASE UNCHANGED brokerVars
    BY <1>1, <2>1 DEF brokerVars, RestTypes
  <2>2. ASSUME NEW o \in Orders, Attempt(o) PROVE RestTypes'
    BY <1>1, <2>2 DEF Attempt, RestTypes, OrderStates
  <2> QED  BY <1>1, <1>2, <2>1, <2>2, ProgramSends, CancelTypes
<1>3. ASSUME NEW type \in EventTypes, NEW o \in Orders, Deliver(type, o) PROVE RestTypes'
  <2>1. events # <<>> /\ events' = Tail(events) /\ UNCHANGED <<order, cancelReq, closeReq>>
    BY <1>3 DEF Deliver
  <2> QED  BY <1>1, <2>1 DEF RestTypes
<1>4. CASE Restart
  BY <1>1, <1>4 DEF Restart, RestTypes
<1>5. CASE Outside
  BY <1>1, <1>5, BrokerTypes DEF Outside
<1> QED  BY <1>2, <1>3, <1>4, <1>5 DEF Next

(* Entries are made by a placement only, and grow old by the clock only.   *)
Shrinks == trackedOld' \subseteq trackedOld /\ Entries' \subseteq Entries

LEMMA OnlyShrinks ==
    ASSUME BlockTypes,
           \/ BarTask /\ ~Placed
           \/ CleanupTask
           \/ \E type \in EventTypes, o \in Orders : Deliver(type, o)
    PROVE  Shrinks
<1>1. ASSUME NEW S, Forget(S) PROVE Shrinks
  BY <1>1 DEF Forget, Shrinks, Entries
<1>2. ASSUME NEW q, ReleaseBlocks(q) PROVE Shrinks
  BY <1>1, <1>2 DEF ReleaseBlocks
<1>3. CASE UNCHANGED <<tracked, trackedOld>>
  BY <1>3 DEF Shrinks, Entries
<1>4. CASE CleanupTask
  <2>1. UNCHANGED blockVars \/ (\E q : ReleaseBlocks(q)) \/ ReconcileMissing
    BY <1>4 DEF CleanupTask, Cleanup, CleanupStart, CleanupServed, CleanupGivesUp, CleanupReconciles,
       CancelOldEntry, OldEntryCancelled, StartSweep, CancelStale, StaleCancelled, CleanupEnds
  <2> QED  BY <1>1, <1>2, <1>3, <2>1 DEF blockVars, ReconcileMissing
<1>5. ASSUME NEW type \in EventTypes, NEW o \in Orders, Deliver(type, o)
      PROVE  Shrinks
  <2>1. Callback(type, o)
    BY <1>5 DEF Deliver
  <2>2. ASSUME NEW q, PopOnly(q) PROVE Shrinks
    BY <2>2 DEF PopOnly, Shrinks, Entries, BlockTypes
  <2> QED  BY <1>1, <1>2, <1>3, <2>1, <2>2 DEF Callback, FillCallback, ReleaseCallback, blockVars
<1>6. CASE BarTask /\ ~Placed
  <2>1. ASSUME NEW p \in Pairs, FsmTimeout(p) \/ Signal(p) PROVE Shrinks
    BY <1>2, <1>3, <2>1 DEF FsmTimeout, Signal
  <2>2. ASSUME NEW p \in Pairs, NEW q \in Pairs, CanTradeHangs(p, q) PROVE Shrinks
    BY <2>2 DEF CanTradeHangs, Shrinks, Entries, BlockTypes
  <2>3. CASE Abandon \/ FsmTimeoutEnds
    BY <1>2, <2>3 DEF Abandon, FsmTimeoutEnds
  <2>4. CASE UNCHANGED blockVars
    BY <1>3, <2>4 DEF blockVars
  <2>5. CASE Execute \/ NoLot \/ PlaceFails \/ \E o \in Orders : Attempt(o)
    BY <2>3, <2>4, <2>5 DEF Execute, NoLot, PlaceFails, Attempt
  <2> QED  BY <1>6, <2>1, <2>2, <2>3, <2>5 DEF BarTask
<1> QED  BY <1>4, <1>5, <1>6

LEMMA StampStep == TypesInv /\ [Next]_vars => StampTypes'
<1> SUFFICES ASSUME TypesInv, [Next]_vars PROVE StampTypes'
  OBVIOUS
<1>0. StampTypes
  BY DEF TypesInv
<1>b. BlockTypes
  BY DEF TypesInv, BlocksInv
<1>1. CASE BarTask \/ CleanupTask
  <2>1. UNCHANGED <<mapped, brokerOld, crashes, mode>>
    BY <1>1 DEF BarTask, FsmTimeout, Signal, CanTradeHangs, FsmTimeoutEnds, Execute, NoLot, Placed,
       PlaceFails, Attempt, CleanupTask, Cleanup, CleanupStart, CleanupServed, CleanupGivesUp,
       CleanupReconciles, CancelOldEntry, OldEntryCancelled, StartSweep, CancelStale, StaleCancelled,
       CleanupEnds
  <2>2. signalOld' \subseteq signalOld
    BY <1>1 DEF BarTask, FsmTimeout, Signal, CanTradeHangs, FsmTimeoutEnds, Execute, NoLot, Placed,
       PlaceFails, Attempt, CleanupTask
  <2>3. trackedOld' \subseteq trackedOld
    <3>1. CASE Placed
      BY <3>1 DEF Placed, Track
    <3> QED  BY <1>1, <1>b, <3>1, OnlyShrinks DEF Shrinks
  <2> QED  BY <1>0, <2>1, <2>2, <2>3 DEF StampTypes
<1>2. ASSUME NEW type \in EventTypes, NEW o \in Orders, Deliver(type, o) PROVE StampTypes'
  <2>1. mapped' \subseteq mapped \cup {o} /\ UNCHANGED <<brokerOld, signalOld, crashes, mode>>
    BY <1>2 DEF Deliver, MappedAfter
  <2> QED  BY <1>0, <1>2, <1>b, <2>1, OnlyShrinks DEF StampTypes, Shrinks
<1>3. CASE Ages
  BY <1>0, <1>3 DEF Ages, AgeEntry, AgeOrder, StampTypes, blockVars
<1>4. CASE Restart
  BY <1>0, <1>4, BreakoutAssumption DEF Restart, StampTypes
<1>5. ASSUME NEW p \in Pairs, AgeSignal(p) PROVE StampTypes'
  BY <1>0, <1>5 DEF AgeSignal, StampTypes, orchestratorVars, blockVars
<1>6. CASE Outside \/ StrayError \/ UNCHANGED vars
  BY <1>0, <1>6 DEF Outside, StrayError, vars, StampTypes, orchestratorVars, blockVars
<1> QED  BY <1>1, <1>2, <1>3, <1>4, <1>5, <1>6 DEF Next

LEMMA CleanupTypes ==
    ASSUME TypesInv, Cleanup
    PROVE  CleanTypes'
<1>0. CleanTypes /\ tracked \in [Pairs -> OrderOrNone]
  BY DEF TypesInv, BlocksInv, BlockTypes
<1>1. CASE CleanupStart \/ CleanupGivesUp \/ CleanupEnds
  <2>1. clean' = Asleep \/ clean' = [Asleep EXCEPT !.pc = "fetch"]
    BY <1>1 DEF CleanupStart, CleanupGivesUp, CleanupEnds
  <2>2. Asleep \in Clean /\ Asleep.snap = NoSnap /\ Asleep.pc = "idle"
    BY DEF Asleep, Clean, OrderOrNone
  <2>3. CASE clean' = [Asleep EXCEPT !.pc = "fetch"]
    BY <2>2, <2>3 DEF CleanTypes, Clean
  <2> QED  BY <2>1, <2>2, <2>3 DEF CleanTypes
<1>2. CASE CleanupServed
  <2>1. CurrentSnapshot \in Snapshot /\ [pos |-> {}, ords |-> {}] \in Snapshot
    BY DEF CurrentSnapshot, Snapshot, Positions, WorkingOrders
  <2>2. Len(events) \in Nat
    BY DEF TypesInv, RestTypes
  <2>3. PICK snap \in Snapshot, n \in Nat : clean' = [clean EXCEPT !.snap = snap, !.barrier = n]
    <3>1. CASE clean' = [clean EXCEPT !.snap = CurrentSnapshot, !.barrier = Len(events)]
      BY <2>1, <2>2, <3>1
    <3>2. CASE clean' = [clean EXCEPT !.snap = [pos |-> {}, ords |-> {}]]
      <4>1. clean.barrier \in Nat /\ clean' = [clean EXCEPT !.snap = [pos |-> {}, ords |-> {}], !.barrier = clean.barrier]
        BY <1>0, <3>2 DEF CleanTypes, Clean
      <4> QED  BY <2>1, <4>1
    <3> QED  BY <1>2, <3>1, <3>2 DEF CleanupServed
  <2>4. clean.pc \in {"recover", "fetch"}
    BY <1>2 DEF CleanupServed
  <2> QED  BY <1>0, <2>3, <2>4, OrchestratorAssumption DEF CleanTypes, Clean
<1>3. CASE CleanupReconciles
  <2>1. PICK S \in SUBSET Pairs : clean' = [clean EXCEPT !.pc = "tracked", !.todo = S]
    BY <1>3 DEF CleanupReconciles, Entries
  <2>2. clean.snap # NoSnap
    BY <1>3 DEF CleanupReconciles, CleanAnswered
  <2> QED  BY <1>0, <2>1, <2>2 DEF CleanTypes, Clean
<1>4. ASSUME NEW p \in Pairs, CancelOldEntry(p) PROVE CleanTypes'
  <2>1. clean.pc = "tracked" /\ tracked[p] \in OrderOrNone
    BY <1>0, <1>4 DEF CancelOldEntry
  <2>2. CASE clean' = [clean EXCEPT !.pc = "tracked_wait", !.todo = @ \ {p}, !.pair = p, !.wait = tracked[p]]
    BY <1>0, <2>1, <2>2 DEF CleanTypes, Clean
  <2>3. CASE clean' = [clean EXCEPT !.todo = @ \ {p}]
    BY <1>0, <2>1, <2>3 DEF CleanTypes, Clean
  <2> QED  BY <1>4, <2>2, <2>3 DEF CancelOldEntry
<1>5. CASE OldEntryCancelled
  BY <1>0, <1>5 DEF OldEntryCancelled, CleanTypes, Clean, OrderOrNone
<1>6. CASE StartSweep
  <2>1. clean.snap # NoSnap
    BY <1>0, <1>6 DEF StartSweep, CleanAnswered, CleanTypes
  <2>2. Untracked(clean.snap) \subseteq Orders
    BY <1>0, <2>1 DEF CleanTypes, Clean, Snapshot, Untracked
  <2>3. clean' = [clean EXCEPT !.pc = "stale", !.left = Untracked(clean.snap)]
    BY <1>6 DEF StartSweep
  <2> QED  BY <1>0, <2>1, <2>2, <2>3 DEF CleanTypes, Clean
<1>7. ASSUME NEW o \in Orders, CancelStale(o) PROVE CleanTypes'
  BY <1>0, <1>7 DEF CancelStale, CleanTypes, Clean, OrderOrNone
<1>8. CASE StaleCancelled
  BY <1>0, <1>8 DEF StaleCancelled, CleanTypes, Clean, OrderOrNone
<1> QED  BY <1>1, <1>2, <1>3, <1>4, <1>5, <1>6, <1>7, <1>8 DEF Cleanup

LEMMA CleanStep == TypesInv /\ [Next]_vars => CleanTypes'
<1> SUFFICES ASSUME TypesInv, [Next]_vars PROVE CleanTypes'
  OBVIOUS
<1>0. CleanTypes
  BY DEF TypesInv
<1>1. CASE UNCHANGED clean
  BY <1>0, <1>1 DEF CleanTypes
<1>2. CASE CleanupTask
  BY <1>2, CleanupTypes DEF CleanupTask
<1>3. CASE Placed
  <2>1. bar.cur \in Orders
    BY <1>3 DEF TypesInv, BlocksInv, HandOK, Placed
  <2>2. PairOf[bar.cur] \in Pairs
    BY <2>1, TermsAssumption
  <2>3. PICK S \in SUBSET Pairs : clean' = [clean EXCEPT !.young = S]
    <3>1. clean.young \subseteq Pairs
      BY <1>0 DEF CleanTypes, Clean
    <3> QED  BY <1>3, <2>2, <3>1 DEF Placed, Track
  <2> QED  BY <1>0, <2>3 DEF CleanTypes, Clean
<1>4. ASSUME NEW type \in EventTypes, NEW o \in Orders, Deliver(type, o) PROVE CleanTypes'
  <2>1. CleanHears(type, o)
    BY <1>4 DEF Deliver
  <2>2. PICK n \in Nat, ok \in BOOLEAN : clean' = [clean EXCEPT !.barrier = n, !.ok = ok]
    <3>1. clean.barrier \in Nat /\ clean.ok \in BOOLEAN
      BY <1>0 DEF CleanTypes, Clean
    <3>2. (IF clean.barrier = 0 THEN 0 ELSE clean.barrier - 1) \in Nat
      BY <3>1
    <3> QED  BY <2>1, <3>1, <3>2 DEF CleanHears
  <2> QED  BY <1>0, <2>2 DEF CleanTypes, Clean
<1>5. CASE Restart
  BY <1>5 DEF Restart, CleanTypes, Recovering, Asleep, Clean, OrderOrNone
<1>6. CASE BarTask /\ ~Placed
  <2>1. UNCHANGED clean
    BY <1>6 DEF BarTask, FsmTimeout, Signal, CanTradeHangs, FsmTimeoutEnds, Execute, NoLot, PlaceFails, Attempt
  <2> QED  BY <1>1, <2>1
<1>7. CASE Outside \/ Ages \/ StrayError \/ UNCHANGED vars \/ \E p \in Pairs : AgeSignal(p)
  <2>1. UNCHANGED clean
    BY <1>7 DEF Outside, Ages, AgeEntry, AgeOrder, StrayError, AgeSignal, vars, orchestratorVars
  <2> QED  BY <1>1, <2>1
<1> QED  BY <1>2, <1>3, <1>4, <1>5, <1>6, <1>7 DEF Next

LEMMA BarTypesStep == TypesInv /\ [Next]_vars => BarTypes'
<1> SUFFICES ASSUME TypesInv, [Next]_vars PROVE BarTypes'
  OBVIOUS
<1>0. BarTypes /\ tracked \in [Pairs -> OrderOrNone]
  BY DEF TypesInv, BlocksInv, BlockTypes
<1>1. CASE UNCHANGED bar
  BY <1>0, <1>1 DEF BarTypes
<1>i. Idle \in Bar /\ Idle.tries = 0 /\ Idle.pc = "idle"
  BY BreakoutAssumption DEF Idle, Bar, OrderOrNone
<1>2. CASE bar' = Idle
  BY <1>i, <1>2 DEF BarTypes
<1>3. ASSUME NEW p \in Pairs, FsmTimeout(p) PROVE BarTypes'
  <2>1. CASE bar' = [Idle EXCEPT !.pc = "fsm_wait", !.pair = p, !.cur = tracked[p]]
    <3>1. tracked[p] \in OrderOrNone
      BY <1>0
    <3> QED  BY <1>i, <2>1, <3>1 DEF BarTypes, Bar
  <2> QED  BY <1>1, <1>3, <2>1 DEF FsmTimeout
<1>4. ASSUME NEW p \in Pairs, Signal(p) PROVE BarTypes'
  <2>1. PICK wide \in BOOLEAN : bar' = [Idle EXCEPT !.pc = "execute", !.pair = p, !.wide = wide]
    BY <1>4 DEF Signal
  <2> QED  BY <1>i, <2>1 DEF BarTypes, Bar
<1>5. ASSUME NEW p \in Pairs, NEW q \in Pairs, CanTradeHangs(p, q) PROVE BarTypes'
  <2>1. bar' = [Idle EXCEPT !.pc = "stuck", !.pair = p]
    BY <1>5 DEF CanTradeHangs
  <2> QED  BY <1>i, <2>1 DEF BarTypes, Bar
<1>6. CASE Execute
  <2>1. CASE bar' = [bar EXCEPT !.pc = "balance"] /\ bar.pc = "execute"
    BY <1>0, <2>1 DEF BarTypes, Bar
  <2> QED  BY <1>2, <1>6, <2>1 DEF Execute, Abandon
<1>7. CASE PlaceFails
  <2>1. CASE Retries /\ bar' = [bar EXCEPT !.pc = "pause", !.answer = "none"]
    BY <1>0, <2>1 DEF Retries, BarTypes, Bar
  <2> QED  BY <1>2, <1>7, <2>1 DEF PlaceFails, Abandon
<1>8. ASSUME NEW o \in Orders, Attempt(o) PROVE BarTypes'
  <2>1. /\ bar.pc \in {"balance", "pause"}
        /\ bar' = [bar EXCEPT !.pc = "place", !.cur = o, !.tries = bar.tries + 1, !.answer = "none"]
    BY <1>8 DEF Attempt
  <2>2. bar.tries + 1 \in 0 .. MaxRetries
    BY <1>0, <2>1, BreakoutAssumption DEF BarTypes, Bar
  <2> QED  BY <1>0, <2>1, <2>2 DEF BarTypes, Bar, OrderOrNone
<1>9. CASE FsmTimeoutEnds \/ NoLot \/ Placed \/ Restart
  BY <1>2, <1>9 DEF FsmTimeoutEnds, NoLot, Abandon, Placed, Restart
<1>10. ASSUME NEW a \in {"none", "ok", "fail"}, bar' = [bar EXCEPT !.answer = a] PROVE BarTypes'
  BY <1>0, <1>10 DEF BarTypes, Bar
<1>11. ASSUME NEW type \in EventTypes, NEW o \in Orders, Deliver(type, o) PROVE BarTypes'
  <2>1. PlaceHears(type, o)
    BY <1>11 DEF Deliver
  <2>2. bar.answer \in {"none", "ok", "fail"}
    BY <1>0 DEF BarTypes, Bar
  <2>3. \E a \in {"none", "ok", "fail"} : bar' = [bar EXCEPT !.answer = a]
    BY <2>1, <2>2 DEF PlaceHears
  <2> QED  BY <1>10, <2>3
<1>12. CASE StrayError
  BY <1>10, <1>12 DEF StrayError
<1>13. CASE Outside \/ CleanupTask \/ Ages \/ UNCHANGED vars \/ \E p \in Pairs : AgeSignal(p)
  <2>1. UNCHANGED bar
    BY <1>13 DEF Outside, CleanupTask, Ages, AgeEntry, AgeOrder, AgeSignal, vars
  <2> QED  BY <1>1, <2>1
<1> QED  BY <1>3, <1>4, <1>5, <1>6, <1>7, <1>8, <1>9, <1>11, <1>12, <1>13 DEF Next, BarTask

LEMMA TypesAlways == Spec => []TypesInv
<1>1. TypesInv /\ [Next]_vars => TypesInv'
  BY BlocksStep, RestStep, StampStep, CleanStep, BarTypesStep DEF TypesInv
<1> QED  BY <1>1, TypesInit, PTL DEF Spec

(* Every variable of the breakout session stays in its type: the attempts  *)
(* stay within MAX_RETRIES and nothing but orders of the broker is tracked, *)
(* mapped or asked to be cancelled.                                        *)
THEOREM BreakoutTypeCorrect == Spec => []TypeOK
<1>1. TypesInv => TypeOK
  <2> SUFFICES ASSUME TypesInv PROVE TypeOK
    OBVIOUS
  <2>1. \A i \in DOMAIN events : events[i] \in Event
    BY DEF TypesInv, RestTypes
  <2> QED  BY <2>1 DEF TypesInv, BlocksInv, BlockTypes, RestTypes, StampTypes, CleanTypes, BarTypes, TypeOK
<1> QED  BY <1>1, TypesAlways, PTL

-----------------------------------------------------------------------------
(* A position that lives for the client: it is open, or the event of its   *)
(* close is still to come.                                                 *)
Closed(o) == [type |-> "CLOSED", ord |-> o]
LivesAfter(o, i) ==
    \/ order[o] = "open"
    \/ \E j \in DOMAIN events : j > i /\ events[j] = Closed(o)
Lives(o) == LivesAfter(o, 0)
HeldPair(p) == \E o \in Orders : PairOf[o] = p /\ Lives(o)

(* A fill that is not read yet is of a position that lives after it.       *)
FillsOK ==
    \A i \in DOMAIN events : \A o \in Orders :
        events[i] = [type |-> "FILLED", ord |-> o] => LivesAfter(o, i)

(* What the cleanup may conclude from its answer, however old that is: the *)
(* pair of a position in it that is gone has no entry, or one made since   *)
(* the pass began, which cannot be old.                                    *)
Accounted(o) == Lives(o) \/ PairOf[o] \notin Entries \/ PairOf[o] \in clean.young
AnswerOK == clean.snap # NoSnap => \A o \in clean.snap.pos : Accounted(o)

YoungOK == clean.young \cap trackedOld = {}

TradeOK == ~locked => \A p \in Pairs : fsm[p] = "IN_TRADE" => HeldPair(p)

TradesInv == FillsOK /\ AnswerOK /\ YoungOK /\ TradeOK

LEMMA TradesInit == Init => TradesInv
BY DEF Init, BrokerInit, OrchestratorInit, TradesInv, FillsOK, AnswerOK, YoungOK, TradeOK,
       Recovering, Asleep

-----------------------------------------------------------------------------
(* Positions go on living: at the broker a position only ends with the     *)
(* event of its close.                                                     *)
LivesOn == \A o \in Orders : Lives(o) => Lives(o)'

LEMMA TurnLives ==
    ASSUME RestTypes, FillsOK, NEW o \in Orders, NEW from, NEW to, NEW type, Turn(o, from, to, type),
           type = "FILLED" => to = "open",
           from = "open" => type = "CLOSED"
    PROVE  LivesOn /\ FillsOK'
<1> DEFINE n == Len(events)
<1>1. /\ n \in Nat /\ DOMAIN events = 1 .. n
      /\ DOMAIN events' = 1 .. (n + 1)
      /\ \A i \in 1 .. n : events'[i] = events[i]
      /\ events'[n + 1] = [type |-> type, ord |-> o]
  BY DEF Turn, RestTypes
<1>2. /\ order[o] = from /\ order'[o] = to
      /\ \A c \in Orders \ {o} : order'[c] = order[c]
  BY DEF Turn, RestTypes
<1> HIDE DEF n
<1>3. ASSUME NEW c \in Orders, NEW i \in 0 .. n, LivesAfter(c, i)
      PROVE  LivesAfter(c, i)'
  <2>1. ASSUME NEW j \in 1 .. n, j > i, events[j] = Closed(c) PROVE LivesAfter(c, i)'
    BY <1>1, <2>1 DEF LivesAfter, Closed
  <2>2. CASE order[c] = "open" /\ c = o
    <3>1. n + 1 \in DOMAIN events' /\ n + 1 > i /\ events'[n + 1] = Closed(c)
      BY <1>1, <1>2, <2>2 DEF Closed
    <3> QED  BY <3>1 DEF LivesAfter, Closed
  <2>3. CASE order[c] = "open" /\ c # o
    BY <1>2, <2>3 DEF LivesAfter
  <2> QED  BY <1>1, <1>3, <2>1, <2>2, <2>3 DEF LivesAfter
<1>4. LivesOn
  BY <1>1, <1>3 DEF LivesOn, Lives
<1>5. ASSUME NEW i \in 1 .. (n + 1), NEW c \in Orders,
             events'[i] = [type |-> "FILLED", ord |-> c]
      PROVE  LivesAfter(c, i)'
  <2>1. CASE i \in 1 .. n
    <3>1. LivesAfter(c, i)
      BY <1>1, <1>5, <2>1 DEF FillsOK
    <3> QED  BY <1>1, <1>3, <2>1, <3>1
  <2>2. CASE i = n + 1
    <3>1. c = o /\ type = "FILLED"
      BY <1>1, <1>5, <2>2
    <3> QED  BY <1>2, <3>1 DEF LivesAfter
  <2> QED  BY <1>1, <2>1, <2>2
<1> QED  BY <1>1, <1>4, <1>5 DEF FillsOK

LEMMA BrokerLives ==
    ASSUME RestTypes, FillsOK, BrokerStep
    PROVE  LivesOn /\ FillsOK'
<1>1. PICK o \in Orders :
        \/ Accept(o) \/ Reject(o) \/ Fill(o) \/ Expire(o)
        \/ StopOut(o) \/ ServeCancel(o) \/ ServeClose(o)
  BY DEF BrokerStep
<1>2. \E from, to, type : /\ Turn(o, from, to, type)
                          /\ type = "FILLED" => to = "open"
                          /\ from = "open" => type = "CLOSED"
  BY <1>1 DEF Accept, Reject, Fill, Expire, StopOut, ServeCancel, ServeClose
<1> QED  BY <1>2, TurnLives

LEMMA QuietLives ==
    ASSUME FillsOK, UNCHANGED events,
           \A o \in Orders : order[o] = "open" => order'[o] = "open"
    PROVE  LivesOn /\ FillsOK'
BY DEF FillsOK, LivesOn, Lives, LivesAfter, Closed

LEMMA ProgramLives ==
    ASSUME TypesInv, FillsOK,
           \/ BarTask \/ CleanupTask \/ Ages \/ StrayError \/ UNCHANGED vars
           \/ \E p \in Pairs : AgeSignal(p)
    PROVE  LivesOn /\ FillsOK'
<1>1. ASSUME NEW o \in Orders, Attempt(o) PROVE LivesOn /\ FillsOK'
  <2>1. UNCHANGED events /\ order[o] = "free" /\ order' = [order EXCEPT ![o] = "sent"]
    BY <1>1 DEF Attempt
  <2>2. \A c \in Orders : order[c] = "open" => order'[c] = "open"
    BY <2>1 DEF TypesInv, RestTypes
  <2> QED  BY <2>1, <2>2, QuietLives
<1>2. ASSUME UNCHANGED order, UNCHANGED events PROVE LivesOn /\ FillsOK'
  BY <1>2, QuietLives
<1> QED  BY <1>1, <1>2, ProgramSends DEF brokerVars, RequestCancel

-----------------------------------------------------------------------------
LEMMA TradeKept ==
    ASSUME TradeOK, LivesOn, locked => locked',
           \A p \in Pairs : fsm'[p] = "IN_TRADE" => fsm[p] = "IN_TRADE" \/ HeldPair(p)
    PROVE  TradeOK'
<1>1. ASSUME NEW p \in Pairs, HeldPair(p) PROVE HeldPair(p)'
  BY <1>1 DEF HeldPair, LivesOn
<1> QED  BY <1>1 DEF TradeOK

LEMMA AnswerKept ==
    ASSUME AnswerOK, CleanTypes, LivesOn,
           clean'.snap = clean.snap, clean.young \subseteq clean'.young,
           Entries' \subseteq Entries \cup clean'.young
    PROVE  AnswerOK'
<1>1. ASSUME clean.snap # NoSnap, NEW o \in clean.snap.pos PROVE Accounted(o)'
  <2>1. o \in Orders /\ Accounted(o)
    BY <1>1 DEF CleanTypes, Clean, Snapshot, AnswerOK
  <2> QED  BY <2>1 DEF Accounted, LivesOn
<1> QED  BY <1>1 DEF AnswerOK

(* Nobody but the reader of the events and the comparison puts a pair in a *)
(* trade.                                                                  *)
LEMMA BarLeavesTrades ==
    ASSUME BlockTypes, BarTask
    PROVE  /\ locked => locked'
           /\ \A p \in Pairs : fsm'[p] = "IN_TRADE" => fsm[p] = "IN_TRADE"
<1> DEFINE Left == \A p \in Pairs : fsm'[p] = "IN_TRADE" => fsm[p] = "IN_TRADE"
<1>1. ASSUME NEW q, ReleaseBlocks(q) PROVE Left
  BY <1>1 DEF ReleaseBlocks, BlockTypes
<1>2. ASSUME NEW q \in Pairs, FsmTimeout(q) PROVE Left /\ UNCHANGED locked
  <2>1. CASE fsm' = [fsm EXCEPT ![q] = "SCAN"]
    BY <1>2, <2>1 DEF BlockTypes, FsmTimeout
  <2> QED  BY <1>1, <1>2, <2>1 DEF FsmTimeout
<1>3. ASSUME NEW q \in Pairs, Signal(q) PROVE Left /\ UNCHANGED locked
  <2>1. fsm' = [fsm EXCEPT ![q] = "ENTRY"] /\ UNCHANGED locked
    BY <1>3 DEF Signal
  <2> QED  BY <2>1 DEF BlockTypes
<1>4. ASSUME NEW p \in Pairs, NEW q \in Pairs, CanTradeHangs(p, q) PROVE Left /\ locked'
  BY <1>4 DEF CanTradeHangs
<1>5. CASE FsmTimeoutEnds \/ NoLot
  BY <1>1, <1>5 DEF FsmTimeoutEnds, NoLot, Abandon
<1>6. CASE Execute \/ PlaceFails
  BY <1>1, <1>6 DEF Execute, PlaceFails, Abandon, blockVars
<1>7. CASE Placed \/ \E o \in Orders : Attempt(o)
  <2>1. UNCHANGED <<fsm, locked>>
    BY <1>7 DEF Placed, Attempt, blockVars
  <2> QED  BY <2>1
<1> QED  BY <1>2, <1>3, <1>4, <1>5, <1>6, <1>7 DEF BarTask

LEMMA BarTrades ==
    ASSUME TypesInv, TradesInv, BarTask
    PROVE  TradesInv'
<1>1. LivesOn /\ FillsOK'
  BY ProgramLives DEF TradesInv
<1>2. TradeOK'
  BY <1>1, TradeKept, BarLeavesTrades DEF TradesInv, TypesInv, BlocksInv
<1>3. CASE Placed
  <2> DEFINE q == PairOf[bar.cur]
  <2>1. /\ tracked' = [tracked EXCEPT ![q] = bar.cur]
        /\ trackedOld' = trackedOld \ {q}
        /\ clean' = [clean EXCEPT !.young = IF clean.pc = "idle" THEN @ ELSE @ \cup {q}]
    BY <1>3 DEF Placed, Track
  <2>2. Entries' \subseteq Entries \cup {q}
    BY <2>1 DEF Entries, TypesInv, BlocksInv, BlockTypes
  <2>3. /\ clean'.snap = clean.snap
        /\ clean'.young = IF clean.pc = "idle" THEN clean.young ELSE clean.young \cup {q}
    BY <2>1 DEF TypesInv, CleanTypes, Clean
  <2> HIDE DEF q
  <2>4. YoungOK'
    BY <2>1, <2>3 DEF YoungOK, TradesInv
  <2>5. CASE clean.pc = "idle"
    BY <1>1, <1>2, <2>3, <2>4, <2>5 DEF TypesInv, CleanTypes, TradesInv, AnswerOK
  <2>6. CASE clean.pc # "idle"
    BY <1>1, <1>2, <2>2, <2>3, <2>4, <2>6, AnswerKept DEF TradesInv, TypesInv
  <2> QED  BY <2>5, <2>6
<1>4. CASE ~Placed
  <2>1. UNCHANGED clean
    BY <1>4 DEF BarTask, FsmTimeout, Signal, CanTradeHangs, FsmTimeoutEnds, Execute, NoLot, PlaceFails, Attempt
  <2>2. Shrinks
    BY <1>4, OnlyShrinks DEF TypesInv, BlocksInv
  <2>3. YoungOK' /\ AnswerOK'
    BY <1>1, <2>1, <2>2, AnswerKept DEF TradesInv, TypesInv, YoungOK, Shrinks
  <2> QED  BY <1>1, <1>2, <2>3 DEF TradesInv
<1> QED  BY <1>3, <1>4

(* An old entry that the answer does not have, of a pair with a position   *)
(* in it: the position lives.                                              *)
LEMMA ComparedTrades ==
    ASSUME TypesInv, TradesInv, ReconcileMissing, clean.snap # NoSnap, NEW p \in Pairs,
           fsm'[p] = "IN_TRADE"
    PROVE  fsm[p] = "IN_TRADE" \/ HeldPair(p)
<1>1. CASE p \in Missing /\ p \in {PairOf[o] : o \in clean.snap.pos}
  <2>1. PICK o \in clean.snap.pos : PairOf[o] = p
    BY <1>1
  <2>2. o \in Orders
    BY <2>1 DEF TypesInv, CleanTypes, Clean, Snapshot
  <2>3. p \in Entries /\ p \notin clean.young
    BY <1>1 DEF Missing, TradesInv, YoungOK
  <2>4. Lives(o)
    BY <2>1, <2>3 DEF TradesInv, AnswerOK, Accounted
  <2> QED  BY <2>1, <2>2, <2>4 DEF HeldPair
<1>2. CASE p \notin Missing
  BY <1>2 DEF ReconcileMissing
<1>3. CASE p \in Missing /\ p \notin {PairOf[o] : o \in clean.snap.pos}
  BY <1>3 DEF ReconcileMissing
<1> QED  BY <1>1, <1>2, <1>3

LEMMA CleanupTrades ==
    ASSUME TypesInv, TradesInv, CleanupTask
    PROVE  TradesInv'
<1>1. LivesOn /\ FillsOK'
  BY ProgramLives DEF TradesInv
<1>2. BlockTypes /\ CleanTypes /\ Shrinks
  BY OnlyShrinks DEF TypesInv, BlocksInv
<1>3. TradeOK'
  <2>1. \/ UNCHANGED blockVars \/ (\E q : ReleaseBlocks(q))
        \/ ReconcileMissing /\ clean.snap # NoSnap
    BY <1>2 DEF CleanTypes, CleanupTask, Cleanup, CleanupStart, CleanupServed, CleanupGivesUp,
       CleanupReconciles, CleanAnswered, CancelOldEntry, OldEntryCancelled, StartSweep, CancelStale,
       StaleCancelled, CleanupEnds
  <2>2. \A p \in Pairs : fsm'[p] = "IN_TRADE" => fsm[p] = "IN_TRADE" \/ HeldPair(p)
    <3>1. ASSUME NEW q, ReleaseBlocks(q), NEW p \in Pairs, fsm'[p] = "IN_TRADE"
          PROVE  fsm[p] = "IN_TRADE"
      BY <1>2, <3>1 DEF ReleaseBlocks, BlockTypes
    <3> QED  BY <2>1, <3>1, ComparedTrades DEF blockVars
  <2>3. UNCHANGED locked
    BY DEF CleanupTask
  <2> QED  BY <1>1, <2>2, <2>3, TradeKept DEF TradesInv
<1>4. ASSUME clean' = Asleep \/ clean' = [Asleep EXCEPT !.pc = "fetch"]
      PROVE  AnswerOK' /\ YoungOK'
  BY <1>4 DEF Asleep, AnswerOK, YoungOK
<1>5. ASSUME clean'.snap = clean.snap, clean'.young = clean.young
      PROVE  AnswerOK' /\ YoungOK'
  BY <1>1, <1>2, <1>5, AnswerKept DEF TradesInv, YoungOK, Shrinks
<1>6. CASE CleanupServed
  <2>1. UNCHANGED order /\ UNCHANGED events
    BY <1>6 DEF CleanupServed, brokerVars
  <2>2. clean'.young = clean.young
    BY <1>2, <1>6 DEF CleanupServed, CleanTypes, Clean
  <2>3. clean'.snap.pos \subseteq Positions
    <3>1. CASE clean' = [clean EXCEPT !.snap = CurrentSnapshot, !.barrier = Len(events)]
      <4>1. clean'.snap = CurrentSnapshot
        BY <1>2, <3>1 DEF CleanTypes, Clean
      <4> QED  BY <4>1 DEF CurrentSnapshot
    <3>2. CASE clean' = [clean EXCEPT !.snap = [pos |-> {}, ords |-> {}]]
      <4>1. clean'.snap = [pos |-> {}, ords |-> {}]
        BY <1>2, <3>2 DEF CleanTypes, Clean
      <4> QED  BY <4>1
    <3> QED  BY <1>6, <3>1, <3>2 DEF CleanupServed
  <2>4. \A o \in clean'.snap.pos : Lives(o)'
    BY <2>1, <2>3 DEF Positions, Lives, LivesAfter
  <2> QED  BY <1>1, <1>2, <1>3, <2>2, <2>4 DEF TradesInv, AnswerOK, Accounted, YoungOK, Shrinks
<1>7. CASE CleanupStart \/ CleanupGivesUp \/ CleanupEnds
  BY <1>1, <1>3, <1>4, <1>7 DEF CleanupStart, CleanupGivesUp, CleanupEnds, TradesInv
<1>8. CASE CleanupReconciles \/ OldEntryCancelled \/ StartSweep \/ StaleCancelled
  <2>1. clean'.snap = clean.snap /\ clean'.young = clean.young
    BY <1>2, <1>8 DEF CleanupReconciles, OldEntryCancelled, StartSweep, StaleCancelled, CleanTypes, Clean
  <2> QED  BY <1>1, <1>3, <1>5, <2>1 DEF TradesInv
<1>9. ASSUME NEW p \in Pairs, CancelOldEntry(p) PROVE TradesInv'
  <2>1. clean'.snap = clean.snap /\ clean'.young = clean.young
    BY <1>2, <1>9 DEF CancelOldEntry, CleanTypes, Clean
  <2> QED  BY <1>1, <1>3, <1>5, <2>1 DEF TradesInv
<1>10. ASSUME NEW o \in Orders, CancelStale(o) PROVE TradesInv'
  <2>1. clean'.snap = clean.snap /\ clean'.young = clean.young
    BY <1>2, <1>10 DEF CancelStale, CleanTypes, Clean
  <2> QED  BY <1>1, <1>3, <1>5, <2>1 DEF TradesInv
<1> QED  BY <1>6, <1>7, <1>8, <1>9, <1>10 DEF CleanupTask, Cleanup

(* The reader takes the oldest event: what lived after it lives on, and    *)
(* every position but the one whose close it reads.                        *)
LEMMA ReadLives ==
    ASSUME RestTypes, FillsOK, NEW type \in EventTypes, NEW o \in Orders, Deliver(type, o)
    PROVE  /\ FillsOK'
           /\ \A c \in Orders : Lives(c) /\ (type = "CLOSED" => c # o) => Lives(c)'
           /\ type = "FILLED" => Lives(o)'
<1> DEFINE n == Len(events)
<1>1. /\ events # <<>> /\ Head(events) = [type |-> type, ord |-> o]
      /\ events' = Tail(events) /\ UNCHANGED order
  BY DEF Deliver
<1>2. /\ n \in Nat \ {0} /\ DOMAIN events = 1 .. n
      /\ DOMAIN events' = 1 .. (n - 1)
      /\ \A i \in 1 .. (n - 1) : events'[i] = events[i + 1]
      /\ events[1] = [type |-> type, ord |-> o]
  BY <1>1 DEF RestTypes
<1> HIDE DEF n
<1>3. ASSUME NEW c \in Orders, NEW i \in 0 .. (n - 1), LivesAfter(c, i + 1)
      PROVE  LivesAfter(c, i)'
  <2>1. CASE order[c] = "open"
    BY <1>1, <2>1 DEF LivesAfter
  <2>2. ASSUME NEW j \in 1 .. n, j > i + 1, events[j] = Closed(c)
        PROVE  LivesAfter(c, i)'
    <3>1. j - 1 \in DOMAIN events' /\ j - 1 > i /\ events'[j - 1] = Closed(c)
      BY <1>2, <2>2
    <3> QED  BY <3>1 DEF LivesAfter, Closed
  <2> QED  BY <1>2, <1>3, <2>1, <2>2 DEF LivesAfter
<1>4. ASSUME NEW i \in 1 .. (n - 1), NEW c \in Orders,
             events'[i] = [type |-> "FILLED", ord |-> c]
      PROVE  LivesAfter(c, i)'
  <2>1. LivesAfter(c, i + 1)
    BY <1>2, <1>4 DEF FillsOK
  <2> QED  BY <1>3, <2>1
<1>5. ASSUME NEW c \in Orders, Lives(c), type = "CLOSED" => c # o PROVE Lives(c)'
  <2>1. events[1] # Closed(c)
    BY <1>2, <1>5 DEF Closed
  <2>2. LivesAfter(c, 0 + 1)
    BY <1>2, <1>5, <2>1 DEF Lives, LivesAfter
  <2> QED  BY <1>2, <1>3, <2>2 DEF Lives
<1>6. ASSUME type = "FILLED" PROVE Lives(o)'
  <2>1. LivesAfter(o, 0 + 1)
    BY <1>2, <1>6 DEF FillsOK
  <2> QED  BY <1>2, <1>3, <2>1 DEF Lives
<1> QED  BY <1>2, <1>4, <1>5, <1>6 DEF FillsOK

LEMMA ReadTrades ==
    ASSUME TypesInv, TradesInv, NEW type \in EventTypes, NEW o \in Orders, Deliver(type, o)
    PROVE  TradesInv'
<1>1. /\ FillsOK'
      /\ \A c \in Orders : Lives(c) /\ (type = "CLOSED" => c # o) => Lives(c)'
      /\ type = "FILLED" => Lives(o)'
  BY ReadLives DEF TypesInv, TradesInv
<1>2. Callback(type, o) /\ UNCHANGED locked /\ BlockTypes /\ CleanTypes
  BY DEF Deliver, TypesInv, BlocksInv
<1>3. clean'.snap = clean.snap /\ clean'.young = clean.young
  BY <1>2 DEF Deliver, CleanHears, CleanTypes, Clean
<1>4. Shrinks
  BY <1>2, OnlyShrinks
<1>5. YoungOK'
  BY <1>3, <1>4 DEF TradesInv, YoungOK, Shrinks
<1>6. AnswerOK'
  <2>1. ASSUME clean.snap # NoSnap, NEW c \in clean.snap.pos PROVE Accounted(c)'
    <3>1. c \in Orders /\ Accounted(c)
      BY <1>2, <2>1 DEF CleanTypes, Clean, Snapshot, TradesInv, AnswerOK
    <3>2. CASE type = "CLOSED" /\ c = o
      <4>1. tracked'[PairOf[o]] = NoOrder
        BY <1>2, <3>2, TermsAssumption DEF Callback, ReleaseCallback, ReleaseBlocks, Forget, PopOnly, BlockTypes
      <4> QED  BY <3>2, <4>1 DEF Accounted, Entries
    <3> QED  BY <1>1, <1>3, <1>4, <3>1, <3>2 DEF Accounted, Shrinks
  <2> QED  BY <1>3, <2>1 DEF AnswerOK
<1>7. TradeOK'
  <2>1. ASSUME ~locked, NEW p \in Pairs, fsm'[p] = "IN_TRADE" PROVE HeldPair(p)'
    <3>1. CASE type = "FILLED" /\ p = PairOf[o]
      BY <1>1, <3>1 DEF HeldPair
    <3>2. ASSUME fsm[p] = "IN_TRADE", type = "CLOSED" => p # PairOf[o] PROVE HeldPair(p)'
      <4>1. PICK c \in Orders : PairOf[c] = p /\ Lives(c)
        BY <2>1, <3>2 DEF TradesInv, TradeOK, HeldPair
      <4> QED  BY <1>1, <3>2, <4>1 DEF HeldPair
    <3>3. CASE type = "FILLED" /\ p # PairOf[o]
      <4>1. fsm[p] = "IN_TRADE"
        BY <1>2, <2>1, <3>3 DEF Callback, FillCallback, BlockTypes
      <4> QED  BY <3>2, <3>3, <4>1
    <3>4. CASE type \in {"CANCELLED", "EXPIRED", "REJECTED", "CLOSED"}
      <4>1. fsm[p] = "IN_TRADE" /\ p # PairOf[o]
        BY <1>2, <2>1, <3>4 DEF Callback, ReleaseCallback, ReleaseBlocks, BlockTypes
      <4> QED  BY <3>2, <4>1
    <3>5. CASE type \in {"ACCEPTED", "ERROR"}
      BY <1>2, <2>1, <3>2, <3>5 DEF Callback, blockVars
    <3> QED  BY <3>1, <3>3, <3>4, <3>5 DEF EventTypes
  <2> QED  BY <1>2, <2>1 DEF TradeOK
<1> QED  BY <1>1, <1>5, <1>6, <1>7 DEF TradesInv

(* Steps that touch neither an entry nor the strategy's state.             *)
LEMMA StillTrades ==
    ASSUME TypesInv, TradesInv, LivesOn, FillsOK', UNCHANGED <<tracked, fsm, locked, clean>>,
           clean.young \cap trackedOld' = {}
    PROVE  TradesInv'
<1>1. AnswerOK'
  BY AnswerKept DEF TradesInv, TypesInv, Entries
<1>2. TradeOK'
  BY TradeKept DEF TradesInv
<1> QED  BY <1>1, <1>2 DEF TradesInv, YoungOK

LEMMA TradesStep == TypesInv /\ TradesInv /\ [Next]_vars => TradesInv'
<1> SUFFICES ASSUME TypesInv, TradesInv, [Next]_vars PROVE TradesInv'
  OBVIOUS
<1>1. CASE Outside
  <2>1. LivesOn /\ FillsOK'
    BY <1>1, BrokerLives DEF Outside, TypesInv, TradesInv
  <2> QED  BY <1>1, <2>1, StillTrades DEF Outside, orchestratorVars, blockVars, TradesInv, YoungOK
<1>2. CASE StrayError \/ UNCHANGED vars \/ \E p \in Pairs : AgeSignal(p)
  <2>1. LivesOn /\ FillsOK'
    BY <1>2, ProgramLives DEF TradesInv
  <2>2. UNCHANGED <<tracked, fsm, locked, clean, trackedOld>>
    BY <1>2 DEF StrayError, AgeSignal, vars, orchestratorVars, blockVars
  <2> QED  BY <2>1, <2>2, StillTrades DEF TradesInv, YoungOK
<1>3. CASE Ages
  <2>1. LivesOn /\ FillsOK'
    BY <1>3, ProgramLives DEF TradesInv
  <2>2. UNCHANGED <<tracked, fsm, locked, clean>> /\ clean.young \cap trackedOld' = {}
    BY <1>3 DEF Ages, AgeEntry, AgeOrder, blockVars, TradesInv, YoungOK
  <2> QED  BY <2>1, <2>2, StillTrades
<1>4. CASE Restart
  <2>1. /\ events' = <<>> /\ trackedOld' = {} /\ clean' = Recovering
        /\ fsm' = [p \in Pairs |-> "SCAN"]
    BY <1>4 DEF Restart
  <2> QED  BY <2>1 DEF TradesInv, FillsOK, AnswerOK, YoungOK, TradeOK, Recovering, Asleep
<1> QED  BY <1>1, <1>2, <1>3, <1>4, BarTrades, CleanupTrades, ReadTrades DEF Next

(* Nothing but the event of a close takes a pair out of a trade, so a pair *)
(* in a trade has a position, or that event is on its way: also when a     *)
(* cleanup concluded the fill from an answer older than the close.         *)
THEOREM TradesEnd == Spec => []InTradeEnds
<1>1. TypesInv /\ TradesInv /\ [Next]_vars => TypesInv' /\ TradesInv'
  BY TradesStep, BlocksStep, RestStep, StampStep, CleanStep, BarTypesStep DEF TypesInv
<1>2. TradesInv => InTradeEnds
  <2> SUFFICES ASSUME TradesInv, ~locked, NEW p \in Pairs, fsm[p] = "IN_TRADE"
               PROVE  \E o \in Orders : /\ PairOf[o] = p
                                        /\ \/ order[o] = "open"
                                           \/ [type |-> "CLOSED", ord |-> o] \in Range(events)
    BY DEF InTradeEnds
  <2>1. PICK o \in Orders : PairOf[o] = p /\ Lives(o)
    BY DEF TradesInv, TradeOK, HeldPair
  <2>2. order[o] = "open" \/ \E j \in DOMAIN events : events[j] = [type |-> "CLOSED", ord |-> o]
    BY <2>1 DEF Lives, LivesAfter, Closed
  <2> QED  BY <2>1, <2>2 DEF Range
<1> QED  BY <1>1, <1>2, TypesInit, TradesInit, PTL DEF Spec
=============================================================================
