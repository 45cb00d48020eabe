------------------------- MODULE DualGridHandler_proofs -------------------------
(***************************************************************************)
(* The bar handler between its awaits, and what its steps do to the book.  *)
(*                                                                         *)
(* What the sweeps over all pairs leave behind: before positions are       *)
(* listed for closing, _resolve_pending_before_close has walked over both  *)
(* grids of every pair; until it is through, metadata is left only where   *)
(* the walk is still to come.  What the locals of the handler hold at its  *)
(* awaits.  And, where all orders of a pair go one way, each step as one   *)
(* of a few moves of the book, seen as a relation between order ids and    *)
(* position ids: from these follows that a pending level has metadata.     *)
(*                                                                         *)
(* Last, all of this beside the cleanup task: a session of DualGridLive is *)
(* a run of the engine with steps between its own that change neither the  *)
(* book nor where the handler stands.                                      *)
(***************************************************************************)
EXTENDS DualGridBook_proofs, DualGridLive

Clear == \A c \in Orders : ~HasMeta(c)

(* The pair of an order is at hand, or still to come. *)
Behind(c) == PairOf[c] \in job.left \cup {job.here}

(* In the pair at hand, the level of the order is still to come, or its    *)
(* cancellation is awaited.                                                *)
InLoop(c) ==
    \/ DirOf[c] = "SHORT" /\ job.side = "LONG"
    \/ DirOf[c] = job.side /\ (c \in job.todo \/ (job.pc = "res_wait" /\ c = job.cur))

Resolving == {"res", "res_loop", "res_wait"}
Cancelling == {"ca", "ca_loop", "ca_tracked", "ca_direct", "ca_own"}
Closing == {"cl_list", "cl_loop", "cl_check"}

(* On the way from the resolution to the closing nothing is pending. *)
Resolved == job.pc \in Closing \/ (job.pc \in Cancelling /\ job.verdict = "TPSL")

SweepInv ==
    /\ job.pc \in Resolving => \A c \in Orders : HasMeta(c) => Behind(c)
    /\ job.pc \in {"res_loop", "res_wait"} =>
         \A c \in Orders : (HasMeta(c) /\ PairOf[c] = job.here) => InLoop(c)
    /\ Resolved => Clear

-----------------------------------------------------------------------------
LEMMA SweepReach ==
    ASSUME NEW j \in Job, NEW pc, NEW pairs, NEW after,
           NEW next \in Sweep(j, pc, pairs, after)
    PROVE  \/ pairs = {} /\ next \in after
           \/ /\ next.pc = pc /\ next.verdict = j.verdict
              /\ pairs \subseteq next.left \cup {next.here}
<1>1. CASE pairs = {}
  BY <1>1 DEF Sweep
<1>2. CASE pairs # {}
  <2>1. PICK q \in pairs :
          next = [j EXCEPT !.pc = pc, !.here = q, !.left = pairs \ {q},
                           !.snap = NoSnap, !.todo = {}, !.cur = NoOrder,
                           !.wait = NoOrder, !.answer = "none"]
    BY <1>2, Zenon DEF Sweep
  <2> QED  BY <2>1 DEF Job
<1> QED  BY <1>1, <1>2

(* Both sweeps start from all pairs. *)
LEMMA SweepStart ==
    ASSUME NEW j \in Job, NEW next, next \in StartCancelAll(j) \/ next \in StartResolve(j)
    PROVE  /\ next.verdict = j.verdict
           /\ \/ next.pc = "ca" /\ next \in StartCancelAll(j)
              \/ next.pc = "res" /\ Pairs \subseteq next.left \cup {next.here}
BY SweepReach DEF StartCancelAll, StartResolve

LEMMA SweepAway ==
    ASSUME job'.pc \notin Resolving \cup Closing,
           job'.pc \in Cancelling => job'.verdict # "TPSL"
    PROVE  SweepInv'
BY DEF SweepInv, Resolved, Resolving, Closing, Cancelling

(* The walk stands where it stood. *)
LEMMA SweepStays ==
    ASSUME SweepInv, \A c \in Orders : HasMeta(c)' => HasMeta(c),
           UNCHANGED <<job.pc, job.verdict, job.here, job.left, job.side, job.todo, job.cur>>
    PROVE  SweepInv'
BY DEF SweepInv, Resolved, Clear, Behind, InLoop

(* The walk goes on with nothing left where it was. *)
LEMMA SweepClear ==
    ASSUME SweepInv, \A c \in Orders : HasMeta(c)' => HasMeta(c),
           Clear, job'.pc \notin Resolving
    PROVE  SweepInv'
BY DEF SweepInv, Clear, Resolving

LEMMA StartedResolve ==
    ASSUME \A c \in Orders : PairOf[c] \in Pairs,
           job'.pc = "res", Pairs \subseteq job'.left \cup {job'.here}
    PROVE  SweepInv'
BY DEF SweepInv, Resolved, Behind, Resolving, Closing, Cancelling

LEMMA RemovedMeta ==
    ASSUME NEW o, RemovePendingLevel(o)
    PROVE  \A c \in Orders : HasMeta(c)' => HasMeta(c) /\ c # o
BY DEF RemovePendingLevel, HasMeta, WithoutMeta, NoMeta

-----------------------------------------------------------------------------
LEMMA RefreshSweep ==
    ASSUME BookInv, Refresh
    PROVE  SweepInv'
<1> USE DEF BookInv, TypeInv, TypeOK, ControlType, Job, Idle
<1>1. CASE NextCycle \/ \E p \in Pairs : StartBar(p)
  <2>1. NextCycle => job'.pc = "idle"
    BY DEF NextCycle
  <2>2. ASSUME NEW p \in Pairs, StartBar(p) PROVE job'.pc \in {"idle", "rec"}
    BY <2>2 DEF StartBar
  <2> QED  BY <1>1, <2>1, <2>2, SweepAway DEF Resolving, Closing, Cancelling
<1>2. CASE Reconcile \/ DropStale \/ Dropped \/ Linked
  <2>1. Reconcile \/ DropStale => job'.pc = "drop"
    BY DEF Reconcile, DropStale
  <2>2. Dropped => job'.pc = "link"
    BY DEF Dropped
  <2>3. Linked => job'.pc = "ttl"
    BY DEF Linked
  <2> QED  BY <1>2, <2>1, <2>2, <2>3, SweepAway DEF Resolving, Closing, Cancelling
<1>3. CASE TtlCancelled \/ TtlDone \/ \E o \in Orders : TtlCancel(o)
  <2>1. TtlCancelled => job'.pc = "ttl"
    BY DEF TtlCancelled
  <2>2. TtlDone => job'.pc \in {"assess", "idle"}
    BY DEF TtlDone
  <2>3. ASSUME NEW o \in Orders, TtlCancel(o) PROVE job'.pc \in {"ttl", "ttl_wait"}
    BY <2>3 DEF TtlCancel
  <2> QED  BY <1>3, <2>1, <2>2, <2>3, SweepAway DEF Resolving, Closing, Cancelling
<1>4. ASSUME NEW v \in Verdicts, Assess(v) PROVE SweepInv'
  <2> DEFINE j == [job EXCEPT !.verdict = v, !.snap = NoSnap]
  <2>1. j \in Job /\ j.verdict = v /\ [j EXCEPT !.pc = "sig"].pc = "sig"
    BY EngineAssumption
  <2>2. \/ job' \in StartCancelAll(j) /\ v # "TPSL"
        \/ job' \in StartResolve(j)
        \/ job' = [j EXCEPT !.pc = "sig"]
    BY <1>4 DEF Assess, FreezeOrExit
  <2> HIDE DEF j, Job
  <2>3. \/ job'.pc = "ca" /\ job'.verdict = v /\ v # "TPSL"
        \/ job'.pc = "res" /\ Pairs \subseteq job'.left \cup {job'.here}
        \/ job'.pc = "sig"
    <3>1. CASE job' \in StartCancelAll(j) /\ v # "TPSL"
      BY <2>1, <3>1, SweepStart
    <3>2. CASE job' \in StartResolve(j)
      BY <2>1, <3>2, SweepReach DEF StartResolve
    <3> QED  BY <2>1, <2>2, <3>1, <3>2
  <2>4. \A c \in Orders : PairOf[c] \in Pairs
    BY TermsAssumption
  <2> QED  BY <2>3, <2>4, SweepAway, StartedResolve DEF Resolving, Closing, Cancelling
<1>5. CASE AssessFails
  BY <1>5, SweepAway DEF AssessFails, Resolving, Closing, Cancelling
<1> QED  BY <1>1, <1>2, <1>3, <1>4, <1>5 DEF Refresh

LEMMA CancelPendingSweep ==
    ASSUME BookInv, SweepInv, CancelPending
    PROVE  SweepInv'
<1> USE DEF BookInv, TypeInv, TypeOK, ControlType, Job, Idle, Answered
<1>1. \A c \in Orders : HasMeta(c)' => HasMeta(c)
  BY RemovedMeta DEF CancelPending, CancelAll, CancelledTracked, TrackedTimesOut,
     CancelDirect, CancelledOwn, CancelAllDone, CancelTracked, bookVars, HasMeta
<1>2. job.pc \in Cancelling
  BY DEF CancelPending, CancelAll, CancelledTracked, TrackedTimesOut, CancelDirect,
     CancelledOwn, CancelAllDone, CancelTracked, Cancelling
<1>3. CASE CancelAllDone
  <2> DEFINE j == [job EXCEPT !.here = NoPair, !.snap = NoSnap]
  <2>1. /\ j \in Job /\ j.verdict = job.verdict
        /\ [j EXCEPT !.pc = "sig"].pc = "sig" /\ [j EXCEPT !.pc = "cl_list"].pc = "cl_list"
    BY DEF PairOrNone
  <2> DEFINE after == CASE job.verdict = "TPSL" -> {[j EXCEPT !.pc = "cl_list"]}
                        [] job.verdict = "EXIT" -> StartResolve(j)
                        [] OTHER                -> {[j EXCEPT !.pc = "sig"]}
  <2>2. job' \in Sweep(j, "ca", job.left, after)
    BY <1>3 DEF CancelAllDone
  <2>3. \/ job'.pc = "ca" /\ job'.verdict = job.verdict
        \/ job' \in after
    <3> HIDE DEF j, after, Job
    <3> QED  BY <2>1, <2>2, SweepReach
  <2>4. \/ job'.pc = "ca" /\ job'.verdict = job.verdict
        \/ job'.pc = "cl_list" /\ job.verdict = "TPSL"
        \/ job' \in StartResolve(j)
        \/ job'.pc = "sig"
    <3> HIDE DEF j, Job
    <3> QED  BY <2>1, <2>3
  <2> HIDE DEF j, after, Job
  <2>5. \/ job'.pc = "ca" /\ job'.verdict = job.verdict
        \/ job'.pc = "cl_list" /\ job.verdict = "TPSL"
        \/ job'.pc = "res" /\ Pairs \subseteq job'.left \cup {job'.here}
        \/ job'.pc = "sig"
    BY <2>1, <2>4, SweepReach DEF StartResolve
  <2>6. \A c \in Orders : PairOf[c] \in Pairs
    BY TermsAssumption
  <2>7. job.verdict = "TPSL" => Clear
    BY <1>2 DEF SweepInv, Resolved
  <2> QED  BY <1>1, <2>5, <2>6, <2>7, SweepAway, SweepClear, StartedResolve
           DEF Resolving, Closing, Cancelling
<1>4. CASE ~CancelAllDone
  <2>1. job'.pc \in Cancelling /\ job'.verdict = job.verdict
    BY <1>2, <1>4 DEF CancelPending, CancelAll, CancelledTracked, TrackedTimesOut,
       CancelDirect, CancelledOwn, CancelTracked, Cancelling
  <2> QED  BY <1>1, <1>2, <2>1 DEF SweepInv, Resolved, Clear, Resolving, Closing, Cancelling
<1> QED  BY <1>3, <1>4

LEMMA ClosePositionsSweep ==
    ASSUME BookInv, SweepInv, ClosePositions
    PROVE  SweepInv'
<1> USE DEF BookInv, TypeInv, TypeOK, ControlType, Job, Idle, Answered
<1>1. CASE ResolveStart
  <2>1. /\ job.pc = "res" /\ UNCHANGED <<job.here, job.left>>
        /\ job'.pc = "res_loop" /\ job'.side = "LONG"
        /\ job'.todo = PendingCids(grids[job.here]["LONG"])
        /\ UNCHANGED <<grids, meta>>
    BY <1>1 DEF ResolveStart, bookVars
  <2>2. ASSUME NEW c \in Orders, HasMeta(c), PairOf[c] = job.here
        PROVE  InLoop(c)'
    <3>1. HasPending(grids[job.here][DirOf[c]], c) /\ DirOf[c] \in Dirs
      BY <2>2, TermsAssumption DEF BookOK, OwnGrid
    <3> QED  BY <2>1, <3>1 DEF InLoop, HasPending, PendingCids, Dirs
  <2> QED  BY <2>1, <2>2 DEF SweepInv, Resolved, Behind, HasMeta, Resolving, Closing,
              Cancelling
<1>2. CASE ResolveCancelled
  <2>1. /\ job.pc = "res_wait" /\ job'.pc = "res_loop"
        /\ UNCHANGED <<job.here, job.left, job.side, job.todo>>
        /\ \A c \in Orders : HasMeta(c)' => HasMeta(c) /\ c # job.cur
    BY <1>2, RemovedMeta DEF ResolveCancelled
  <2> QED  BY <2>1 DEF SweepInv, Resolved, Behind, InLoop, Resolving, Closing, Cancelling
<1>3. CASE ResolveDone
  <2>0. job.pc = "res_loop" /\ job.todo = {} /\ UNCHANGED <<grids, meta>>
    BY <1>3 DEF ResolveDone, bookVars
  <2>1. CASE job.side = "LONG"
    <3>1. /\ UNCHANGED <<job.pc, job.here, job.left>>
          /\ job'.side = "SHORT" /\ job'.todo = PendingCids(grids[job.here]["SHORT"])
      BY <1>3, <2>1 DEF ResolveDone
    <3>2. ASSUME NEW c \in Orders, HasMeta(c), PairOf[c] = job.here
          PROVE  InLoop(c)'
      <4>1. DirOf[c] = "SHORT"
        BY <2>0, <3>2 DEF SweepInv, InLoop
      <4>2. HasPending(grids[job.here]["SHORT"], c)
        BY <3>2, <4>1 DEF BookOK, OwnGrid
      <4> QED  BY <3>1, <4>1, <4>2 DEF InLoop, HasPending, PendingCids
    <3> QED  BY <2>0, <3>1, <3>2 DEF SweepInv, Resolved, Behind, HasMeta, Resolving, Closing,
             Cancelling
  <2>2. CASE job.side = "SHORT"
    <3> DEFINE j == [job EXCEPT !.here = NoPair, !.snap = NoSnap, !.side = "LONG"]
               after == IF job.verdict = "TPSL" THEN StartCancelAll(j)
                        ELSE {[j EXCEPT !.pc = "cl_list"]}
    <3>1. j \in Job /\ j.verdict = job.verdict /\ [j EXCEPT !.pc = "cl_list"].pc = "cl_list"
      BY DEF PairOrNone, Dirs
    <3>2. job' \in Sweep(j, "res", job.left, after)
      BY <1>3, <2>2 DEF ResolveDone
    <3>3. \A c \in Orders : HasMeta(c) => PairOf[c] \in job.left
      BY <2>0, <2>2 DEF SweepInv, InLoop, Behind, Resolving
    <3> HIDE DEF j, Job
    <3>4. \/ job'.pc = "res" /\ job.left \subseteq job'.left \cup {job'.here}
          \/ job.left = {} /\ job' \in after
      <4> HIDE DEF after
      <4> QED  BY <3>1, <3>2, SweepReach
    <3>5. job' \in after => job'.pc \in {"ca", "cl_list"}
      <4>1. job' \in StartCancelAll(j) => job'.pc = "ca"
        BY <3>1, SweepReach DEF StartCancelAll
      <4> QED  BY <3>1, <4>1
    <3> HIDE DEF after
    <3> QED  BY <2>0, <3>3, <3>4, <3>5 DEF SweepInv, Resolved, Clear, Behind, HasMeta,
             Resolving, Closing, Cancelling
  <2> QED  BY <1>3, <2>1, <2>2 DEF ResolveDone
<1>4. ASSUME NEW o \in Orders, ResolveLevel(o) PROVE SweepInv'
  <2>1. /\ job.pc = "res_loop" /\ UNCHANGED <<job.here, job.left, job.side>>
        /\ job'.todo = job.todo \ {o}
        /\ \/ job'.pc = "res_loop"
           \/ job'.pc = "res_wait" /\ job'.cur = o
    BY <1>4 DEF ResolveLevel
  <2>2. \A c \in Orders : HasMeta(c)' => HasMeta(c)
    BY <1>4, RemovedMeta DEF ResolveLevel, HasMeta, WithoutMeta, NoMeta
  <2>3. ASSUME HasMeta(o)', job'.pc # "res_wait", PairOf[o] = job.here, DirOf[o] = job.side
        PROVE  FALSE
    <3>1. PICK i \in DOMAIN grids[job.here][job.side] :
            /\ grids[job.here][job.side][i].cid = o
            /\ \/ ~IsPending(grids[job.here][job.side][i])
               \/ meta' = WithoutMeta(o)
               \/ job'.pc = "res_wait"
               \/ RemovePendingLevel(o)
      BY <1>4 DEF ResolveLevel
    <3>2. ~IsPending(grids[job.here][job.side][i])
      BY <2>3, <3>1, RemovedMeta DEF HasMeta, WithoutMeta, NoMeta
    <3>3. HasPending(grids[job.here][job.side], o) /\ UniqueCids(grids[job.here][job.side])
      BY <2>2, <2>3, TermsAssumption DEF BookOK, GridOK, OwnGrid
    <3>4. o # NoOrder
      BY NoOrderAssumption
    <3> QED  BY <3>1, <3>2, <3>3, <3>4 DEF HasPending, UniqueCids
  <2> QED  BY <2>1, <2>2, <2>3 DEF SweepInv, Resolved, Behind, InLoop, Resolving, Closing,
           Cancelling
<1>5. CASE \/ ListPositions \/ CloseVerified \/ CloseAgain \/ CloseFails \/ CloseDone
           \/ \E o \in Orders : ClosePosition(o)
  <2> DEFINE Closes == /\ job.pc \in Closing /\ job'.pc \in Closing \cup {"idle"}
                       /\ UNCHANGED meta
  <2>1. ListPositions => Closes
    BY DEF ListPositions, bookVars, Closing
  <2>2. CloseVerified => Closes
    BY DEF CloseVerified, Closing
  <2>3. CloseAgain => Closes
    BY DEF CloseAgain, bookVars, Closing
  <2>4. CloseFails => Closes
    BY DEF CloseFails, bookVars, Closing
  <2>5. CloseDone => Closes
    BY DEF CloseDone, bookVars, Closing
  <2>6. ASSUME NEW o \in Orders, ClosePosition(o) PROVE Closes
    BY <2>6 DEF ClosePosition, bookVars, Closing
  <2> QED  BY <1>5, <2>1, <2>2, <2>3, <2>4, <2>5, <2>6 DEF SweepInv, Resolved, Clear,
              HasMeta, Resolving, Closing, Cancelling
<1> QED  BY <1>1, <1>2, <1>3, <1>4, <1>5 DEF ClosePositions

LEMMA EngineSweep ==
    ASSUME BookInv, SweepInv, Engine
    PROVE  SweepInv'
<1> USE DEF BookInv, TypeInv, TypeOK, ControlType, Job, Idle, Answered
<1>1. CASE Link \/ Bootstrap
  <2>1. BootPositions => job'.pc = "boot_link"
    BY DEF BootPositions
  <2>2. BootLinked => job'.pc = "boot_pend"
    BY DEF BootLinked
  <2>3. BootOrders => job'.pc = "boot_ord"
    BY DEF BootOrders
  <2>4. BootDone => job'.pc = "idle"
    BY DEF BootDone
  <2>5. ASSUME NEW o \in Orders, LinkPosition(o) \/ RestorePending(o)
        PROVE  job'.pc \in {"link", "boot_link", "boot_ord"}
    BY <2>5 DEF LinkPosition, RestorePending
  <2> QED  BY <1>1, <2>1, <2>2, <2>3, <2>4, <2>5, SweepAway DEF Link, Bootstrap, Resolving,
              Closing, Cancelling
<1>2. CASE OpenLevel
  <2>1. NoSignal => job'.pc = "idle"
    BY DEF NoSignal
  <2>2. PlaceFails => job'.pc = "idle"
    BY DEF PlaceFails
  <2>3. SkipDuplicate => job'.pc = "idle"
    BY DEF SkipDuplicate
  <2>4. Placed => job'.pc = "idle"
    BY DEF Placed
  <2>5. Place => job'.pc = "place"
    BY DEF Place
  <2>6. ASSUME NEW o \in Orders, Signal(o) PROVE job'.pc = "dup"
    BY <2>6 DEF Signal
  <2> QED  BY <1>2, <2>1, <2>2, <2>3, <2>4, <2>5, <2>6, SweepAway DEF OpenLevel, Resolving,
              Closing, Cancelling
<1> QED  BY <1>1, <1>2, RefreshSweep, CancelPendingSweep, ClosePositionsSweep DEF Engine

(* An event wakes the engine, where it is stays. *)
LEMMA DeliverKeeps ==
    ASSUME TypeInv, Deliver
    PROVE  UNCHANGED <<job.pc, job.verdict, job.here, job.left, job.side, job.todo, job.cur>>
<1> DEFINE Keeps == UNCHANGED <<job.pc, job.verdict, job.here, job.left, job.side, job.todo,
                                job.cur>>
<1> USE DEF TypeInv, TypeOK, ControlType, Job, Resolve, Handle
<1>1. ASSUME NEW o \in Orders, OnAccepted(o) PROVE Keeps
  BY <1>1 DEF OnAccepted
<1>2. ASSUME NEW o \in Orders, OnFilled(o) PROVE Keeps
  BY <1>2 DEF OnFilled
<1>3. ASSUME NEW o \in Orders, OnExpired(o) PROVE Keeps
  BY <1>3 DEF OnExpired
<1>4. ASSUME NEW o \in Orders, OnCancelled(o) PROVE Keeps
  BY <1>4 DEF OnCancelled
<1>5. ASSUME NEW o \in Orders, OnError(o) PROVE Keeps
  BY <1>5 DEF OnError
<1>6. ASSUME NEW o \in Orders, OnClosed(o) PROVE Keeps
  BY <1>6 DEF OnClosed
<1> QED  BY <1>1, <1>2, <1>3, <1>4, <1>5, <1>6 DEF Deliver

LEMMA SweepStep ==
    ASSUME BookInv, SweepInv, [Next]_vars
    PROVE  SweepInv'
<1> USE DEF BookInv, TypeInv, TypeOK, ControlType, Job, Idle
<1>1. CASE Deliver
  <2>1. UNCHANGED <<job.pc, job.verdict, job.here, job.left, job.side, job.todo, job.cur>>
    BY <1>1, DeliverKeeps
  <2>2. \A c \in Orders : HasMeta(c)' => HasMeta(c)
    BY <1>1 DEF Deliver, OnAccepted, OnFilled, OnExpired, OnCancelled, OnError, OnClosed,
       OnOrderFilled, HasMeta, WithoutMeta, NoMeta, bookVars
  <2> QED  BY <2>1, <2>2, SweepStays
<1>2. CASE Outside \/ CacheExpires \/ UNCHANGED vars
  BY <1>2, SweepStays DEF Outside, CacheExpires, vars, bookVars, HasMeta
<1>3. CASE ServeReconcile
  BY <1>3, SweepStays DEF ServeReconcile, bookVars, HasMeta
<1>4. CASE Crash
  BY <1>4, SweepAway DEF Crash, FreshProgram, Resolving, Closing, Cancelling
<1>5. ASSUME NEW o \in Orders, Age(o) PROVE SweepInv'
  BY <1>5, SweepStays DEF Age, HasMeta, BookType, Meta
<1> QED  BY <1>1, <1>2, <1>3, <1>4, <1>5, EngineSweep DEF Next

(* Before positions are listed for closing, and until the last of them is  *)
(* dealt with, no metadata is left: _close_all_positions_global and        *)
(* _close_worst_position_global start only when the sweeps have been       *)
(* through every pair, and no bar, fill or answer brings an entry back.    *)
THEOREM SweepsLeaveNoMeta == Spec => [](job.pc \in Closing => Clear)
<1>1. Init => SweepInv
  <2>1. Init => job.pc = "boot_pos"
    BY DEF Init, Idle
  <2> QED  BY <2>1 DEF SweepInv, Resolved, Resolving, Closing, Cancelling
<1>2. BookInv /\ SweepInv /\ [Next]_vars => SweepInv'
  BY SweepStep
<1>3. SweepInv => (job.pc \in Closing => Clear)
  BY DEF SweepInv, Resolved
<1> QED  BY <1>1, <1>2, <1>3, BookCorrect, PTL DEF Spec

-----------------------------------------------------------------------------
(* The locals of the handler between two awaits: an answer is kept only    *)
(* while somebody waits for it, a Reconcile answer only where it is used,  *)
(* and the order at hand in a placement is one of the pair of the bar.     *)
Keeping == Fetching \cup Cancelling \cup Resolving

(* Where the level of the order at hand is about to go. *)
Removing == {"ttl_wait", "ca_tracked", "ca_direct", "ca_own", "res_wait"}

HandlerOK ==
    /\ job.pc \notin Waiting => job.answer = "none"
    /\ job.pc = "place" => job.wait = job.cur
    /\ job.pc \notin Keeping => job.snap = NoSnap
    /\ (job.pc \notin Fetching \/ job.snap = NoSnap) => job.barrier = 0
    /\ job.pc = "idle" => job.bar = NoPair
    /\ job.pc \in {"dup", "place"} => PairOf[job.cur] = job.bar
    /\ job.bar # NoPair => job.bar \in polled
    /\ job.pc \in Removing => job.cur \in Orders
    /\ job.pc \in Cancelling \cup Resolving => job.here \in Pairs

Starting == {"boot_pos", "boot_link", "boot_pend", "boot_ord"}

(* A step of the handler that opens no stretch in which it looks at        *)
(* positions or places an order.                                           *)
Onward ==
    /\ job'.pc \notin Starting \cup {"rec", "drop", "link", "dup", "place"}
    /\ job'.snap \in {job.snap, NoSnap}
    /\ job'.bar \in {job.bar, NoPair}

(* The steps that do. *)
Opens ==
    \/ Link \/ Bootstrap \/ \E p \in Pairs : StartBar(p)
    \/ Reconcile \/ DropStale \/ Dropped
    \/ \E o \in Orders : Signal(o)
    \/ Place

LEMMA SweepLocals ==
    ASSUME NEW j \in Job, j.snap = NoSnap, j.answer = "none", NEW pc,
           NEW pairs \in SUBSET Pairs, NEW after,
           NEW next \in Sweep(j, pc, pairs, after)
    PROVE  \/ next \in after
           \/ /\ next.pc = pc /\ next.snap = NoSnap /\ next.answer = "none"
              /\ next.bar = j.bar /\ next.barrier = j.barrier /\ next.here \in pairs
<1>1. CASE pairs = {}
  BY <1>1 DEF Sweep
<1>2. CASE pairs # {}
  <2>1. PICK q \in pairs :
          next = [j EXCEPT !.pc = pc, !.here = q, !.left = pairs \ {q},
                           !.snap = NoSnap, !.todo = {}, !.cur = NoOrder,
                           !.wait = NoOrder, !.answer = "none"]
    BY <1>2, Zenon DEF Sweep
  <2> QED  BY <2>1 DEF Job
<1> QED  BY <1>1, <1>2

(* From a step that sweeps on, or is through with the sweep. *)
Sweeps ==
    /\ job'.pc \in {"ca", "res", "sig", "cl_list"}
    /\ job'.snap = NoSnap /\ job'.answer = "none" /\ job'.barrier = 0
    /\ job'.bar = job.bar
    /\ job'.pc \in {"ca", "res"} => job'.here \in Pairs
    /\ UNCHANGED polled

LEMMA SweepsOn ==
    ASSUME HandlerOK, Sweeps
    PROVE  HandlerOK' /\ Onward
<1> USE DEF Sweeps, Waiting, Fetching, Keeping, Removing, Cancelling, Resolving,
            Starting
<1>1. HandlerOK'
  BY DEF HandlerOK
<1>2. Onward
  BY DEF Onward
<1> QED  BY <1>1, <1>2

(* A sweep set off from j, or the step that ends it there. *)
LEMMA SweepsOff ==
    ASSUME NEW j \in Job, j.snap = NoSnap, j.answer = "none", j.barrier = 0, j.bar = job.bar,
           UNCHANGED polled,
           \/ job' \in StartCancelAll(j) \/ job' \in StartResolve(j)
           \/ job'.pc \in {"ca", "res"} /\ job'.snap = NoSnap /\ job'.answer = "none"
              /\ job'.bar = j.bar /\ job'.barrier = j.barrier /\ job'.here \in Pairs
           \/ job' = [j EXCEPT !.pc = "sig"] \/ job' = [j EXCEPT !.pc = "cl_list"]
    PROVE  Sweeps
<1>1. CASE job' \in StartCancelAll(j) \/ job' \in StartResolve(j)
  BY <1>1, SweepLocals DEF StartCancelAll, StartResolve, Sweeps
<1>2. CASE job' = [j EXCEPT !.pc = "sig"] \/ job' = [j EXCEPT !.pc = "cl_list"]
  BY <1>2 DEF Sweeps, Job
<1> QED  BY <1>1, <1>2 DEF Sweeps

LEMMA AssessSweeps ==
    ASSUME TypeInv, HandlerOK, NEW v \in Verdicts, Assess(v)
    PROVE  Sweeps
<1> USE DEF TypeInv, TypeOK, ControlType, Job, Idle, Answered, Waiting, Fetching, Keeping,
            Removing, Cancelling, Resolving, Starting, pollVars
<1> DEFINE j == [job EXCEPT !.verdict = v, !.snap = NoSnap]
<1>1. /\ j \in Job /\ j.snap = NoSnap /\ j.answer = "none" /\ j.barrier = 0
      /\ j.bar = job.bar
  BY EngineAssumption DEF HandlerOK, Assess
<1>2. \/ job' \in StartCancelAll(j) \/ job' \in StartResolve(j)
      \/ job' = [j EXCEPT !.pc = "sig"]
  BY DEF Assess
<1>3. UNCHANGED polled
  BY DEF Assess
<1> HIDE DEF j, Job
<1> QED  BY <1>1, <1>2, <1>3, SweepsOff

LEMMA CancelAllDoneSweeps ==
    ASSUME TypeInv, HandlerOK, CancelAllDone
    PROVE  Sweeps
<1> USE DEF TypeInv, TypeOK, ControlType, Job, Idle, Answered, Waiting, Fetching, Keeping,
            Removing, Cancelling, Resolving, Starting, pollVars
<1> DEFINE j == [job EXCEPT !.here = NoPair, !.snap = NoSnap]
<1>1. /\ j \in Job /\ j.snap = NoSnap /\ j.answer = "none" /\ j.barrier = 0
      /\ j.bar = job.bar
  BY DEF HandlerOK, PairOrNone, CancelAllDone
<1>2. \E after \in {{[j EXCEPT !.pc = "cl_list"]}, StartResolve(j), {[j EXCEPT !.pc = "sig"]}} :
        job' \in Sweep(j, "ca", job.left, after)
  BY DEF CancelAllDone
<1>3. UNCHANGED polled
  BY DEF CancelAllDone
<1>5. job.left \in SUBSET Pairs
  OBVIOUS
<1> HIDE DEF j, Job
<1>4. \/ job'.pc = "ca" /\ job'.snap = NoSnap /\ job'.answer = "none"
         /\ job'.bar = j.bar /\ job'.barrier = j.barrier /\ job'.here \in Pairs
      \/ job' \in StartResolve(j)
      \/ job' = [j EXCEPT !.pc = "sig"] \/ job' = [j EXCEPT !.pc = "cl_list"]
  BY <1>1, <1>2, <1>5, SweepLocals
<1> QED  BY <1>1, <1>3, <1>4, SweepsOff

LEMMA ResolveDoneSweeps ==
    ASSUME TypeInv, HandlerOK, ResolveDone,
           job' # [job EXCEPT !.side = "SHORT", !.todo = PendingCids(grids[job.here]["SHORT"])]
    PROVE  Sweeps
<1> USE DEF TypeInv, TypeOK, ControlType, Job, Idle, Answered, Waiting, Fetching, Keeping,
            Removing, Cancelling, Resolving, Starting, pollVars
<1> DEFINE j == [job EXCEPT !.here = NoPair, !.snap = NoSnap, !.side = "LONG"]
<1>1. /\ j \in Job /\ j.snap = NoSnap /\ j.answer = "none" /\ j.barrier = 0
      /\ j.bar = job.bar
  BY DEF HandlerOK, PairOrNone, Dirs, ResolveDone
<1>2. \E after \in {StartCancelAll(j), {[j EXCEPT !.pc = "cl_list"]}} :
        job' \in Sweep(j, "res", job.left, after)
  BY DEF ResolveDone
<1>3. UNCHANGED polled
  BY DEF ResolveDone
<1>5. job.left \in SUBSET Pairs
  OBVIOUS
<1> HIDE DEF j, Job
<1>4. \/ job'.pc = "res" /\ job'.snap = NoSnap /\ job'.answer = "none"
         /\ job'.bar = j.bar /\ job'.barrier = j.barrier /\ job'.here \in Pairs
      \/ job' \in StartCancelAll(j)
      \/ job' = [j EXCEPT !.pc = "cl_list"]
  BY <1>1, <1>2, <1>5, SweepLocals
<1> QED  BY <1>1, <1>3, <1>4, SweepsOff

LEMMA LinkHandler ==
    ASSUME TypeInv, HandlerOK, Link
    PROVE  HandlerOK' /\ (Onward \/ Opens)
<1> USE DEF TypeInv, TypeOK, ControlType, Job, Idle, Answered, Waiting, Fetching, Keeping,
            Removing, Cancelling, Resolving, Starting, pollVars
<1>1. ASSUME NEW o \in Orders, LinkPosition(o) PROVE HandlerOK'
  BY <1>1 DEF LinkPosition, HandlerOK
<1> QED  BY <1>1 DEF Link, Opens

LEMMA BootstrapHandler ==
    ASSUME TypeInv, HandlerOK, Bootstrap
    PROVE  HandlerOK' /\ (Onward \/ Opens)
<1> USE DEF TypeInv, TypeOK, ControlType, Job, Idle, Answered, Waiting, Fetching, Keeping,
            Removing, Cancelling, Resolving, Starting, pollVars
<1>1. BootPositions => HandlerOK'
  BY DEF BootPositions, HandlerOK
<1>2. BootLinked => HandlerOK'
  BY DEF BootLinked, HandlerOK
<1>3. BootOrders => HandlerOK'
  BY DEF BootOrders, HandlerOK
<1>4. BootDone => HandlerOK'
  BY DEF BootDone, HandlerOK
<1>5. ASSUME NEW o \in Orders, RestorePending(o) PROVE HandlerOK'
  BY <1>5 DEF RestorePending, HandlerOK
<1> QED  BY <1>1, <1>2, <1>3, <1>4, <1>5 DEF Bootstrap, Opens

LEMMA OpenLevelHandler ==
    ASSUME TypeInv, HandlerOK, OpenLevel
    PROVE  HandlerOK' /\ (Onward \/ Opens)
<1> USE DEF TypeInv, TypeOK, ControlType, Job, Idle, Answered, Waiting, Fetching, Keeping,
            Removing, Cancelling, Resolving, Starting, pollVars
<1>1. CASE NoSignal
  <2>1. HandlerOK'
    BY <1>1 DEF NoSignal, HandlerOK
  <2>2. Onward
    BY <1>1 DEF NoSignal, Onward
  <2> QED  BY <2>1, <2>2
<1>2. CASE SkipDuplicate
  <2>1. HandlerOK'
    BY <1>2 DEF SkipDuplicate, HandlerOK
  <2>2. Onward
    BY <1>2 DEF SkipDuplicate, Onward
  <2> QED  BY <2>1, <2>2
<1>3. CASE Placed
  <2>1. HandlerOK'
    BY <1>3 DEF Placed, HandlerOK
  <2>2. Onward
    BY <1>3 DEF Placed, Onward
  <2> QED  BY <2>1, <2>2
<1>4. CASE PlaceFails
  <2>1. HandlerOK'
    BY <1>4 DEF PlaceFails, HandlerOK
  <2>2. Onward
    BY <1>4 DEF PlaceFails, Onward
  <2> QED  BY <2>1, <2>2
<1>5. ASSUME NEW o \in Orders, Signal(o) PROVE HandlerOK'
  BY <1>5 DEF Signal, HandlerOK
<1>6. Place => HandlerOK'
  BY DEF Place, HandlerOK
<1> QED  BY <1>1, <1>2, <1>3, <1>4, <1>5, <1>6 DEF OpenLevel, Opens

LEMMA RefreshHandler ==
    ASSUME TypeInv, HandlerOK, Refresh
    PROVE  HandlerOK' /\ (Onward \/ Opens)
<1> USE DEF TypeInv, TypeOK, ControlType, Job, Idle, Answered, Waiting, Fetching, Keeping,
            Removing, Cancelling, Resolving, Starting, pollVars
<1>1. CASE NextCycle
  <2>1. HandlerOK'
    BY <1>1 DEF NextCycle, HandlerOK
  <2>2. Onward
    BY <1>1 DEF NextCycle, Onward
  <2> QED  BY <2>1, <2>2
<1>2. ASSUME NEW p \in Pairs, StartBar(p) PROVE HandlerOK'
  BY <1>2 DEF StartBar, HandlerOK
<1>3. Reconcile => HandlerOK'
  BY DEF Reconcile, HandlerOK
<1>4. DropStale => HandlerOK'
  BY DEF DropStale, HandlerOK
<1>5. Dropped => HandlerOK'
  BY DEF Dropped, HandlerOK
<1>6. CASE Linked
  <2>1. HandlerOK'
    BY <1>6 DEF Linked, HandlerOK
  <2>2. Onward
    BY <1>6 DEF Linked, Onward
  <2> QED  BY <2>1, <2>2
<1>7. ASSUME NEW o \in Orders, TtlCancel(o) PROVE HandlerOK' /\ Onward
  <2>1. job.pc = "ttl" /\ job'.pc \in {"ttl", "ttl_wait"} /\ UNCHANGED polled
    BY <1>7 DEF TtlCancel
  <2>2. job'.pc = "ttl_wait" => job'.cur = o
    BY <1>7 DEF TtlCancel
  <2>3. UNCHANGED <<job.answer, job.snap, job.barrier, job.bar, job.here>>
    BY <1>7 DEF TtlCancel
  <2>4. HandlerOK'
    BY <2>1, <2>2, <2>3 DEF HandlerOK
  <2>5. Onward
    BY <2>1, <2>3 DEF Onward
  <2> QED  BY <2>4, <2>5
<1>8. CASE TtlCancelled
  <2>1. HandlerOK'
    BY <1>8 DEF TtlCancelled, HandlerOK
  <2>2. Onward
    BY <1>8 DEF TtlCancelled, Onward
  <2> QED  BY <2>1, <2>2
<1>9. CASE TtlDone
  <2>1. HandlerOK'
    BY <1>9 DEF TtlDone, HandlerOK
  <2>2. Onward
    BY <1>9 DEF TtlDone, Onward
  <2> QED  BY <2>1, <2>2
<1>10. CASE AssessFails
  <2>1. HandlerOK'
    BY <1>10 DEF AssessFails, HandlerOK
  <2>2. Onward
    BY <1>10 DEF AssessFails, Onward
  <2> QED  BY <2>1, <2>2
<1>11. ASSUME NEW v \in Verdicts, Assess(v) PROVE HandlerOK' /\ Onward
  BY <1>11, AssessSweeps, SweepsOn
<1> QED  BY <1>1, <1>2, <1>3, <1>4, <1>5, <1>6, <1>7, <1>8, <1>9, <1>10, <1>11 DEF Refresh,
            Opens

LEMMA CancelPendingHandler ==
    ASSUME TypeInv, HandlerOK, CancelPending
    PROVE  HandlerOK' /\ (Onward \/ Opens)
<1> USE DEF TypeInv, TypeOK, ControlType, Job, Idle, Answered, Waiting, Fetching, Keeping,
            Removing, Cancelling, Resolving, Starting, pollVars
<1>1. CASE CancelAll
  <2>1. HandlerOK'
    BY <1>1 DEF CancelAll, HandlerOK
  <2>2. Onward
    BY <1>1 DEF CancelAll, Onward
  <2> QED  BY <2>1, <2>2
<1>2. CASE CancelledTracked
  <2>1. HandlerOK'
    BY <1>2 DEF CancelledTracked, HandlerOK
  <2>2. Onward
    BY <1>2 DEF CancelledTracked, Onward
  <2> QED  BY <2>1, <2>2
<1>3. CASE TrackedTimesOut
  <2>1. HandlerOK'
    BY <1>3 DEF TrackedTimesOut, HandlerOK
  <2>2. Onward
    BY <1>3 DEF TrackedTimesOut, Onward
  <2> QED  BY <2>1, <2>2
<1>4. CASE CancelDirect
  <2>1. HandlerOK'
    BY <1>4 DEF CancelDirect, HandlerOK
  <2>2. Onward
    BY <1>4 DEF CancelDirect, Onward
  <2> QED  BY <2>1, <2>2
<1>5. CASE CancelledOwn
  <2>1. HandlerOK'
    BY <1>5 DEF CancelledOwn, HandlerOK
  <2>2. Onward
    BY <1>5 DEF CancelledOwn, Onward
  <2> QED  BY <2>1, <2>2
<1>6. ASSUME NEW o \in Orders, CancelTracked(o) PROVE HandlerOK' /\ Onward
  <2>1. job.pc = "ca_loop" /\ job'.pc \in {"ca_tracked", "ca_direct"} /\ UNCHANGED polled
    BY <1>6 DEF CancelTracked
  <2>2. job'.cur = o
    BY <1>6 DEF CancelTracked
  <2>3. UNCHANGED <<job.answer, job.snap, job.barrier, job.bar, job.here>>
    BY <1>6 DEF CancelTracked
  <2>4. HandlerOK'
    BY <2>1, <2>2, <2>3 DEF HandlerOK
  <2>5. Onward
    BY <2>1, <2>3 DEF Onward
  <2> QED  BY <2>4, <2>5
<1>7. CASE CancelAllDone
  BY <1>7, CancelAllDoneSweeps, SweepsOn
<1> QED  BY <1>1, <1>2, <1>3, <1>4, <1>5, <1>6, <1>7 DEF CancelPending, Opens

LEMMA ClosePositionsHandler ==
    ASSUME TypeInv, HandlerOK, ClosePositions
    PROVE  HandlerOK' /\ (Onward \/ Opens)
<1> USE DEF TypeInv, TypeOK, ControlType, Job, Idle, Answered, Waiting, Fetching, Keeping,
            Removing, Cancelling, Resolving, Starting, pollVars
<1>1. CASE ResolveStart
  <2>1. HandlerOK'
    BY <1>1 DEF ResolveStart, HandlerOK
  <2>2. Onward
    BY <1>1 DEF ResolveStart, Onward
  <2> QED  BY <2>1, <2>2
<1>2. CASE ResolveCancelled
  <2>1. HandlerOK'
    BY <1>2 DEF ResolveCancelled, HandlerOK
  <2>2. Onward
    BY <1>2 DEF ResolveCancelled, Onward
  <2> QED  BY <2>1, <2>2
<1>3. ASSUME NEW o \in Orders, ResolveLevel(o) PROVE HandlerOK' /\ Onward
  <2>1. job.pc = "res_loop" /\ job'.pc \in {"res_loop", "res_wait"} /\ UNCHANGED polled
    BY <1>3 DEF ResolveLevel
  <2>2. job'.pc = "res_wait" => job'.cur = o
    BY <1>3 DEF ResolveLevel
  <2>3. UNCHANGED <<job.answer, job.snap, job.barrier, job.bar, job.here>>
    BY <1>3 DEF ResolveLevel
  <2>4. HandlerOK'
    BY <2>1, <2>2, <2>3 DEF HandlerOK
  <2>5. Onward
    BY <2>1, <2>3 DEF Onward
  <2> QED  BY <2>4, <2>5
<1>4. ASSUME NEW o \in Orders, ClosePosition(o) PROVE HandlerOK' /\ Onward
  <2>1. HandlerOK'
    BY <1>4 DEF ClosePosition, HandlerOK
  <2>2. Onward
    BY <1>4 DEF ClosePosition, Onward
  <2> QED  BY <2>1, <2>2
<1>5. CASE ListPositions
  <2>1. /\ job.pc = "cl_list" /\ job'.pc = "cl_loop" /\ job'.snap = NoSnap /\ job.barrier = 0
        /\ UNCHANGED <<job.answer, job.barrier, job.bar, polled>>
    BY <1>5 DEF ListPositions
  <2>2. HandlerOK'
    BY <2>1 DEF HandlerOK
  <2>3. Onward
    BY <2>1 DEF Onward
  <2> QED  BY <2>2, <2>3
<1>6. CASE CloseVerified
  <2>1. HandlerOK'
    BY <1>6 DEF CloseVerified, HandlerOK
  <2>2. Onward
    BY <1>6 DEF CloseVerified, Onward
  <2> QED  BY <2>1, <2>2
<1>7. CASE CloseAgain
  <2>1. HandlerOK'
    BY <1>7 DEF CloseAgain, HandlerOK
  <2>2. Onward
    BY <1>7 DEF CloseAgain, Onward
  <2> QED  BY <2>1, <2>2
<1>8. CASE CloseFails
  <2>1. HandlerOK'
    BY <1>8 DEF CloseFails, HandlerOK
  <2>2. Onward
    BY <1>8 DEF CloseFails, Onward
  <2> QED  BY <2>1, <2>2
<1>9. CASE CloseDone
  <2>1. HandlerOK'
    BY <1>9 DEF CloseDone, HandlerOK
  <2>2. Onward
    BY <1>9 DEF CloseDone, Onward
  <2> QED  BY <2>1, <2>2
<1>10. CASE ResolveDone
  <2>1. CASE job' = [job EXCEPT !.side = "SHORT", !.todo = PendingCids(grids[job.here]["SHORT"])]
    <3>1. HandlerOK'
      BY <1>10, <2>1 DEF ResolveDone, HandlerOK
    <3>2. Onward
      BY <1>10, <2>1 DEF ResolveDone, Onward
    <3> QED  BY <3>1, <3>2
  <2>2. CASE job' # [job EXCEPT !.side = "SHORT", !.todo = PendingCids(grids[job.here]["SHORT"])]
    BY <1>10, <2>2, ResolveDoneSweeps, SweepsOn
  <2> QED  BY <2>1, <2>2
<1> QED  BY <1>1, <1>2, <1>3, <1>4, <1>5, <1>6, <1>7, <1>8, <1>9, <1>10 DEF ClosePositions,
            Opens

LEMMA EngineHandler ==
    ASSUME TypeInv, HandlerOK, Engine
    PROVE  HandlerOK' /\ (Onward \/ Opens)
BY LinkHandler, BootstrapHandler, RefreshHandler, CancelPendingHandler, ClosePositionsHandler,
   OpenLevelHandler DEF Engine

LEMMA HandlerStep ==
    ASSUME TypeInv, HandlerOK, [Next]_vars
    PROVE  HandlerOK'
<1> USE DEF TypeInv, TypeOK, ControlType, Job, Waiting, Fetching, Keeping, Removing,
            Cancelling, Resolving, pollVars
<1>1. CASE Deliver
  <2> DEFINE Woken == /\ UNCHANGED <<job.pc, job.wait, job.cur, job.snap, job.bar, job.here>>
                      /\ job'.barrier = Passed
                      /\ job.pc \notin Waiting => job'.answer = job.answer
  <2>1. ASSUME NEW o, NEW result, NEW pcs \in SUBSET Waiting, Resolve(pcs, o, result)
        PROVE  Woken
    BY <2>1 DEF Resolve
  <2>2. Woken
    <3>1. {"place"} \in SUBSET Waiting /\ {} \in SUBSET Waiting /\ Waiting \in SUBSET Waiting
      OBVIOUS
    <3>2. ASSUME NEW o, OnAccepted(o) \/ OnFilled(o) \/ OnExpired(o) \/ OnError(o) \/ OnClosed(o)
          PROVE  Woken
      BY <2>1, <3>1, <3>2 DEF OnAccepted, OnFilled, OnExpired, OnError, OnClosed
    <3>3. ASSUME NEW o, OnCancelled(o) PROVE Woken
      BY <2>1, <3>1, <3>3 DEF OnCancelled
    <3> QED  BY <1>1, <3>2, <3>3 DEF Deliver
  <2>3. UNCHANGED polled
    BY <1>1 DEF Deliver, OnAccepted, OnFilled, OnExpired, OnCancelled, OnError, OnClosed,
       Handle
  <2> QED  BY <2>2, <2>3 DEF HandlerOK, Passed
<1>2. CASE ServeReconcile
  <2>1. PICK snap \in Snapshot, barrier \in Nat :
          job' = [job EXCEPT !.snap = snap, !.barrier = barrier]
    <3>1. CurrentSnapshot \in Snapshot /\ [pos |-> {}, ords |-> {}] \in Snapshot
      BY DEF CurrentSnapshot, Snapshot, Positions, WorkingOrders
    <3>2. Len(events) \in Nat
      BY DEF BrokerType
    <3>3. job' = [job EXCEPT !.snap = CurrentSnapshot, !.barrier = Len(events)]
          \/ job' = [job EXCEPT !.snap = [pos |-> {}, ords |-> {}], !.barrier = job.barrier]
      BY <1>2 DEF ServeReconcile
    <3> QED  BY <3>1, <3>2, <3>3
  <2>2. snap # NoSnap /\ job.pc \in Fetching /\ UNCHANGED polled
    BY <1>2, EngineAssumption DEF ServeReconcile
  <2> QED  BY <2>1, <2>2 DEF HandlerOK
<1>3. CASE Crash
  BY <1>3 DEF Crash, FreshProgram, Idle, HandlerOK
<1>4. CASE Outside \/ CacheExpires \/ UNCHANGED vars \/ \E o \in Orders : Age(o)
  BY <1>4 DEF Outside, CacheExpires, vars, Age, HandlerOK
<1> QED  BY <1>1, <1>2, <1>3, <1>4, EngineHandler DEF Next


-----------------------------------------------------------------------------
(* The book as a relation between order ids and position ids, and what a   *)
(* step does to it.                                                        *)
At(p, d, c, b) == Names(grids[p][d], c, b)

Keeps ==
    /\ \A p \in Pairs, d \in Dirs : \A c, b \in OrderOrNone : At(p, d, c, b)' <=> At(p, d, c, b)
    /\ \A c \in Orders : HasMeta(c)' <=> HasMeta(c)

(* The level of order o goes, and its metadata. *)
Forgets(o) ==
    /\ \A p \in Pairs, d \in Dirs : \A c, b \in OrderOrNone :
         At(p, d, c, b)' <=> (At(p, d, c, b) /\ c # o)
    /\ \A c \in Orders : HasMeta(c)' <=> (HasMeta(c) /\ c # o)

(* The level of order k gets the position id b, and its metadata goes. *)
Relinks(k, b) ==
    /\ \A p \in Pairs, d \in Dirs : \A c, x \in OrderOrNone :
         At(p, d, c, x)' <=> \/ At(p, d, c, x) /\ c # k
                             \/ c = k /\ x = b /\ p = PairOf[k] /\ d = DirOf[k]
    /\ \A c \in Orders : HasMeta(c)' <=> (HasMeta(c) /\ c # k)

(* A level is made up for position b. *)
Adopts(b) ==
    /\ \A p \in Pairs, d \in Dirs : \A c, x \in OrderOrNone :
         At(p, d, c, x)' <=> \/ At(p, d, c, x)
                             \/ c = NoOrder /\ x = b /\ p = PairOf[b] /\ d = DirOf[b]
    /\ \A c \in Orders : HasMeta(c)' <=> HasMeta(c)

(* Order o gets a level that waits for it, and metadata. *)
Expects(o) ==
    /\ \A p \in Pairs, d \in Dirs : \A c, x \in OrderOrNone :
         At(p, d, c, x)' <=> \/ At(p, d, c, x)
                             \/ c = o /\ x = NoOrder /\ p = PairOf[o] /\ d = DirOf[o]
    /\ \A c \in Orders : HasMeta(c)' <=> (HasMeta(c) \/ c = o)

(* Levels with the position id b go, and no others. *)
Drops(b) ==
    /\ \A p \in Pairs, d \in Dirs : \A c, x \in OrderOrNone :
         /\ At(p, d, c, x)' => At(p, d, c, x)
         /\ (At(p, d, c, x) /\ x # b) => At(p, d, c, x)'
    /\ \A c \in Orders : HasMeta(c)' <=> HasMeta(c)

Empties ==
    /\ \A p \in Pairs, d \in Dirs : \A c, x : ~At(p, d, c, x)'
    /\ \A c \in Orders : ~HasMeta(c)'

(* Every level is in the grid of its order and of its position, and has    *)
(* metadata while it is pending.                                           *)
OwnOK ==
    \A p \in Pairs, d \in Dirs : \A c, b \in OrderOrNone : At(p, d, c, b) =>
        /\ c # NoOrder => PairOf[c] = p /\ DirOf[c] = d
        /\ b # NoOrder => PairOf[b] = p /\ DirOf[b] = d
        /\ b = NoOrder => c \in Orders /\ HasMeta(c)

LEMMA GridFacts ==
    ASSUME BookInv, NEW p \in Pairs, NEW d \in Dirs
    PROVE  /\ grids[p][d] \in Seq(Level) /\ UniqueCids(grids[p][d])
           /\ \A i \in DOMAIN grids[p][d] : LevelOK(p, grids[p][d][i], Used, Filled)
BY DEF BookInv, BookOK, GridOK

LEMMA MetaGone ==
    ASSUME BookInv, NEW o, meta' = WithoutMeta(o)
    PROVE  \A c \in Orders : HasMeta(c)' <=> (HasMeta(c) /\ c # o)
BY DEF HasMeta, WithoutMeta, NoMeta

LEMMA SameBook ==
    ASSUME UNCHANGED <<grids, meta>>
    PROVE  Keeps
BY DEF Keeps, At, HasMeta

(* _remove_pending_level *)
LEMMA RemoveForgets ==
    ASSUME BookInv, OwnOK, NEW o \in Orders, RemovePendingLevel(o)
    PROVE  Forgets(o)
<1> DEFINE p == PairOf[o]
           d == CidHome(o)
           g == DropCid(grids[p][d], o)
<1>1. p \in Pairs /\ d \in Dirs /\ o # NoOrder /\ o \in OrderOrNone
  BY TermsAssumption, NoOrderAssumption DEF CidHome, Dirs, OrderOrNone
<1>2. \A q \in Pairs, e \in Dirs : grids'[q][e] = IF q = p /\ e = d THEN g ELSE grids[q][e]
  <2>1. grids' = [grids EXCEPT ![p][d] = g]
    BY DEF RemovePendingLevel
  <2> HIDE DEF p, d, g
  <2> QED  BY <1>1, <2>1 DEF BookInv, TypeInv, TypeOK, BookType
<1>3. ASSUME NEW q \in Pairs, NEW e \in Dirs, NEW b \in OrderOrNone, At(q, e, o, b)
      PROVE  q = p /\ e = d
  <2>1. PairOf[o] = q /\ DirOf[o] = e
    BY <1>1, <1>3 DEF OwnOK
  <2>2. HasCid(grids[p][e], o)
    BY <1>3, <2>1 DEF At, Names, HasCid
  <2>3. ASSUME HasCid(grids[p]["LONG"], o) PROVE DirOf[o] = "LONG"
    <3>1. PICK i \in DOMAIN grids[p]["LONG"] : grids[p]["LONG"][i].cid = o
      BY <2>3 DEF HasCid
    <3>2. grids[p]["LONG"][i] \in Level /\ "LONG" \in Dirs
      BY <1>1, <3>1, GridFacts DEF Dirs
    <3>3. At(p, "LONG", o, grids[p]["LONG"][i].pid) /\ grids[p]["LONG"][i].pid \in OrderOrNone
      BY <3>1, <3>2 DEF At, Names, Level
    <3> QED  BY <1>1, <3>2, <3>3 DEF OwnOK
  <2> QED  BY <1>1, <2>1, <2>2, <2>3 DEF CidHome, Dirs
<1>4. ASSUME NEW q \in Pairs, NEW e \in Dirs, NEW c \in OrderOrNone, NEW b \in OrderOrNone
      PROVE  At(q, e, c, b)' <=> (At(q, e, c, b) /\ c # o)
  <2>1. CASE q = p /\ e = d
    <3>1. Names(g, c, b) <=> (Names(grids[p][d], c, b) /\ c # o)
      BY <1>1, GridFacts, NamesDropCid
    <3> QED  BY <1>2, <2>1, <3>1 DEF At
  <2>2. CASE ~(q = p /\ e = d)
    BY <1>2, <1>3, <2>2 DEF At
  <2> QED  BY <2>1, <2>2
<1>5. \A c \in Orders : HasMeta(c)' <=> (HasMeta(c) /\ c # o)
  BY MetaGone DEF RemovePendingLevel
<1> QED  BY <1>4, <1>5 DEF Forgets

(* One grid is replaced. *)
Puts(p, d, g) ==
    \A q \in Pairs, e \in Dirs : grids'[q][e] = IF q = p /\ e = d THEN g ELSE grids[q][e]

(* A level with an order id gets a position id. *)
LEMMA SetPidRelinks ==
    ASSUME BookInv, OwnOK, NEW p \in Pairs, NEW d \in Dirs, NEW i \in DOMAIN grids[p][d],
           NEW b \in Orders, grids[p][d][i].cid # NoOrder,
           Puts(p, d, SetPid(grids[p][d], i, b)), meta' = WithoutMeta(grids[p][d][i].cid)
    PROVE  /\ grids[p][d][i].cid \in Orders /\ Relinks(grids[p][d][i].cid, b)
           /\ PairOf[grids[p][d][i].cid] = p /\ DirOf[grids[p][d][i].cid] = d
<1> DEFINE k == grids[p][d][i].cid
           g == SetPid(grids[p][d], i, b)
<1>1. grids[p][d] \in Seq(Level) /\ UniqueCids(grids[p][d]) /\ grids[p][d][i] \in Level
  BY GridFacts
<1>2. k \in Orders /\ k \in OrderOrNone /\ b \in OrderOrNone
  BY <1>1 DEF Level, OrderOrNone
<1>3. PairOf[k] = p /\ DirOf[k] = d
  <2>1. At(p, d, k, grids[p][d][i].pid) /\ grids[p][d][i].pid \in OrderOrNone
    BY <1>1 DEF At, Names, Level
  <2> QED  BY <1>2, <2>1 DEF OwnOK
<1>4. \A q \in Pairs, e \in Dirs : grids'[q][e] = IF q = p /\ e = d THEN g ELSE grids[q][e]
  BY DEF Puts
<1>5. ASSUME NEW c \in OrderOrNone, NEW x \in OrderOrNone
      PROVE  Names(g, c, x) <=> (c # k /\ Names(grids[p][d], c, x)) \/ (c = k /\ x = b)
  BY <1>1, <1>2, NamesSetPid
<1> HIDE DEF g
<1>6. ASSUME NEW q \in Pairs, NEW e \in Dirs, NEW c \in OrderOrNone, NEW x \in OrderOrNone
      PROVE  At(q, e, c, x)' <=> \/ At(q, e, c, x) /\ c # k
                                 \/ c = k /\ x = b /\ q = PairOf[k] /\ e = DirOf[k]
  <2>1. CASE q = p /\ e = d
    BY <1>3, <1>4, <1>5, <2>1 DEF At
  <2>2. CASE ~(q = p /\ e = d)
    <3>1. At(q, e, c, x) => c # k
      BY <1>2, <1>3, <2>2 DEF OwnOK
    <3> QED  BY <1>3, <1>4, <2>2, <3>1 DEF At
  <2> QED  BY <2>1, <2>2
<1>7. \A c \in Orders : HasMeta(c)' <=> (HasMeta(c) /\ c # k)
  BY MetaGone
<1> QED  BY <1>2, <1>3, <1>6, <1>7 DEF Relinks

LEMMA AddLevelNames ==
    ASSUME BookInv, NEW o \in Orders, NEW level \in Level, Adopt(o, level)
    PROVE  \A p \in Pairs, d \in Dirs : \A c, x \in OrderOrNone :
             At(p, d, c, x)' <=> \/ At(p, d, c, x)
                                 \/ c = level.cid /\ x = level.pid /\ p = PairOf[o] /\ d = DirOf[o]
<1> DEFINE p == PairOf[o]
           d == DirOf[o]
           g == AddLevel(grids[p][d], level)
<1>1. p \in Pairs /\ d \in Dirs
  BY TermsAssumption
<1>2. \A q \in Pairs, e \in Dirs : grids'[q][e] = IF q = p /\ e = d THEN g ELSE grids[q][e]
  <2>1. grids' = [grids EXCEPT ![p][d] = g]
    BY DEF Adopt
  <2> HIDE DEF p, d, g
  <2> QED  BY <1>1, <2>1 DEF BookInv, TypeInv, TypeOK, BookType
<1>3. ASSUME NEW c \in OrderOrNone, NEW x \in OrderOrNone
      PROVE  Names(g, c, x) <=> Names(grids[p][d], c, x) \/ (c = level.cid /\ x = level.pid)
  BY <1>1, GridFacts, NamesAddLevel
<1> HIDE DEF g
<1> QED  BY <1>2, <1>3 DEF At

(* A level with position id b goes from one grid. *)
LEMMA DropPidDrops ==
    ASSUME BookInv, NEW p, NEW d, NEW b,
           Puts(p, d, DropPid(grids[p][d], b)), UNCHANGED meta
    PROVE  Drops(b)
<1>1. CASE p \in Pairs /\ d \in Dirs
  <2> DEFINE g == DropPid(grids[p][d], b)
  <2>1. \A q \in Pairs, e \in Dirs : grids'[q][e] = IF q = p /\ e = d THEN g ELSE grids[q][e]
    BY DEF Puts
  <2>2. ASSUME NEW c \in OrderOrNone, NEW x \in OrderOrNone
        PROVE  /\ Names(g, c, x) => Names(grids[p][d], c, x)
               /\ (Names(grids[p][d], c, x) /\ x # b) => Names(g, c, x)
    BY <1>1, GridFacts, NamesDropPid
  <2> HIDE DEF g
  <2> QED  BY <2>1, <2>2 DEF At, Drops, HasMeta
<1>2. CASE ~(p \in Pairs /\ d \in Dirs)
  <2>1. \A q \in Pairs, e \in Dirs : grids'[q][e] = grids[q][e]
    BY <1>2 DEF Puts
  <2> QED  BY <2>1 DEF At, Drops, HasMeta
<1> QED  BY <1>1, <1>2


-----------------------------------------------------------------------------
(* Every step, by what it does to the book, where all orders of a pair go  *)
(* one way.                                                                *)
OneWay == \A o, c \in Orders : PairOf[o] = PairOf[c] => DirOf[o] = DirOf[c]

(* There is a level with the order id c, or the position id b. *)
OwnAt(c, b) == At(PairOf[c], DirOf[c], c, b)
Known(c) == \E b \in OrderOrNone : OwnAt(c, b)
Held(b) == HasPid(OwnGrid(b), b)
SameGrid(k, b) == PairOf[k] = PairOf[b] /\ DirOf[k] = DirOf[b]

(* Orders whose level the handler is about to remove, without another look. *)
Targeted(o) ==
    \/ /\ job.pc \in {"ttl", "ttl_wait", "ca_loop", "ca_tracked", "ca_direct", "ca_own"}
       /\ o \in job.todo
    \/ job.pc \in Removing /\ o = job.cur

ForgetMove == \E o \in Orders : Forgets(o) /\ (Targeted(o) \/ OwnAt(o, NoOrder))
FillMove == \E o \in Orders : OnFilled(o) /\ Relinks(o, o) /\ Known(o)

(* A position takes over a level that waits: the loop over the positions   *)
(* finds one that has none, or the resolution finds one that fits.         *)
LinkMove == \E k, b \in Orders :
    /\ OwnAt(k, NoOrder) /\ SameGrid(k, b) /\ Relinks(k, b)
    /\ \/ LinkPosition(b) /\ ~Held(b)
       \/ ResolveLevel(k) /\ job'.pc = "res_loop" /\ b \in job.snap.pos
AdoptMove == \E b \in Orders : LinkPosition(b) /\ ~Held(b) /\ Adopts(b)
ExpectMove ==
    \/ Placed /\ Expects(job.cur)
    \/ \E o \in Orders : RestorePending(o) /\ OwnGrid(o) = <<>> /\ Expects(o)
DropMove ==
    \/ DropStale /\ \E b \in Orders : b \notin job.todo /\ Drops(b)
    \/ CloseVerified /\ Drops(job.cur)
CrashMove == Crash /\ Empties

Move == \/ Keeps \/ ForgetMove \/ FillMove \/ LinkMove \/ AdoptMove \/ ExpectMove
        \/ DropMove \/ CrashMove

LEMMA HeldAt ==
    ASSUME BookInv, NEW b \in Orders
    PROVE  Held(b) <=> \E c \in OrderOrNone : At(PairOf[b], DirOf[b], c, b)
<1>1. OwnGrid(b) = grids[PairOf[b]][DirOf[b]] /\ OwnGrid(b) \in Seq(Level)
  BY TermsAssumption, GridFacts DEF OwnGrid
<1>2. ASSUME NEW i \in DOMAIN OwnGrid(b)
      PROVE  OwnGrid(b)[i].cid \in OrderOrNone
  <2>1. OwnGrid(b)[i] \in Level
    BY <1>1
  <2> QED  BY <2>1 DEF Level
<1> QED  BY <1>1, <1>2 DEF Held, HasPid, At, Names

LEMMA PendingAt ==
    ASSUME BookInv, NEW p \in Pairs, NEW d \in Dirs, NEW i \in DOMAIN grids[p][d],
           IsPending(grids[p][d][i])
    PROVE  grids[p][d][i].cid \in Orders /\ At(p, d, grids[p][d][i].cid, NoOrder)
<1>1. grids[p][d][i] \in Level /\ LevelOK(p, grids[p][d][i], Used, Filled)
  BY GridFacts
<1> QED  BY <1>1 DEF LevelOK, Level, OrderOrNone, At, Names, IsPending

LEMMA FillMoves ==
    ASSUME BookInv, OwnOK, NEW o \in Orders, OnOrderFilled(o)
    PROVE  \/ Keeps /\ ~Known(o)
           \/ Relinks(o, o) /\ Known(o)
<1> DEFINE p == PairOf[o]
           d == CidHome(o)
<1>1. p \in Pairs /\ d \in Dirs /\ o # NoOrder /\ o \in OrderOrNone
  BY TermsAssumption, NoOrderAssumption DEF CidHome, Dirs, OrderOrNone
<1>2. ASSUME NEW e \in Dirs, HasCid(grids[p][e], o)
      PROVE  e = DirOf[o] /\ Known(o)
  <2>1. PICK i \in DOMAIN grids[p][e] : grids[p][e][i].cid = o
    BY <1>2 DEF HasCid
  <2>3. grids[p][e][i] \in Level
    BY <1>1, <2>1, GridFacts
  <2>2. At(p, e, o, grids[p][e][i].pid) /\ grids[p][e][i].pid \in OrderOrNone
    BY <2>1, <2>3 DEF At, Names, Level
  <2> QED  BY <1>1, <2>2 DEF OwnOK, Known, OwnAt
<1>3. CASE HasCid(grids[p][d], o)
  <2> DEFINE i == IndexOfCid(grids[p][d], o)
  <2>1. i \in DOMAIN grids[p][d] /\ grids[p][d][i].cid = o
    BY <1>3 DEF HasCid, IndexOfCid
  <2> DEFINE g == SetPid(grids[p][d], i, o)
  <2>2. grids' = [grids EXCEPT ![p][d] = g] /\ meta' = WithoutMeta(o)
    BY <1>3 DEF OnOrderFilled
  <2> HIDE DEF p, d, i, g
  <2>4. Puts(p, d, g)
    BY <1>1, <2>2 DEF Puts, BookInv, TypeInv, TypeOK, BookType
  <2>5. Puts(p, d, SetPid(grids[p][d], i, o))
    BY <2>4 DEF g
  <2>3. Relinks(grids[p][d][i].cid, o)
    BY <1>1, <2>1, <2>2, <2>5, SetPidRelinks
  <2> QED  BY <1>1, <1>2, <1>3, <2>1, <2>3
<1>4. CASE ~HasCid(grids[p][d], o)
  <2>1. Keeps
    BY <1>4, SameBook DEF OnOrderFilled
  <2>2. \A e \in Dirs : ~HasCid(grids[p][e], o)
    BY <1>2, <1>4 DEF CidHome, Dirs
  <2>3. DirOf[o] \in Dirs
    BY TermsAssumption
  <2> QED  BY <2>1, <2>2, <2>3 DEF Known, OwnAt, At, Names, HasCid
<1> QED  BY <1>3, <1>4

LEMMA RestoreMoves ==
    ASSUME BookInv, OwnOK, NEW o \in Orders, NEW width, RestorePosition(o, width)
    PROVE  \/ Held(o) /\ Keeps
           \/ ~Held(o) /\ \E k \in Orders : OwnAt(k, NoOrder) /\ SameGrid(k, o) /\ Relinks(k, o)
           \/ ~Held(o) /\ Adopts(o)
<1>0. PairOf[o] \in Pairs /\ DirOf[o] \in Dirs /\ EntryOf[o] \in Nat
  BY TermsAssumption
<1>1. ASSUME UNCHANGED <<grids, meta>> PROVE Keeps
  BY <1>1, SameBook
<1>2. ASSUME NEW i \in Slots(o, width),
             grids' = [grids EXCEPT ![PairOf[o]][DirOf[o]] = SetPid(@, i, o)],
             meta' = WithoutMeta(OwnGrid(o)[i].cid)
      PROVE  \E k \in Orders : OwnAt(k, NoOrder) /\ SameGrid(k, o) /\ Relinks(k, o)
  <2> DEFINE k == grids[PairOf[o]][DirOf[o]][i].cid
  <2>1. i \in DOMAIN grids[PairOf[o]][DirOf[o]] /\ IsPending(grids[PairOf[o]][DirOf[o]][i])
    BY DEF Slots, OwnGrid
  <2>2. k \in Orders /\ At(PairOf[o], DirOf[o], k, NoOrder)
    BY <1>0, <2>1, PendingAt
  <2>3. k # NoOrder
    BY <2>2, NoOrderAssumption
  <2> DEFINE p == PairOf[o]
             d == DirOf[o]
             g == SetPid(grids[p][d], i, o)
  <2>6. grids' = [grids EXCEPT ![p][d] = g] /\ meta' = WithoutMeta(k)
    BY <1>2 DEF OwnGrid
  <2>7. p \in Pairs /\ d \in Dirs
    BY <1>0
  <2> HIDE DEF p, d, g
  <2>8. Puts(p, d, g)
    <3>1. grids \in GridsType
      BY DEF BookInv, TypeInv, TypeOK, BookType, GridsType
    <3>2. \A q \in Pairs, e \in Dirs : grids'[q][e] = IF q = p /\ e = d THEN g ELSE grids[q][e]
      BY <2>6, <2>7, <3>1 DEF GridsType
    <3> QED  BY <3>2 DEF Puts
  <2>4. Puts(PairOf[o], DirOf[o], SetPid(grids[PairOf[o]][DirOf[o]], i, o))
    BY <2>8 DEF p, d, g
  <2>5. Relinks(k, o) /\ PairOf[k] = PairOf[o] /\ DirOf[k] = DirOf[o]
    BY <1>0, <2>1, <2>3, <2>4, <2>6, SetPidRelinks
  <2> HIDE DEF k
  <2> QED  BY <2>2, <2>5 DEF OwnAt, SameGrid
<1>3. ASSUME Slots(o, width) = {},
             Adopt(o, NewLevel(NoOrder, o, EntryOf[o], StepOf(NoOrder))),
             meta' = WithoutMeta(NoOrder)
      PROVE  Adopts(o)
  <2> DEFINE level == NewLevel(NoOrder, o, EntryOf[o], StepOf(NoOrder))
  <2>1. StepOf(NoOrder) = 0
    BY NoOrderAssumption DEF StepOf
  <2>2. level \in Level /\ level.cid = NoOrder /\ level.pid = o
    BY <1>0, <2>1, NoOrderAssumption DEF NewLevel, Level, OrderOrNone
  <2>3. Adopt(o, level)
    BY <1>3
  <2> HIDE DEF level
  <2>4. \A c \in Orders : HasMeta(c)' <=> HasMeta(c)
    BY <1>3, MetaGone, NoOrderAssumption
  <2> QED  BY <2>2, <2>3, <2>4, AddLevelNames DEF Adopts
<1>4. TypeInv /\ BookOK
  BY DEF BookInv
<1> QED  BY <1>1, <1>2, <1>3, <1>4, NoMatchWithoutSlot DEF RestorePosition, Held

LEMMA ExpectMoves ==
    ASSUME BookInv, NEW o \in Orders, NEW step \in Nat,
           Adopt(o, NewLevel(o, NoOrder, PriceOf[o], step)),
           meta' = [meta EXCEPT ![o] = NewMeta(step)]
    PROVE  Expects(o)
<1> DEFINE level == NewLevel(o, NoOrder, PriceOf[o], step)
<1>1. level \in Level /\ level.cid = o /\ level.pid = NoOrder
  BY TermsAssumption, NoOrderAssumption DEF NewLevel, Level, OrderOrNone
<1>2. Adopt(o, level)
  OBVIOUS
<1> HIDE DEF level
<1>3. \A c \in Orders : HasMeta(c)' <=> (HasMeta(c) \/ c = o)
  BY DEF BookInv, TypeInv, TypeOK, BookType, HasMeta, NewMeta
<1> QED  BY <1>1, <1>2, <1>3, AddLevelNames DEF Expects

-----------------------------------------------------------------------------
(* Which step moves the book how. *)
LEMMA LinkMoves ==
    ASSUME BookInv, OwnOK, Link
    PROVE  Move
<1>1. PICK o \in Orders : LinkPosition(o)
  BY DEF Link
<1>2. RestorePosition(o, IF job.pc = "link" THEN Width ELSE 0)
  BY <1>1 DEF LinkPosition
<1>3. \/ Held(o) /\ Keeps
      \/ ~Held(o) /\ \E k \in Orders : OwnAt(k, NoOrder) /\ SameGrid(k, o) /\ Relinks(k, o)
      \/ ~Held(o) /\ Adopts(o)
  BY <1>2, RestoreMoves
<1> QED  BY <1>1, <1>3 DEF Move, LinkMove, AdoptMove

LEMMA BootstrapMoves ==
    ASSUME BookInv, OwnOK, Bootstrap
    PROVE  Move
<1>1. ASSUME UNCHANGED <<grids, meta>> PROVE Move
  BY <1>1, SameBook DEF Move
<1>2. ASSUME NEW o \in Orders, RestorePending(o) PROVE Move
  <2>1. CASE OwnGrid(o) # <<>>
    BY <1>1, <1>2, <2>1 DEF RestorePending, bookVars
  <2>2. CASE OwnGrid(o) = <<>>
    <3>1. /\ meta' = [meta EXCEPT ![o] = NewMeta(0)]
          /\ Adopt(o, NewLevel(o, NoOrder, PriceOf[o], 0))
      BY <1>2, <2>2 DEF RestorePending
    <3>2. Expects(o)
      BY <3>1, ExpectMoves
    <3> QED  BY <1>2, <2>2, <3>2 DEF Move, ExpectMove
  <2> QED  BY <2>1, <2>2
<1>3. BootPositions \/ BootLinked \/ BootOrders \/ BootDone => UNCHANGED <<grids, meta>>
  BY DEF BootPositions, BootLinked, BootOrders, BootDone, bookVars
<1> QED  BY <1>1, <1>2, <1>3 DEF Bootstrap

LEMMA ForgetMoves ==
    ASSUME BookInv, OwnOK, NEW o \in Orders, RemovePendingLevel(o),
           Targeted(o) \/ OwnAt(o, NoOrder)
    PROVE  Move
BY RemoveForgets DEF Move, ForgetMove

LEMMA DropStaleMoves ==
    ASSUME BookInv, OwnOK, DropStale
    PROVE  Move
<1>0. PICK d \in Dirs : \E i \in DOMAIN grids[job.bar][d] :
        /\ IsStale(grids[job.bar][d][i])
        /\ grids' = [grids EXCEPT ![job.bar][d] =
                       DropPid(grids[job.bar][d], grids[job.bar][d][i].pid)]
  BY DEF DropStale
<1> DEFINE p == job.bar
<1>1. PICK i \in DOMAIN grids[p][d] :
        /\ IsStale(grids[p][d][i])
        /\ grids' = [grids EXCEPT ![p][d] = DropPid(grids[p][d], grids[p][d][i].pid)]
  BY <1>0
<1>2. UNCHANGED meta
  BY DEF DropStale
<1> DEFINE b == grids[p][d][i].pid
           g == DropPid(grids[p][d], b)
<1>3. grids' = [grids EXCEPT ![p][d] = g]
  BY <1>1
<1>4. CASE p \in Pairs
  <2>1. grids[p][d][i] \in Level
    BY <1>4, GridFacts
  <2>2. b \in Orders /\ b \notin job.todo
    BY <1>1, <2>1 DEF IsStale, IsPending, Level, OrderOrNone
  <2>3. Puts(p, d, g)
    <3> HIDE DEF p, g
    <3> QED  BY <1>3, <1>4 DEF Puts, BookInv, TypeInv, TypeOK, BookType
  <2>4. Drops(b)
    <3> HIDE DEF p, b
    <3> QED  BY <1>2, <2>3, DropPidDrops
  <2> HIDE DEF b
  <2> QED  BY <2>2, <2>4 DEF Move, DropMove
<1>5. CASE p \notin Pairs
  <2>1. UNCHANGED grids
    <3> HIDE DEF p, g
    <3> QED  BY <1>3, <1>5 DEF BookInv, TypeInv, TypeOK, BookType
  <2> QED  BY <1>2, <2>1, SameBook DEF Move
<1> QED  BY <1>4, <1>5

LEMMA RefreshMoves ==
    ASSUME BookInv, OwnOK, HandlerOK, Refresh
    PROVE  Move
<1>1. ASSUME UNCHANGED <<grids, meta>> PROVE Move
  BY <1>1, SameBook DEF Move
<1>2. CASE \/ NextCycle \/ \E p \in Pairs : StartBar(p)
           \/ Reconcile \/ Dropped \/ Linked \/ TtlDone \/ AssessFails
  BY <1>1, <1>2 DEF NextCycle, StartBar, Reconcile, Dropped, Linked, TtlDone, AssessFails,
     bookVars
<1>3. ASSUME NEW v, Assess(v) PROVE Move
  BY <1>1, <1>3 DEF Assess, bookVars
<1>4. ASSUME NEW o \in Orders, TtlCancel(o) PROVE Move
  <2>1. job.pc = "ttl" /\ o \in job.todo
    BY <1>4 DEF TtlCancel
  <2>2. RemovePendingLevel(o) \/ UNCHANGED <<grids, meta>>
    BY <1>4 DEF TtlCancel
  <2> QED  BY <1>1, <2>1, <2>2, ForgetMoves DEF Targeted
<1>5. CASE TtlCancelled
  <2>1. job.pc = "ttl_wait" /\ RemovePendingLevel(job.cur)
    BY <1>5 DEF TtlCancelled
  <2>2. job.cur \in Orders /\ Targeted(job.cur)
    BY <2>1 DEF HandlerOK, Targeted, Removing
  <2> QED  BY <2>1, <2>2, ForgetMoves
<1> QED  BY <1>2, <1>3, <1>4, <1>5, DropStaleMoves DEF Refresh

LEMMA CancelPendingMoves ==
    ASSUME BookInv, OwnOK, HandlerOK, CancelPending
    PROVE  Move
<1>1. ASSUME UNCHANGED <<grids, meta>> PROVE Move
  BY <1>1, SameBook DEF Move
<1>2. ASSUME job.pc \in Removing, RemovePendingLevel(job.cur) PROVE Move
  <2>1. job.cur \in Orders /\ Targeted(job.cur)
    BY <1>2 DEF HandlerOK, Targeted
  <2> QED  BY <1>2, <2>1, ForgetMoves
<1>3. CASE CancelAll \/ TrackedTimesOut \/ CancelAllDone \/ \E o \in Orders : CancelTracked(o)
  BY <1>1, <1>3 DEF CancelAll, TrackedTimesOut, CancelAllDone, CancelTracked, bookVars
<1>4. CASE CancelledTracked \/ CancelledOwn
  BY <1>2, <1>4 DEF CancelledTracked, CancelledOwn, Removing
<1>5. CASE CancelDirect
  BY <1>1, <1>2, <1>5 DEF CancelDirect, Removing
<1> QED  BY <1>3, <1>4, <1>5 DEF CancelPending

LEMMA ResolveLevelMoves ==
    ASSUME BookInv, OwnOK, HandlerOK, NEW o \in Orders, ResolveLevel(o)
    PROVE  Move
<1> DEFINE p == job.here
           d == job.side
<1>1. PICK i \in DOMAIN grids[p][d] :
        /\ grids[p][d][i].cid = o
        /\ \/ UNCHANGED <<grids, meta>>
           \/ /\ IsPending(grids[p][d][i]) /\ meta' = WithoutMeta(o)
              /\ job' = [job EXCEPT !.todo = @ \ {o}]
              /\ \E b \in Candidates(grids[p][d][i]) :
                   grids' = [grids EXCEPT ![p][d] = SetPid(@, i, b)]
           \/ IsPending(grids[p][d][i]) /\ RemovePendingLevel(o)
  BY DEF ResolveLevel
<1>2. job.pc = "res_loop" /\ d \in Dirs /\ p \in Pairs /\ job.snap \in Snapshot
  BY EngineAssumption DEF ResolveLevel, BookInv, TypeInv, TypeOK, ControlType, LocalsOK, Job,
     HandlerOK, Resolving
<1>3. CASE UNCHANGED <<grids, meta>>
  BY <1>3, SameBook DEF Move
<1>4. CASE IsPending(grids[p][d][i])
  <2>1. At(p, d, o, NoOrder)
    BY <1>1, <1>2, <1>4 DEF At, Names, IsPending
  <2>2. o \in OrderOrNone /\ o # NoOrder /\ NoOrder \in OrderOrNone
    BY NoOrderAssumption DEF OrderOrNone
  <2>3. PairOf[o] = p /\ DirOf[o] = d
    BY <1>2, <1>4, <2>1, <2>2 DEF OwnOK
  <2>4. OwnAt(o, NoOrder)
    BY <2>1, <2>3 DEF OwnAt
  <2>5. CASE RemovePendingLevel(o)
    BY <2>4, <2>5, ForgetMoves
  <2>6. ASSUME NEW b \in Candidates(grids[p][d][i]), meta' = WithoutMeta(o),
               job' = [job EXCEPT !.todo = @ \ {o}],
               grids' = [grids EXCEPT ![p][d] = SetPid(@, i, b)]
        PROVE  Move
    <3>1. b \in job.snap.pos /\ PairOf[b] = p /\ DirOf[b] = d /\ b \in Orders
      BY <1>2 DEF Candidates, Snapshot
    <3> DEFINE g == SetPid(grids[p][d], i, b)
    <3>2. grids' = [grids EXCEPT ![p][d] = g]
      BY <2>6
    <3>3. Puts(p, d, g)
      <4> HIDE DEF p, d, g
      <4> QED  BY <1>2, <1>4, <3>2 DEF Puts, BookInv, TypeInv, TypeOK, BookType
    <3>4. Puts(p, d, SetPid(grids[p][d], i, b))
      BY <3>3
    <3>5. Relinks(o, b)
      <4> HIDE DEF p, d
      <4> QED  BY <1>1, <1>2, <1>4, <2>2, <2>6, <3>1, <3>4, SetPidRelinks
    <3>6. SameGrid(o, b)
      BY <2>3, <3>1 DEF SameGrid
    <3>7. job'.pc = "res_loop"
      BY <1>2, <2>6 DEF BookInv, TypeInv, TypeOK, ControlType, Job
    <3> QED  BY <2>4, <3>1, <3>5, <3>6, <3>7 DEF Move, LinkMove
  <2> QED  BY <1>1, <1>3, <2>5, <2>6
<1>5. UNCHANGED <<grids, meta>> \/ IsPending(grids[p][d][i])
  BY <1>1
<1> HIDE DEF p, d
<1> QED  BY <1>3, <1>4, <1>5

LEMMA ClosePositionsMoves ==
    ASSUME BookInv, OwnOK, HandlerOK, ClosePositions
    PROVE  Move
<1>1. ASSUME UNCHANGED <<grids, meta>> PROVE Move
  BY <1>1, SameBook DEF Move
<1>2. CASE \/ ResolveStart \/ ResolveDone \/ ListPositions \/ CloseAgain \/ CloseFails
           \/ CloseDone \/ \E o \in Orders : ClosePosition(o)
  BY <1>1, <1>2 DEF ResolveStart, ResolveDone, ListPositions, CloseAgain, CloseFails,
     CloseDone, ClosePosition, bookVars
<1>3. CASE ResolveCancelled
  <2>1. job.pc = "res_wait" /\ RemovePendingLevel(job.cur)
    BY <1>3 DEF ResolveCancelled
  <2>2. job.cur \in Orders /\ Targeted(job.cur)
    BY <2>1 DEF HandlerOK, Targeted, Removing
  <2> QED  BY <2>1, <2>2, ForgetMoves
<1>4. CASE CloseVerified
  <2> DEFINE b == job.cur
             p == PairOf[b]
             d == PidHome(b)
             g == DropPid(grids[p][d], b)
  <2>1. b \in Orders /\ p \in Pairs /\ d \in Dirs
    BY <1>4, TermsAssumption DEF CloseVerified, Answered, BookInv, TypeInv, LocalsOK, PidHome,
       Dirs
  <2>2. grids' = [grids EXCEPT ![p][d] = g] /\ UNCHANGED meta
    BY <1>4 DEF CloseVerified
  <2>3. Puts(p, d, g)
    <3> HIDE DEF p, d, g, b
    <3> QED  BY <2>1, <2>2 DEF Puts, BookInv, TypeInv, TypeOK, BookType
  <2>4. Puts(p, d, DropPid(grids[p][d], b))
    BY <2>3
  <2>5. Drops(b)
    <3> HIDE DEF p, d, b
    <3> QED  BY <2>2, <2>4, DropPidDrops
  <2> QED  BY <1>4, <2>5 DEF Move, DropMove
<1>5. ASSUME NEW o \in Orders, ResolveLevel(o) PROVE Move
  BY <1>5, ResolveLevelMoves
<1> QED  BY <1>2, <1>3, <1>4, <1>5 DEF ClosePositions

(* A duplicate has its level in the grid of the signal. *)
LEMMA SkipDuplicateKeeps ==
    ASSUME BookInv, HandlerOK, OneWay, SkipDuplicate
    PROVE  Keeps
<1>1. PICK o \in Duplicates :
        HasCid(grids[job.bar][DirOf[job.cur]], o) => UNCHANGED grids
  BY DEF SkipDuplicate
<1>2. UNCHANGED meta /\ job.pc = "dup" /\ job.cur \in Orders
  BY DEF SkipDuplicate, Answered, BookInv, TypeInv, LocalsOK
<1>3. o \in Orders /\ HasMeta(o) /\ PairOf[o] = PairOf[job.cur] /\ PairOf[o] = job.bar
  BY <1>2, EngineAssumption DEF SkipDuplicate, Answered, Duplicates, BookInv, TypeInv, TypeOK,
     ControlType, Job, Snapshot, HandlerOK
<1>4. HasPending(grids[job.bar][DirOf[job.cur]], o)
  BY <1>2, <1>3 DEF OneWay, BookInv, BookOK, OwnGrid
<1> QED  BY <1>1, <1>2, <1>4, SameBook DEF HasPending, HasCid

LEMMA OpenLevelMoves ==
    ASSUME BookInv, OwnOK, HandlerOK, OneWay, OpenLevel
    PROVE  Move
<1>1. ASSUME UNCHANGED <<grids, meta>> PROVE Move
  BY <1>1, SameBook DEF Move
<1>2. CASE NoSignal \/ Place \/ PlaceFails \/ \E o \in Orders : Signal(o)
  BY <1>1, <1>2 DEF NoSignal, Place, PlaceFails, Signal, bookVars
<1>3. CASE SkipDuplicate
  BY <1>3, SkipDuplicateKeeps DEF Move
<1>4. CASE Placed
  <2>1. job.cur \in Orders /\ GridStep \in Nat
    BY <1>4, EngineAssumption DEF Placed, BookInv, TypeInv, LocalsOK
  <2>2. /\ meta' = [meta EXCEPT ![job.cur] = NewMeta(GridStep)]
        /\ Adopt(job.cur, NewLevel(job.cur, NoOrder, PriceOf[job.cur], GridStep))
    BY <1>4 DEF Placed
  <2>3. Expects(job.cur)
    BY <2>1, <2>2, ExpectMoves
  <2> QED  BY <1>4, <2>3 DEF Move, ExpectMove
<1> QED  BY <1>2, <1>3, <1>4 DEF OpenLevel

LEMMA MoveStep ==
    ASSUME BookInv, OwnOK, HandlerOK, OneWay, [Next]_vars
    PROVE  Move
<1>1. ASSUME UNCHANGED <<grids, meta>> PROVE Move
  BY <1>1, SameBook DEF Move
<1>2. CASE Engine
  BY <1>2, LinkMoves, BootstrapMoves, RefreshMoves, CancelPendingMoves, ClosePositionsMoves,
     OpenLevelMoves DEF Engine
<1>3. CASE Deliver
  <2>1. ASSUME NEW o, OnAccepted(o) \/ OnExpired(o) \/ OnCancelled(o) \/ OnError(o) \/ OnClosed(o)
        PROVE  Move
    BY <1>1, <2>1 DEF OnAccepted, OnExpired, OnCancelled, OnError, OnClosed, bookVars
  <2>2. ASSUME NEW o \in Orders, OnFilled(o) PROVE Move
    <3>1. OnOrderFilled(o)
      BY <2>2 DEF OnFilled
    <3> QED  BY <2>2, <3>1, FillMoves DEF Move, FillMove
  <2> QED  BY <1>3, <2>1, <2>2 DEF Deliver
<1>4. CASE Crash
  <2>1. grids' = EmptyGrids /\ meta' = [o \in Orders |-> NoMeta]
    BY <1>4 DEF Crash, FreshProgram
  <2>2. Empties
    BY <2>1 DEF Empties, At, Names, EmptyGrids, HasMeta, NoMeta
  <2> QED  BY <1>4, <2>2 DEF Move, CrashMove
<1>5. CASE Outside \/ ServeReconcile \/ CacheExpires \/ UNCHANGED vars
  BY <1>1, <1>5 DEF Outside, ServeReconcile, CacheExpires, vars, bookVars
<1>6. ASSUME NEW o \in Orders, Age(o) PROVE Move
  <2>1. UNCHANGED grids /\ \A c \in Orders : HasMeta(c)' <=> HasMeta(c)
    BY <1>6 DEF Age, HasMeta, BookInv, TypeInv, TypeOK, BookType, Meta
  <2> QED  BY <2>1 DEF Move, Keeps, At
<1> QED  BY <1>2, <1>3, <1>4, <1>5, <1>6 DEF Next

LEMMA OwnStep ==
    ASSUME BookInv, OwnOK, Move
    PROVE  OwnOK'
<1>0. \A o \in Orders : o # NoOrder
  BY NoOrderAssumption
<1>1. CASE Keeps
  BY <1>1 DEF OwnOK, Keeps
<1>2. ASSUME NEW o \in Orders, Forgets(o) PROVE OwnOK'
  BY <1>2 DEF OwnOK, Forgets
<1>3. ASSUME NEW k \in Orders, NEW b \in Orders, SameGrid(k, b), Relinks(k, b) PROVE OwnOK'
  BY <1>0, <1>3 DEF OwnOK, Relinks, SameGrid
<1>4. ASSUME NEW b \in Orders, Adopts(b) PROVE OwnOK'
  BY <1>0, <1>4 DEF OwnOK, Adopts
<1>5. ASSUME NEW o \in Orders, Expects(o) PROVE OwnOK'
  BY <1>0, <1>5 DEF OwnOK, Expects
<1>6. ASSUME NEW b, Drops(b) PROVE OwnOK'
  BY <1>6 DEF OwnOK, Drops
<1>7. CASE Empties
  BY <1>7 DEF OwnOK, Empties
<1>8. FillMove => OwnOK'
  BY <1>3 DEF FillMove, SameGrid
<1>9. ExpectMove => OwnOK'
  <2>1. Placed => job.cur \in Orders
    BY DEF Placed, BookInv, TypeInv, LocalsOK
  <2> QED BY <1>5, <2>1 DEF ExpectMove
<1> QED  BY <1>1, <1>2, <1>3, <1>4, <1>6, <1>7, <1>8, <1>9 DEF Move, ForgetMove, LinkMove,
         AdoptMove, DropMove, CrashMove

-----------------------------------------------------------------------------
(* The invariant of the handler and of the book, where all orders of a pair   *)
(* go one way.                                                             *)
WayInv == BookInv /\ HandlerOK /\ OwnOK

LEMMA HandlerInit == Init => HandlerOK
BY DEF Init, Idle, HandlerOK, Keeping, Fetching, Waiting, Cancelling, Resolving, Removing

LEMMA OwnInit == Init => OwnOK
BY DEF Init, EmptyGrids, OwnOK, At, Names

LEMMA HandlerCorrect == Spec => [](BookInv /\ HandlerOK)
<1>1. BookInv /\ HandlerOK /\ [Next]_vars => HandlerOK'
  BY HandlerStep DEF BookInv
<1> QED  BY <1>1, HandlerInit, BookCorrect, PTL DEF Spec

LEMMA WayCorrect ==
    ASSUME OneWay
    PROVE  Spec => []WayInv
<1>1. Init => WayInv
  BY BookInit, HandlerInit, OwnInit DEF WayInv
<1>2. WayInv /\ [Next]_vars => WayInv'
  <2> SUFFICES ASSUME WayInv, [Next]_vars PROVE WayInv'
    OBVIOUS
  <2>1. BookInv'
    BY BookStep DEF WayInv
  <2>2. HandlerOK'
    BY HandlerStep DEF WayInv, BookInv
  <2>3. OwnOK'
    BY MoveStep, OwnStep DEF WayInv
  <2> QED  BY <2>1, <2>2, <2>3 DEF WayInv
<1> QED  BY <1>1, <1>2, PTL DEF Spec

LEMMA PendingFound ==
    ASSUME BookInv, OwnOK
    PROVE  PendingHasMeta
<1> SUFFICES ASSUME NEW p \in Pairs, NEW d \in Dirs, NEW i \in DOMAIN grids[p][d],
                    IsPending(grids[p][d][i])
             PROVE  HasMeta(grids[p][d][i].cid)
  BY DEF PendingHasMeta
<1>1. grids[p][d][i].cid \in Orders /\ At(p, d, grids[p][d][i].cid, NoOrder)
  BY PendingAt
<1> QED  BY <1>1 DEF OwnOK, OrderOrNone

(* Where all orders of a pair go one way, every pending level has the      *)
(* metadata that _check_pending_orders_ttl finds it by: no fill, timeout,  *)
(* restart, restored position or sweep takes the one and leaves the other. *)
(* Orders both ways are where a duplicate gets a level in the wrong grid.  *)
THEOREM PendingKeepsMeta ==
    ASSUME OneWay
    PROVE  Spec => []PendingHasMeta
<1>1. WayInv => PendingHasMeta
  BY PendingFound DEF WayInv
<1> QED  BY <1>1, WayCorrect, PTL

LEMMA ClosesEmpty ==
    ASSUME BookInv, PendingHasMeta, job.pc \in Closing => Clear
    PROVE  NothingPendingWhenClosing
<1> SUFFICES ASSUME job.pc \in Closing PROVE NothingPendingWhenClosing
  BY DEF NothingPendingWhenClosing, Closing
<1>1. ASSUME NEW p \in Pairs, NEW d \in Dirs, NEW i \in DOMAIN grids[p][d],
             IsPending(grids[p][d][i])
      PROVE  FALSE
  BY <1>1, PendingAt DEF PendingHasMeta, Clear
<1> QED  BY <1>1 DEF Clear, NothingPendingWhenClosing

(* Where all orders of a pair go one way, no level is pending and no       *)
(* metadata is left while positions are listed and closed: the sweeps of   *)
(* _resolve_pending_before_close and _cancel_all_pending_orders miss no    *)
(* level of any pair.                                                      *)
THEOREM NothingPendingAtClose ==
    ASSUME OneWay
    PROVE  Spec => []NothingPendingWhenClosing
<1>1. BookInv /\ PendingHasMeta /\ (job.pc \in Closing => Clear) => NothingPendingWhenClosing
  BY ClosesEmpty
<1> QED  BY <1>1, BookCorrect, PendingKeepsMeta, SweepsLeaveNoMeta, PTL

-----------------------------------------------------------------------------
(* Beside the cleanup task *)

CleanType ==
    /\ clean \in C!Clean
    /\ trackedOld \subseteq Pairs
    /\ brokerOld \subseteq WorkingOrders

(* What the cleanup task does to the engine's world: it asks for cancels,  *)
(* has orders untracked, leaves its Reconcile answer in the cache, and     *)
(* takes an event that the engine waits for, which then only counts.       *)
Beside ==
    /\ UNCHANGED <<order, closeReq, grids, meta, modeVars, polled, crashes>>
    /\ cancelReq' \subseteq Orders
    /\ tracked' \in [Pairs -> OrderOrNone]
    /\ mapped' \subseteq Orders
    /\ \/ /\ UNCHANGED <<events, job>>
          /\ cache' \in {cache, clean.snap}
       \/ /\ events # <<>> /\ events' = Tail(events)
          /\ job' = [job EXCEPT !.barrier = Passed]
          /\ UNCHANGED cache

LEMMA HearsType ==
    ASSUME clean \in C!Clean, NEW type, NEW o, C!CleanHears(type, o)
    PROVE  clean' \in C!Clean /\ clean'.snap = clean.snap
<1> DEFINE ok == clean.ok \/ (type \in {"CANCELLED", "REJECTED"} /\ clean.wait = o)
           barrier == IF clean.barrier = 0 THEN 0 ELSE clean.barrier - 1
<1>1. ok \in BOOLEAN /\ barrier \in Nat
  BY DEF C!Clean
<1>2. clean' = [clean EXCEPT !.barrier = barrier, !.ok = ok]
  BY DEF C!CleanHears
<1> HIDE DEF ok, barrier
<1> QED  BY <1>1, <1>2 DEF C!Clean



(* What a step leaves the cleanup of its answer. *)
Answers == {clean.snap, NoSnap, CurrentSnapshot, [pos |-> {}, ords |-> {}]}

(* A step of the cleanup, as far as the types and the engine go. *)
CleanMove ==
    /\ clean' \in C!Clean
    /\ UNCHANGED <<order, closeReq, events, mapped, brokerOld>>
    /\ cancelReq' \subseteq Orders
    /\ tracked' \in [Pairs -> OrderOrNone]
    /\ trackedOld' \subseteq trackedOld
    /\ clean'.snap \in Answers

LEMMA ForgetType ==
    ASSUME TypeInv, CleanType, NEW pairs, C!Forget(pairs)
    PROVE  tracked' \in [Pairs -> OrderOrNone] /\ trackedOld' \subseteq trackedOld
BY DEF C!Forget, TypeInv, TypeOK, BookType, OrderOrNone

LEMMA ReleaseType ==
    ASSUME TypeInv, CleanType, NEW p, C!ReleaseBlocks(p)
    PROVE  tracked' \in [Pairs -> OrderOrNone] /\ trackedOld' \subseteq trackedOld
BY ForgetType DEF C!ReleaseBlocks

LEMMA CleanupMoves ==
    ASSUME TypeInv, CleanType, C!Cleanup
    PROVE  CleanMove
<1>0. /\ clean \in C!Clean /\ trackedOld \subseteq Pairs /\ brokerOld \subseteq Orders
      /\ cancelReq \subseteq Orders /\ mapped \subseteq Orders /\ Len(events) \in Nat
      /\ tracked \in [Pairs -> OrderOrNone] /\ clean.wait \in OrderOrNone
  BY DEF CleanType, TypeInv, TypeOK, BrokerType, BookType, WorkingOrders, C!Clean, C!OrderOrNone,
     OrderOrNone
<1>1. C!Asleep \in C!Clean
  BY DEF C!Asleep, C!Clean, C!OrderOrNone
<1>2. CASE C!CleanupStart
  <2>1. clean' = [C!Asleep EXCEPT !.pc = "fetch"]
    BY <1>2 DEF C!CleanupStart
  <2>2. clean' \in C!Clean /\ clean'.snap = NoSnap
    BY <1>1, <2>1 DEF C!Clean, C!Asleep
  <2> QED  BY <1>0, <1>2, <2>2 DEF C!CleanupStart, C!brokerVars, C!blockVars, CleanMove, Answers
<1>3. CASE C!CleanupServed
  <2>1. CurrentSnapshot \in C!Snapshot /\ [pos |-> {}, ords |-> {}] \in C!Snapshot
    BY DEF CurrentSnapshot, C!Snapshot, Positions, WorkingOrders
  <2>2. C!CurrentSnapshot = CurrentSnapshot
    BY DEF C!CurrentSnapshot, CurrentSnapshot, C!Positions, Positions, C!WorkingOrders, WorkingOrders
  <2>3. \/ clean' = [clean EXCEPT !.snap = CurrentSnapshot, !.barrier = Len(events)]
        \/ clean' = [clean EXCEPT !.snap = [pos |-> {}, ords |-> {}]]
    BY <1>3, <2>2 DEF C!CleanupServed
  <2>4. clean' \in C!Clean /\ clean'.snap \in {CurrentSnapshot, [pos |-> {}, ords |-> {}]}
    BY <1>0, <2>1, <2>3 DEF C!Clean
  <2> QED  BY <1>0, <1>3, <2>4 DEF C!CleanupServed, C!brokerVars, C!blockVars, CleanMove, Answers
<1>4. CASE C!CleanupGivesUp
  <2>1. clean' = C!Asleep /\ clean'.snap = NoSnap
    BY <1>4 DEF C!CleanupGivesUp, C!Asleep
  <2> QED  BY <1>0, <1>1, <1>4, <2>1 DEF C!CleanupGivesUp, C!brokerVars, C!blockVars, CleanMove, Answers
<1>5. CASE C!CleanupReconciles
  <2>1. tracked' \in [Pairs -> OrderOrNone] /\ trackedOld' \subseteq trackedOld
    BY <1>5, ForgetType DEF C!CleanupReconciles, C!ReconcileMissing
  <2>2. PICK todo \in SUBSET Pairs : clean' = [clean EXCEPT !.pc = "tracked", !.todo = todo]
    BY <1>5 DEF C!CleanupReconciles, C!Entries
  <2>3. clean' \in C!Clean /\ clean'.snap = clean.snap
    BY <1>0, <2>2 DEF C!Clean
  <2> QED  BY <1>0, <1>5, <2>1, <2>3 DEF C!CleanupReconciles, C!brokerVars, CleanMove, Answers
<1>6. ASSUME NEW p \in Pairs, C!CancelOldEntry(p) PROVE CleanMove
  <2>1. CASE tracked[p] \in mapped /\ C!RequestCancel(tracked[p])
    <3>1. CASE clean' = [clean EXCEPT !.pc = "tracked_wait", !.todo = @ \ {p},
                                    !.pair = p, !.wait = tracked[p]] /\ UNCHANGED C!blockVars
      <4>1. clean' \in C!Clean /\ clean'.snap = clean.snap
        BY <1>0, <2>1, <3>1 DEF C!Clean, C!OrderOrNone
      <4> QED  BY <1>0, <1>6, <2>1, <3>1, <4>1 DEF C!CancelOldEntry, C!RequestCancel, C!blockVars,
                  CleanMove, Answers
    <3> QED  BY <1>6, <2>1, <3>1 DEF C!CancelOldEntry
  <2>2. CASE tracked[p] \notin mapped
    <3>1. C!ReleaseBlocks(p) /\ clean' = [clean EXCEPT !.todo = @ \ {p}] /\ UNCHANGED C!brokerVars
      BY <1>6, <2>2 DEF C!CancelOldEntry
    <3>2. clean' \in C!Clean /\ clean'.snap = clean.snap
      BY <1>0, <3>1 DEF C!Clean
    <3>3. tracked' \in [Pairs -> OrderOrNone] /\ trackedOld' \subseteq trackedOld
      BY <3>1, ReleaseType
    <3> QED  BY <1>0, <1>6, <3>1, <3>2, <3>3 DEF C!CancelOldEntry, C!brokerVars, CleanMove, Answers
  <2> QED  BY <1>6, <2>1, <2>2 DEF C!CancelOldEntry
<1>7. CASE C!OldEntryCancelled
  <2>1. clean' \in C!Clean /\ clean'.snap = clean.snap
    BY <1>0, <1>7 DEF C!OldEntryCancelled, C!Clean, C!OrderOrNone
  <2>2. tracked' \in [Pairs -> OrderOrNone] /\ trackedOld' \subseteq trackedOld
    BY <1>7, ReleaseType DEF C!OldEntryCancelled
  <2> QED  BY <1>0, <1>7, <2>1, <2>2 DEF C!OldEntryCancelled, C!brokerVars, CleanMove, Answers
<1>8. CASE C!StartSweep
  <2>1. PICK left \in SUBSET Orders : clean' = [clean EXCEPT !.pc = "stale", !.left = left]
    BY <1>0, <1>8 DEF C!StartSweep, C!Untracked
  <2>2. clean' \in C!Clean /\ clean'.snap = clean.snap
    BY <1>0, <2>1 DEF C!Clean
  <2> QED  BY <1>0, <1>8, <2>2 DEF C!StartSweep, C!brokerVars, C!blockVars, CleanMove, Answers
<1>9. ASSUME NEW o \in Orders, C!CancelStale(o) PROVE CleanMove
  <2>1. clean' = [clean EXCEPT !.pc = "stale_wait", !.left = @ \ {o}, !.wait = o]
        /\ UNCHANGED <<C!blockVars, mapped, brokerOld>> /\ C!RequestCancel(o)
    BY <1>9 DEF C!CancelStale
  <2>2. clean' \in C!Clean /\ clean'.snap = clean.snap
    BY <1>0, <2>1 DEF C!Clean, C!OrderOrNone
  <2> QED  BY <1>0, <2>1, <2>2 DEF C!RequestCancel, C!blockVars, CleanMove, Answers
<1>10. CASE C!StaleCancelled
  <2>1. clean' \in C!Clean /\ clean'.snap = clean.snap
    BY <1>0, <1>10 DEF C!StaleCancelled, C!Clean, C!OrderOrNone
  <2>2. tracked' \in [Pairs -> OrderOrNone] /\ trackedOld' \subseteq trackedOld
    BY <1>0, <1>10, ReleaseType DEF C!StaleCancelled, C!blockVars
  <2> QED  BY <1>0, <1>10, <2>1, <2>2 DEF C!StaleCancelled, C!brokerVars, CleanMove, Answers
<1>11. CASE C!CleanupEnds
  <2>1. clean' = C!Asleep /\ clean'.snap = NoSnap
    BY <1>11 DEF C!CleanupEnds, C!Asleep
  <2>2. tracked' \in [Pairs -> OrderOrNone] /\ trackedOld' \subseteq trackedOld
    BY <1>0, <1>11, ForgetType DEF C!CleanupEnds, C!ReconcileMissing, C!blockVars
  <2> QED  BY <1>0, <1>1, <1>11, <2>1, <2>2 DEF C!CleanupEnds, C!brokerVars, CleanMove, Answers
<1> QED  BY <1>2, <1>3, <1>4, <1>5, <1>6, <1>7, <1>8, <1>9, <1>10, <1>11 DEF C!Cleanup

LEMMA KeepsAges ==
    ASSUME CleanType, KeepAges
    PROVE  trackedOld' \subseteq Pairs /\ brokerOld' \subseteq WorkingOrders'
BY DEF CleanType, KeepAges, WorkingOrders

LEMMA CleanupBeside ==
    ASSUME TypeInv, CleanType, CleanupTask
    PROVE  CleanType' /\ Beside /\ clean'.snap \in Answers
<1>1. CleanMove
  BY CleanupMoves DEF CleanupTask, Cleans
<1>2. CleanType'
  BY <1>1 DEF CleanType, CleanMove, WorkingOrders
<1>3. UNCHANGED engineVars
      /\ cache' \in {cache, clean.snap}
  BY DEF CleanupTask, Cleans
<1>4. mapped' \subseteq Orders
  BY <1>1 DEF CleanMove, TypeInv, TypeOK, BookType
<1> QED  BY <1>1, <1>2, <1>3, <1>4 DEF CleanMove, Beside, engineVars

LEMMA HeardBeside ==
    ASSUME TypeInv, NEW o \in Orders, CancelHeardByCleanup(o)
    PROVE  Beside
<1>1. /\ UNCHANGED <<order, cancelReq, closeReq, grids, meta, modeVars, cache, polled, crashes>>
      /\ events # <<>> /\ events' = Tail(events) /\ job' = [job EXCEPT !.barrier = Passed]
  BY DEF CancelHeardByCleanup, Handle, pollVars
<1>2. tracked' \in [Pairs -> OrderOrNone] /\ mapped' \subseteq Orders
  BY DEF CancelHeardByCleanup, Untrack, TypeInv, TypeOK, BookType, OrderOrNone
<1>3. cancelReq' \subseteq Orders
  BY <1>1 DEF TypeInv, TypeOK, BrokerType
<1> QED  BY <1>1, <1>2, <1>3 DEF Beside

(* A session is a run of the engine with steps beside it. *)
LEMMA SessionStep ==
    ASSUME TypeInv, CleanType, [SessionNext]_sessionVars
    PROVE  /\ CleanType' /\ clean'.snap \in Answers
           /\ [Next]_vars \/ Beside
<1> USE DEF Answers
<1>1. CASE EngineTask
  <2>1. Next
    BY <1>1 DEF EngineTask, Next
  <2>2. CleanType' /\ UNCHANGED clean
    BY <1>1, KeepsAges DEF EngineTask, CleanType
  <2> QED  BY <2>1, <2>2
<1>2. CASE Hear
  <2>1. CASE Deliver /\ \E type : C!CleanHears(type, Head(events).ord)
    <3>1. clean' \in C!Clean /\ clean'.snap = clean.snap
      BY <2>1, HearsType DEF CleanType
    <3>2. CleanType'
      BY <1>2, <3>1, KeepsAges DEF Hear, CleanType
    <3>3. Next
      BY <2>1 DEF Next
    <3> QED  BY <3>1, <3>2, <3>3
  <2>2. ASSUME NEW o \in Orders, CancelHeardByCleanup(o)
        PROVE  CleanType' /\ clean'.snap = clean.snap /\ Beside
    <3>1. clean' \in C!Clean /\ clean'.snap = clean.snap
      BY <2>2, HearsType DEF CleanType, CancelHeardByCleanup
    <3> QED  BY <1>2, <2>2, <3>1, KeepsAges, HeardBeside DEF Hear, CleanType
  <2> QED  BY <1>2, <2>1, <2>2 DEF Hear
<1>3. CASE CleanupTask
  BY <1>3, CleanupBeside
<1>4. CASE SessionAges
  <2>1. CleanType' /\ UNCHANGED <<vars, clean>>
    <3>1. ASSUME NEW p \in Pairs, C!AgeEntry(p) PROVE CleanType' /\ UNCHANGED <<vars, clean>>
      BY <1>4, <3>1 DEF SessionAges, C!AgeEntry, C!brokerVars, CleanType, WorkingOrders, vars,
         brokerVars, bookVars, pollVars, engineVars
    <3>2. ASSUME NEW o \in Orders, C!AgeOrder(o) PROVE CleanType' /\ UNCHANGED <<vars, clean>>
      BY <1>4, <3>2 DEF SessionAges, C!AgeOrder, C!brokerVars, C!blockVars, CleanType,
         WorkingOrders, vars, brokerVars, bookVars, pollVars, engineVars
    <3> QED  BY <1>4, <3>1, <3>2 DEF SessionAges
  <2> QED  BY <2>1
<1>5. CASE NewSession
  <2>1. C!Recovering \in C!Clean
    BY DEF C!Recovering, C!Asleep, C!Clean, C!OrderOrNone
  <2>2. CleanType' /\ clean'.snap = NoSnap
    BY <1>5, <2>1 DEF NewSession, Crash, CleanType, WorkingOrders, C!Recovering, C!Asleep
  <2> QED  BY <1>5, <2>2 DEF NewSession, Next
<1>6. CASE /\ Outside \/ CacheExpires \/ \E o \in Orders : Age(o)
           /\ KeepAges /\ UNCHANGED clean
  <2>1. CleanType'
    BY <1>6, KeepsAges DEF CleanType
  <2> QED  BY <1>6, <2>1 DEF Next
<1>7. CASE UNCHANGED sessionVars
  BY <1>7 DEF sessionVars, vars, brokerVars, CleanType, WorkingOrders
<1> QED  BY <1>1, <1>2, <1>3, <1>4, <1>5, <1>6, <1>7 DEF SessionNext

LEMMA BesideType ==
    ASSUME TypeInv, CleanType, Beside
    PROVE  TypeInv'
<1>1. BrokerType'
  <2>1. events' \in Seq(Event)
    BY DEF Beside, TypeInv, TypeOK, BrokerType
  <2> QED  BY <2>1 DEF Beside, TypeInv, TypeOK, BrokerType
<1>2. BookType'
  BY DEF Beside, TypeInv, TypeOK, BookType
<1>3. cache' \in Snapshot \cup {NoSnap}
  BY DEF Beside, CleanType, C!Clean, C!Snapshot, Snapshot, TypeInv, TypeOK, ControlType
<1>4. job' \in Job /\ LocalsOK'
  <2>1. Passed \in Nat
    BY DEF TypeInv, TypeOK, ControlType, Job, Passed
  <2> HIDE DEF Passed
  <2> QED  BY <2>1 DEF Beside, TypeInv, TypeOK, ControlType, LocalsOK, Job
<1>5. ControlType'
  BY <1>3, <1>4 DEF Beside, TypeInv, TypeOK, ControlType, modeVars
<1> QED  BY <1>1, <1>2, <1>4, <1>5 DEF TypeInv, TypeOK

(* The answer the cleanup has lists nothing that was not filled, or sent. *)
CleanView == SnapshotOK(clean.snap, Used, Filled)

LEMMA BesideBook ==
    ASSUME BookInv, CleanType, CleanView, Beside
    PROVE  BookInv'
<1>0. TypeInv /\ BookOK /\ ViewOK /\ PlacingOK /\ UNCHANGED <<order, grids, meta>>
  BY DEF BookInv, Beside
<1>1. Used' = Used /\ Filled' = Filled
  BY <1>0 DEF Used, Filled
<1>2. BookOK'
  BY <1>0, <1>1, BookKept DEF HasMeta, Forward
<1>3. job'.pc = job.pc /\ job'.cur = job.cur /\ job'.snap = job.snap /\ job'.todo = job.todo
  BY <1>0 DEF Beside, TypeInv, TypeOK, ControlType, Job
<1>4. SnapshotOK(cache', Used', Filled')
  BY <1>0, <1>1 DEF Beside, ViewOK, CleanView
<1>5. \A i \in DOMAIN events' : events'[i].type = "FILLED" => events'[i].ord \in Filled
  <2>1. CASE UNCHANGED events
    BY <1>0, <2>1 DEF ViewOK
  <2>2. CASE events # <<>> /\ events' = Tail(events)
    <3>1. ASSUME NEW i \in DOMAIN events'
          PROVE  i + 1 \in DOMAIN events /\ events'[i] = events[i + 1]
      BY <1>0, <2>2 DEF TypeInv, TypeOK, BrokerType
    <3> QED  BY <1>0, <3>1 DEF ViewOK
  <2> QED  BY <2>1, <2>2 DEF Beside
<1>6. ViewOK'
  BY <1>0, <1>1, <1>3, <1>4, <1>5 DEF ViewOK
<1>7. PlacingOK'
  BY <1>0, <1>1, <1>3 DEF PlacingOK
<1> QED  BY <1>0, <1>2, <1>6, <1>7, BesideType DEF BookInv

LEMMA BesideHandler ==
    ASSUME BookInv, Beside
    PROVE  /\ HandlerOK => HandlerOK'
           /\ SweepInv => SweepInv'
           /\ Keeps
<1>0. TypeInv /\ UNCHANGED <<grids, meta, polled>>
  BY DEF BookInv, Beside
<1>1. /\ UNCHANGED <<job.pc, job.verdict, job.here, job.left, job.side, job.todo, job.cur,
                     job.wait, job.snap, job.bar, job.answer>>
      /\ job'.barrier \in {job.barrier, Passed}
  BY <1>0 DEF Beside, TypeInv, TypeOK, ControlType, Job
<1>2. HandlerOK => HandlerOK'
  BY <1>0, <1>1 DEF HandlerOK, Passed
<1>3. SweepInv => SweepInv'
  BY <1>0, <1>1, SweepStays DEF HasMeta
<1> QED  BY <1>0, <1>2, <1>3, SameBook

LEMMA ViewStep ==
    ASSUME TypeInv, CleanView, Forward, clean'.snap \in Answers
    PROVE  CleanView'
<1>1. SnapshotOK(CurrentSnapshot, Used, Filled)
  BY DEF SnapshotOK, CurrentSnapshot, Positions, WorkingOrders, Used, Filled
<1>2. SnapshotOK(clean'.snap, Used, Filled)
  BY <1>1 DEF CleanView, Answers, SnapshotOK
<1> QED  BY <1>2, SnapshotForward DEF CleanView

SessionInv == CleanType /\ CleanView /\ BookInv /\ HandlerOK /\ SweepInv

LEMMA SessionStart == SessionInit => SessionInv
<1> SUFFICES ASSUME SessionInit PROVE SessionInv
  OBVIOUS
<1>1. C!Recovering \in C!Clean
  BY DEF C!Recovering, C!Asleep, C!Clean, C!OrderOrNone
<1>2. CleanType
  BY <1>1 DEF SessionInit, C!OrchestratorInit, CleanType
<1>3. SweepInv /\ CleanView
  <2>1. job.pc = "boot_pos"
    BY DEF SessionInit, Init, Idle
  <2>2. clean.snap = NoSnap
    BY DEF SessionInit, C!OrchestratorInit, C!Recovering, C!Asleep
  <2> QED  BY <2>1, <2>2 DEF SweepInv, Resolved, Resolving, Closing, Cancelling, CleanView,
              SnapshotOK
<1> QED  BY <1>2, <1>3, BookInit, HandlerInit DEF SessionInit, SessionInv

LEMMA SessionKeeps == SessionInv /\ [SessionNext]_sessionVars => SessionInv'
<1> SUFFICES ASSUME SessionInv, [SessionNext]_sessionVars PROVE SessionInv'
  OBVIOUS
<1>1. TypeInv /\ CleanType /\ CleanView /\ BookInv /\ HandlerOK /\ SweepInv
  BY DEF SessionInv, BookInv
<1>2. CleanType' /\ clean'.snap \in Answers /\ ([Next]_vars \/ Beside)
  BY <1>1, SessionStep
<1>0. CleanView'
  <2>1. Forward
    <3>1. CASE Beside
      <4>1. UNCHANGED order
        BY <3>1 DEF Beside
      <4> QED  BY <4>1 DEF Forward, Used, Filled
    <3>2. CASE [Next]_vars
      BY <1>1, <3>2, StepForward DEF BookInv
    <3> QED  BY <1>2, <3>1, <3>2
  <2> QED  BY <1>1, <1>2, <2>1, ViewStep
<1>3. CASE [Next]_vars
  BY <1>0, <1>1, <1>2, <1>3, BookStep, HandlerStep, SweepStep DEF SessionInv
<1>4. CASE Beside
  BY <1>0, <1>1, <1>2, <1>4, BesideBook, BesideHandler DEF SessionInv
<1> QED  BY <1>2, <1>3, <1>4

LEMMA SessionCorrect == SessionSpec => []SessionInv
BY SessionStart, SessionKeeps, PTL DEF SessionSpec

(* Beside the cleanup task too every variable keeps its type, the locals   *)
(* of that task with it, and an order counts as old at the broker only     *)
(* while it rests there.                                                   *)
THEOREM SessionTypeCorrect == SessionSpec => []SessionTypeOK
<1>1. SessionInv => SessionTypeOK
  BY DEF SessionInv, CleanType, BookInv, TypeInv, TypeOK, SessionTypeOK
<1> QED  BY <1>1, SessionCorrect, PTL

(* The cleanup task untracks and cancels orders the engine has levels and  *)
(* metadata of, takes the answer to a cancel away from it, and leaves it   *)
(* another Reconcile answer: the grid book stays in order all the same.    *)
THEOREM SessionKeepsBook == SessionSpec => [](CidUnique /\ MetaHasLevel /\ FilledLevelsAreReal)
<1>1. SessionInv => CidUnique /\ MetaHasLevel /\ FilledLevelsAreReal
  BY DEF SessionInv, BookInv, BookOK, GridOK, LevelOK, HasPending, IsPending, Filled, CidUnique,
     MetaHasLevel, FilledLevelsAreReal
<1> QED  BY <1>1, SessionCorrect, PTL

LEMMA SessionWay ==
    ASSUME OneWay
    PROVE  SessionSpec => [](SessionInv /\ OwnOK)
<1>1. SessionInit => OwnOK
  BY OwnInit DEF SessionInit
<1>2. SessionInv /\ OwnOK /\ [SessionNext]_sessionVars => OwnOK'
  <2> SUFFICES ASSUME SessionInv, OwnOK, [SessionNext]_sessionVars PROVE OwnOK'
    OBVIOUS
  <2>1. [Next]_vars \/ Beside
    BY SessionStep DEF SessionInv, BookInv
  <2>2. Move
    BY <2>1, MoveStep, BesideHandler DEF SessionInv, Move
  <2> QED  BY <2>2, OwnStep DEF SessionInv
<1> QED  BY <1>1, <1>2, SessionCorrect, PTL DEF SessionSpec

(* Where all orders of a pair go one way, also an order that the cleanup   *)
(* has ended is found by the TTL check and by the sweeps before positions  *)
(* are closed: its pending level has metadata, and none of either is left  *)
(* when they are listed.                                                   *)
THEOREM SessionFindsPending ==
    ASSUME OneWay
    PROVE  SessionSpec => [](PendingHasMeta /\ NothingPendingWhenClosing)
<1>1. ASSUME SessionInv, OwnOK
      PROVE  PendingHasMeta /\ NothingPendingWhenClosing
  <2>1. PendingHasMeta
    BY <1>1, PendingFound DEF SessionInv
  <2>2. job.pc \in Closing => Clear
    BY <1>1 DEF SessionInv, SweepInv, Resolved
  <2> QED  BY <1>1, <2>1, <2>2, ClosesEmpty DEF SessionInv
<1> QED  BY <1>1, SessionWay, PTL
=============================================================================
