------------------------- MODULE DualGridBook_proofs -------------------------
(***************************************************************************)
(* The safety of the grid book: client order ids stay unique, metadata     *)
(* has its pending level, and levels that are taken for open name orders   *)
(* that were filled.  The three are invariant together only with the       *)
(* bookkeeping below: what the handler has seen of the broker is never     *)
(* taken back by it, and an order that is about to be placed has no level. *)
(***************************************************************************)
EXTENDS DualGridTypes_proofs

Filled == {o \in Orders : order[o] \in {"open", "closed"}}
Used == {o \in Orders : order[o] # "free"}

LevelOK(p, level, used, filled) ==
    /\ level.cid # NoOrder => level.cid \in used
    /\ IsPending(level) => level.cid # NoOrder /\ level.price = PriceOf[level.cid]
    /\ ~IsPending(level) => level.pid \in filled /\ PairOf[level.pid] = p

GridOK(p, grid, used, filled) ==
    /\ grid \in Seq(Level)
    /\ UniqueCids(grid)
    /\ \A i \in DOMAIN grid : LevelOK(p, grid[i], used, filled)

HasPending(grid, o) == \E i \in DOMAIN grid : grid[i].cid = o /\ IsPending(grid[i])

(* Every grid is in order, and metadata has its level. *)
BookOK ==
    /\ \A p \in Pairs, d \in Dirs : GridOK(p, grids[p][d], Used, Filled)
    /\ \A o \in Orders : HasMeta(o) => HasPending(OwnGrid(o), o)

(* A Reconcile answer, fresh, cached or timed out, lists nothing that was  *)
(* not filled, or not sent.                                                *)
SnapshotOK(snap, used, filled) ==
    snap # NoSnap => snap.pos \subseteq filled /\ snap.ords \subseteq used

ViewOK ==
    /\ SnapshotOK(job.snap, Used, Filled)
    /\ SnapshotOK(cache, Used, Filled)
    /\ job.pc \in {"drop", "link", "boot_link"} => job.todo \subseteq Filled
    /\ job.pc = "boot_ord" => job.todo \subseteq Used
    /\ \A i \in DOMAIN events : events[i].type = "FILLED" => events[i].ord \in Filled

PlacingOK ==
    /\ job.pc = "dup" => order[job.cur] = "free"
    /\ job.pc = "place" => /\ job.cur \in Used
                           /\ \A p \in Pairs, d \in Dirs : ~HasCid(grids[p][d], job.cur)

BookInv == TypeInv /\ BookOK /\ ViewOK /\ PlacingOK

-----------------------------------------------------------------------------
(* The broker never takes an order back. *)
Forward == Used \subseteq Used' /\ Filled \subseteq Filled'

(* The orders and the events stay, or a placement goes out. *)
Quiet == UNCHANGED <<order, events>>
Sends == Place /\ order' = [order EXCEPT ![job.cur] = "sent"] /\ UNCHANGED events

(* What every step of the engine has in common: it leaves the orders and   *)
(* the events alone, or sends a placement; it waits for the handler to     *)
(* have read what came before an answer; it takes the steps after the      *)
(* answer of a bar in their order; and it forgets no pair it has polled    *)
(* while an answer is cached.                                              *)
Calm ==
    /\ Quiet \/ Sends
    /\ cache' \in {cache, NoSnap}
    /\ job.pc \in Fetching => job.barrier = 0
    /\ job.pc = "rec" => Reconcile
    /\ job.pc = "drop" => DropStale \/ Dropped
    /\ job.pc = "link" => Linked \/ Link
    /\ polled \subseteq polled' \/ cache' = NoSnap

LEMMA LinkCalm == ASSUME Link PROVE Calm
<1> USE DEF Calm, Quiet, Fetching, Answered, pollVars, brokerVars, RequestCancel, RequestClose
<1>1. ASSUME NEW o \in Orders, LinkPosition(o) PROVE Calm
  BY <1>1 DEF LinkPosition, Link
<1> HIDE DEF Calm
<1> QED  BY <1>1 DEF Link

LEMMA BootstrapCalm == ASSUME Bootstrap PROVE Calm
<1> USE DEF Calm, Quiet, Fetching, Answered, pollVars, brokerVars, RequestCancel, RequestClose
<1>1. CASE BootPositions
  BY <1>1 DEF BootPositions
<1>2. CASE BootLinked
  BY <1>2 DEF BootLinked
<1>3. CASE BootOrders
  BY <1>3 DEF BootOrders
<1>4. CASE BootDone
  BY <1>4 DEF BootDone
<1>5. ASSUME NEW o \in Orders, RestorePending(o) PROVE Calm
  BY <1>5 DEF RestorePending
<1> HIDE DEF Calm
<1> QED  BY <1>1, <1>2, <1>3, <1>4, <1>5 DEF Bootstrap

LEMMA RefreshCalm == ASSUME Refresh PROVE Calm
<1> USE DEF Calm, Quiet, Fetching, Answered, pollVars, brokerVars, RequestCancel, RequestClose
<1>1. CASE NextCycle
  BY <1>1 DEF NextCycle
<1>2. ASSUME NEW p \in Pairs, StartBar(p) PROVE Calm
  BY <1>2 DEF StartBar
<1>3. CASE Reconcile
  BY <1>3 DEF Reconcile
<1>4. CASE DropStale
  BY <1>4 DEF DropStale
<1>5. CASE Dropped
  BY <1>5 DEF Dropped
<1>6. CASE Linked
  BY <1>6 DEF Linked
<1>7. ASSUME NEW o \in Orders, TtlCancel(o) PROVE Calm
  BY <1>7 DEF TtlCancel
<1>8. CASE TtlCancelled
  BY <1>8 DEF TtlCancelled
<1>9. CASE TtlDone
  BY <1>9 DEF TtlDone
<1>10. ASSUME NEW v \in Verdicts, Assess(v) PROVE Calm
  BY <1>10 DEF Assess
<1>11. CASE AssessFails
  BY <1>11 DEF AssessFails
<1> HIDE DEF Calm
<1> QED  BY <1>1, <1>2, <1>3, <1>4, <1>5, <1>6, <1>7, <1>8, <1>9, <1>10, <1>11 DEF Refresh

LEMMA CancelPendingCalm == ASSUME CancelPending PROVE Calm
<1> USE DEF Calm, Quiet, Fetching, Answered, pollVars, brokerVars, RequestCancel, RequestClose
<1>1. CASE CancelAll
  BY <1>1 DEF CancelAll
<1>2. CASE CancelledTracked
  BY <1>2 DEF CancelledTracked
<1>3. CASE TrackedTimesOut
  BY <1>3 DEF TrackedTimesOut
<1>4. CASE CancelDirect
  BY <1>4 DEF CancelDirect
<1>5. CASE CancelledOwn
  BY <1>5 DEF CancelledOwn
<1>6. CASE CancelAllDone
  BY <1>6 DEF CancelAllDone
<1>7. ASSUME NEW o \in Orders, CancelTracked(o) PROVE Calm
  BY <1>7 DEF CancelTracked
<1> HIDE DEF Calm
<1> QED  BY <1>1, <1>2, <1>3, <1>4, <1>5, <1>6, <1>7 DEF CancelPending

LEMMA ClosePositionsCalm == ASSUME ClosePositions PROVE Calm
<1> USE DEF Calm, Quiet, Fetching, Answered, pollVars, brokerVars, RequestCancel, RequestClose
<1>1. CASE ResolveStart
  BY <1>1 DEF ResolveStart
<1>2. CASE ResolveCancelled
  BY <1>2 DEF ResolveCancelled
<1>3. CASE ResolveDone
  BY <1>3 DEF ResolveDone
<1>4. ASSUME NEW o \in Orders, ResolveLevel(o) PROVE Calm
  BY <1>4 DEF ResolveLevel
<1>5. ASSUME NEW o \in Orders, ClosePosition(o) PROVE Calm
  BY <1>5 DEF ClosePosition
<1>6. CASE ListPositions
  BY <1>6 DEF ListPositions
<1>7. CASE CloseVerified
  BY <1>7 DEF CloseVerified
<1>8. CASE CloseAgain
  BY <1>8 DEF CloseAgain
<1>9. CASE CloseFails
  BY <1>9 DEF CloseFails
<1>10. CASE CloseDone
  BY <1>10 DEF CloseDone
<1> HIDE DEF Calm
<1> QED  BY <1>1, <1>2, <1>3, <1>4, <1>5, <1>6, <1>7, <1>8, <1>9, <1>10 DEF ClosePositions

LEMMA OpenLevelCalm == ASSUME OpenLevel PROVE Calm
<1> USE DEF Calm, Quiet, Fetching, Answered, pollVars, brokerVars, RequestCancel, RequestClose
<1>1. CASE NoSignal
  BY <1>1 DEF NoSignal
<1>2. CASE SkipDuplicate
  BY <1>2 DEF SkipDuplicate
<1>3. CASE Place
  BY <1>3 DEF Place, Sends
<1>4. CASE Placed
  BY <1>4 DEF Placed
<1>5. CASE PlaceFails
  BY <1>5 DEF PlaceFails
<1>6. ASSUME NEW o \in Orders, Signal(o) PROVE Calm
  BY <1>6 DEF Signal
<1> HIDE DEF Calm
<1> QED  BY <1>1, <1>2, <1>3, <1>4, <1>5, <1>6 DEF OpenLevel

LEMMA EngineCalm == ASSUME Engine PROVE Calm
BY LinkCalm, BootstrapCalm, RefreshCalm, CancelPendingCalm, ClosePositionsCalm, OpenLevelCalm
   DEF Engine

LEMMA StepForward ==
    ASSUME TypeInv, PlacingOK, [Next]_vars
    PROVE  Forward
<1>1. CASE UNCHANGED order
  BY <1>1 DEF Forward, Used, Filled
<1>2. CASE BrokerStep
  <2>1. PICK o \in Orders, from \in {"sent", "working", "open"}, to \in OrderStates,
             type \in EventTypes :
          /\ Turn(o, from, to, type) /\ to # "free"
          /\ from = "open" => to = "closed"
    BY <1>2 DEF BrokerStep, Accept, Reject, Fill, Expire, StopOut, ServeCancel,
                ServeClose, OrderStates, EventTypes
  <2> QED  BY <2>1 DEF Turn, Forward, Used, Filled, TypeInv, TypeOK, BrokerType
<1>3. CASE Place
  <2>1. job.cur \in Orders /\ order[job.cur] = "free"
    BY <1>3 DEF Place, Answered, PlacingOK, TypeInv, LocalsOK
  <2> QED  BY <1>3, <2>1 DEF Place, Forward, Used, Filled, TypeInv, TypeOK, BrokerType
<1>4. UNCHANGED order \/ BrokerStep \/ Place
  <2>1. CASE Engine
    BY <2>1, EngineCalm DEF Calm, Quiet, Sends
  <2>2. CASE Deliver
    BY <2>2 DEF Deliver, OnAccepted, OnFilled, OnExpired, OnCancelled, OnError, OnClosed,
         Handle
  <2>3. CASE ServeReconcile \/ CacheExpires \/ Crash \/ \E o \in Orders : Age(o)
    BY <2>3 DEF ServeReconcile, CacheExpires, Crash, Age, brokerVars
  <2>4. CASE Outside
    BY <2>4 DEF Outside
  <2>5. CASE UNCHANGED vars
    BY <2>5 DEF vars, brokerVars
  <2> QED  BY <2>1, <2>2, <2>3, <2>4, <2>5 DEF Next
<1> QED  BY <1>1, <1>2, <1>3, <1>4

LEMMA GridForward ==
    ASSUME Forward, NEW p, NEW grid, GridOK(p, grid, Used, Filled)
    PROVE  GridOK(p, grid, Used', Filled')
BY DEF Forward, GridOK, LevelOK

-----------------------------------------------------------------------------
(* What may become of the grids *)

(* The grids stay, metadata at most goes. *)
LEMMA BookKept ==
    ASSUME BookOK, Forward, UNCHANGED grids, \A o \in Orders : HasMeta(o)' => HasMeta(o)
    PROVE  BookOK'
BY GridForward DEF BookOK, OwnGrid

(* One grid changes, and keeps the pending level of every order whose      *)
(* metadata stays.                                                         *)
LEMMA BookChanged ==
    ASSUME TypeInv, BookOK, Forward, NEW p \in Pairs, NEW d \in Dirs, NEW g,
           grids' = [grids EXCEPT ![p][d] = g],
           GridOK(p, g, Used', Filled'),
           \A o \in Orders : HasMeta(o)' =>
             \/ HasMeta(o) /\ (PairOf[o] # p \/ DirOf[o] # d)
             \/ PairOf[o] = p /\ DirOf[o] = d /\ HasPending(g, o)
    PROVE  BookOK'
<1>1. \A q \in Pairs, e \in Dirs :
        grids'[q][e] = IF q = p /\ e = d THEN g ELSE grids[q][e]
  BY DEF TypeInv, TypeOK, BookType
<1>2. \A q \in Pairs, e \in Dirs : GridOK(q, grids'[q][e], Used', Filled')
  BY <1>1, GridForward DEF BookOK
<1>3. ASSUME NEW o \in Orders, HasMeta(o)'
      PROVE  HasPending(OwnGrid(o), o)'
  <2>1. PairOf[o] \in Pairs /\ DirOf[o] \in Dirs
    BY TermsAssumption
  <2> QED  BY <1>1, <1>3, <2>1 DEF BookOK, OwnGrid, HasPending
<1> QED  BY <1>2, <1>3 DEF BookOK

-----------------------------------------------------------------------------
(* The operations on one grid that is in order *)

LEMMA GridCidDropped ==
    ASSUME NEW p, NEW used, NEW filled, NEW grid, GridOK(p, grid, used, filled), NEW o
    PROVE  /\ GridOK(p, DropCid(grid, o), used, filled)
           /\ \A c : (HasPending(grid, c) /\ c # o) => HasPending(DropCid(grid, o), c)
<1>1. grid \in Seq(Level)
  BY DEF GridOK
<1>2. GridOK(p, DropCid(grid, o), used, filled)
  BY <1>1, DropCidProperties DEF GridOK
<1>3. ASSUME NEW c, HasPending(grid, c), c # o
      PROVE  HasPending(DropCid(grid, o), c)
  <2>1. PICK j \in DOMAIN grid : grid[j].cid = c /\ IsPending(grid[j])
    BY <1>3 DEF HasPending
  <2>2. PICK k \in DOMAIN DropCid(grid, o) : DropCid(grid, o)[k] = grid[j]
    BY <1>1, <1>3, <2>1, DropCidProperties
  <2> QED  BY <2>1, <2>2 DEF HasPending
<1> QED  BY <1>2, <1>3

LEMMA GridPidDropped ==
    ASSUME NEW p, NEW used, NEW filled, NEW grid, GridOK(p, grid, used, filled),
           NEW b, b # NoOrder
    PROVE  /\ GridOK(p, DropPid(grid, b), used, filled)
           /\ \A c : HasPending(grid, c) => HasPending(DropPid(grid, b), c)
<1>1. grid \in Seq(Level)
  BY DEF GridOK
<1>2. GridOK(p, DropPid(grid, b), used, filled)
  BY <1>1, DropPidProperties DEF GridOK
<1>3. ASSUME NEW c, HasPending(grid, c)
      PROVE  HasPending(DropPid(grid, b), c)
  <2>1. PICK j \in DOMAIN grid : grid[j].cid = c /\ IsPending(grid[j])
    BY <1>3 DEF HasPending
  <2>2. grid[j].pid # b
    BY <2>1 DEF IsPending
  <2>3. PICK k \in DOMAIN DropPid(grid, b) : DropPid(grid, b)[k] = grid[j]
    BY <1>1, <2>1, <2>2, DropPidProperties
  <2> QED  BY <2>1, <2>3 DEF HasPending
<1> QED  BY <1>2, <1>3

LEMMA GridLinked ==
    ASSUME NEW used, NEW filled, NEW b \in Orders, b \in filled,
           NEW grid, GridOK(PairOf[b], grid, used, filled), NEW i \in DOMAIN grid
    PROVE  /\ GridOK(PairOf[b], SetPid(grid, i, b), used, filled)
           /\ \A c : (HasPending(grid, c) /\ c # grid[i].cid)
                        => HasPending(SetPid(grid, i, b), c)
<1> DEFINE g == SetPid(grid, i, b)
<1>1. grid \in Seq(Level) /\ b \in OrderOrNone /\ b # NoOrder /\ UniqueCids(grid)
  BY NoOrderAssumption DEF GridOK, OrderOrNone
<1>2. g \in Seq(Level) /\ DOMAIN g = DOMAIN grid /\ UniqueCids(g)
  BY <1>1, SetPidProperties
<1>3. \A j \in DOMAIN grid : j # i => g[j] = grid[j]
  BY <1>1 DEF SetPid
<1>4. g[i].cid = grid[i].cid /\ g[i].pid = b
  <2>1. g[i] = [grid[i] EXCEPT !.pid = b] /\ grid[i] \in Level
    BY <1>1, SetPidProperties
  <2> QED  BY <2>1 DEF Level
<1> HIDE DEF g
<1>5. \A j \in DOMAIN g : LevelOK(PairOf[b], g[j], used, filled)
  BY <1>1, <1>2, <1>3, <1>4 DEF GridOK, LevelOK, IsPending
<1>6. \A c : (HasPending(grid, c) /\ c # grid[i].cid) => HasPending(g, c)
  BY <1>2, <1>3 DEF HasPending
<1> QED  BY <1>2, <1>5, <1>6 DEF GridOK, g

LEMMA GridAdded ==
    ASSUME NEW p, NEW used, NEW filled, NEW grid, GridOK(p, grid, used, filled),
           NEW level \in Level, LevelOK(p, level, used, filled),
           level.cid = NoOrder \/ ~HasCid(grid, level.cid)
    PROVE  /\ GridOK(p, AddLevel(grid, level), used, filled)
           /\ \A c : (HasPending(grid, c) \/ (level.cid = c /\ IsPending(level)))
                        => HasPending(AddLevel(grid, level), c)
<1> DEFINE g == AddLevel(grid, level)
<1>1. grid \in Seq(Level) /\ UniqueCids(grid)
  BY DEF GridOK
<1>2. g \in Seq(Level) /\ UniqueCids(g)
  BY <1>1, AddLevelProperties
<1>3. \A k \in DOMAIN g : g[k] = level \/ (k \in DOMAIN grid /\ g[k] = grid[k])
  BY <1>1, AddLevelProperties
<1>4. \A j \in DOMAIN grid : j \in DOMAIN g /\ g[j] = grid[j]
  BY <1>1, AddLevelProperties
<1>5. \E k \in DOMAIN g : g[k] = level
  BY <1>1, AddLevelProperties
<1> HIDE DEF g
<1>6. \A k \in DOMAIN g : LevelOK(p, g[k], used, filled)
  BY <1>3 DEF GridOK
<1>7. \A c : (HasPending(grid, c) \/ (level.cid = c /\ IsPending(level)))
               => HasPending(g, c)
  BY <1>4, <1>5 DEF HasPending
<1> QED  BY <1>2, <1>6, <1>7 DEF GridOK, g

-----------------------------------------------------------------------------
(* The same in the book *)

(* _remove_pending_level *)
LEMMA BookRemoved ==
    ASSUME TypeInv, BookOK, Forward, NEW o, RemovePendingLevel(o)
    PROVE  BookOK'
<1> DEFINE p == PairOf[o]
           d == CidHome(o)
           g == DropCid(grids[p][d], o)
<1>1. grids' = [grids EXCEPT ![p][d] = g] /\ \A c \in Orders : HasMeta(c)' => HasMeta(c) /\ c # o
  BY DEF RemovePendingLevel, HasMeta, WithoutMeta, NoMeta
<1>2. d \in Dirs
  BY DEF CidHome, Dirs
<1>3. CASE p \in Pairs
  <2>1. GridOK(p, grids[p][d], Used', Filled')
    BY <1>2, <1>3, GridForward DEF BookOK
  <2>2. GridOK(p, g, Used', Filled')
    BY <2>1, GridCidDropped
  <2>3. \A c \in Orders : HasMeta(c)' =>
          \/ HasMeta(c) /\ (PairOf[c] # p \/ DirOf[c] # d)
          \/ PairOf[c] = p /\ DirOf[c] = d /\ HasPending(g, c)
    BY <1>1, <2>1, GridCidDropped DEF BookOK, OwnGrid
  <2> HIDE DEF g, d, p
  <2> QED  BY <1>1, <1>2, <1>3, <2>2, <2>3, BookChanged
<1>4. CASE p \notin Pairs
  <2>1. UNCHANGED grids
    BY <1>1, <1>4 DEF TypeInv, TypeOK, BookType
  <2> QED  BY <1>1, <2>1, BookKept
<1> QED  BY <1>3, <1>4

(* A pending level is taken for an open one. *)
LEMMA BookLinked ==
    ASSUME TypeInv, BookOK, Forward, NEW d \in Dirs,
           NEW b \in Orders, b \in Filled, NEW i \in DOMAIN grids[PairOf[b]][d],
           grids' = [grids EXCEPT ![PairOf[b]][d] = SetPid(grids[PairOf[b]][d], i, b)],
           meta' = WithoutMeta(grids[PairOf[b]][d][i].cid)
    PROVE  BookOK'
<1> DEFINE g == SetPid(grids[PairOf[b]][d], i, b)
<1>0. PairOf[b] \in Pairs
  BY TermsAssumption
<1>1. GridOK(PairOf[b], grids[PairOf[b]][d], Used', Filled') /\ b \in Filled'
  BY <1>0, GridForward DEF BookOK, Forward
<1>2. GridOK(PairOf[b], g, Used', Filled')
  BY <1>1, GridLinked
<1>3. \A c \in Orders : HasMeta(c)' => HasMeta(c) /\ c # grids[PairOf[b]][d][i].cid
  BY DEF HasMeta, WithoutMeta, NoMeta
<1>4. \A c \in Orders : HasMeta(c)' =>
        \/ HasMeta(c) /\ (PairOf[c] # PairOf[b] \/ DirOf[c] # d)
        \/ PairOf[c] = PairOf[b] /\ DirOf[c] = d /\ HasPending(g, c)
  BY <1>1, <1>3, GridLinked DEF BookOK, OwnGrid
<1>5. grids' = [grids EXCEPT ![PairOf[b]][d] = g]
  OBVIOUS
<1> HIDE DEF g
<1> QED  BY <1>0, <1>2, <1>4, <1>5, BookChanged

(* A level is added. *)
LEMMA BookAdded ==
    ASSUME TypeInv, BookOK, Forward, NEW p \in Pairs, NEW d \in Dirs, NEW level \in Level,
           grids' = [grids EXCEPT ![p][d] = AddLevel(grids[p][d], level)],
           LevelOK(p, level, Used', Filled'),
           level.cid = NoOrder \/ ~HasCid(grids[p][d], level.cid),
           \A o \in Orders : HasMeta(o)' =>
             \/ HasMeta(o)
             \/ PairOf[o] = p /\ DirOf[o] = d /\ level.cid = o /\ IsPending(level)
    PROVE  BookOK'
<1> DEFINE g == AddLevel(grids[p][d], level)
<1>1. GridOK(p, grids[p][d], Used', Filled')
  BY GridForward DEF BookOK
<1>2. GridOK(p, g, Used', Filled')
  BY <1>1, GridAdded
<1>3. \A c : (HasPending(grids[p][d], c) \/ (level.cid = c /\ IsPending(level)))
               => HasPending(g, c)
  BY <1>1, GridAdded
<1>4. grids' = [grids EXCEPT ![p][d] = g]
  OBVIOUS
<1> HIDE DEF g
<1>5. \A c \in Orders : HasMeta(c)' =>
        \/ HasMeta(c) /\ (PairOf[c] # p \/ DirOf[c] # d)
        \/ PairOf[c] = p /\ DirOf[c] = d /\ HasPending(g, c)
  BY <1>3 DEF BookOK, OwnGrid
<1> QED  BY <1>2, <1>4, <1>5, BookChanged

(* Levels with a position id go. *)
LEMMA BookDropped ==
    ASSUME TypeInv, BookOK, Forward, NEW p, NEW d, NEW b, b # NoOrder,
           grids' = [grids EXCEPT ![p][d] = DropPid(grids[p][d], b)], UNCHANGED meta
    PROVE  BookOK'
<1> DEFINE g == DropPid(grids[p][d], b)
<1>1. CASE p \in Pairs /\ d \in Dirs
  <2>1. GridOK(p, grids[p][d], Used', Filled')
    BY <1>1, GridForward DEF BookOK
  <2>2. GridOK(p, g, Used', Filled') /\ \A c : HasPending(grids[p][d], c) => HasPending(g, c)
    BY <2>1, GridPidDropped
  <2>3. grids' = [grids EXCEPT ![p][d] = g]
    OBVIOUS
  <2> HIDE DEF g
  <2>4. \A c \in Orders : HasMeta(c)' =>
          \/ HasMeta(c) /\ (PairOf[c] # p \/ DirOf[c] # d)
          \/ PairOf[c] = p /\ DirOf[c] = d /\ HasPending(g, c)
    BY <2>2 DEF BookOK, OwnGrid, HasMeta
  <2> QED  BY <1>1, <2>2, <2>3, <2>4, BookChanged
<1>2. CASE ~(p \in Pairs /\ d \in Dirs)
  <2>1. UNCHANGED grids
    BY <1>2 DEF TypeInv, TypeOK, BookType
  <2> QED  BY <2>1, BookKept DEF HasMeta
<1> QED  BY <1>1, <1>2

-----------------------------------------------------------------------------
(* How the handler moves *)

(* It keeps the Reconcile answer it has, takes the cached one or drops it, *)
(* and it walks only over positions and orders that are there.             *)
JobMove ==
    /\ job'.snap \in {job.snap, cache, NoSnap}
    /\ job'.pc \in {"drop", "link", "boot_link"} => job'.todo \subseteq Filled
    /\ job'.pc = "boot_ord" => job'.todo \subseteq Used
    /\ job'.pc \notin {"dup", "place"}

LEMMA EngineEvents ==
    ASSUME Engine
    PROVE  UNCHANGED events /\ cache' \in {cache, NoSnap}
BY EngineCalm DEF Calm, Quiet, Sends

LEMMA SnapshotForward ==
    ASSUME Forward, NEW snap, SnapshotOK(snap, Used, Filled)
    PROVE  SnapshotOK(snap, Used', Filled')
BY DEF Forward, SnapshotOK

LEMMA HandlerView ==
    ASSUME ViewOK, Forward, Engine,
           job'.snap \in {job.snap, cache, NoSnap},
           job'.pc \in {"drop", "link", "boot_link"} => job'.todo \subseteq Filled,
           job'.pc = "boot_ord" => job'.todo \subseteq Used
    PROVE  ViewOK'
<1>1. UNCHANGED events /\ cache' \in {cache, NoSnap}
  BY EngineEvents
<1>2. SnapshotOK(job'.snap, Used', Filled') /\ SnapshotOK(cache', Used', Filled')
  <2>1. SnapshotOK(NoSnap, Used, Filled)
    BY DEF SnapshotOK
  <2>2. SnapshotOK(job'.snap, Used, Filled) /\ SnapshotOK(cache', Used, Filled)
    BY <1>1, <2>1 DEF ViewOK
  <2> QED  BY <2>2, SnapshotForward
<1>3. \A i \in DOMAIN events' : events'[i].type = "FILLED" => events'[i].ord \in Filled'
  BY <1>1 DEF ViewOK, Forward
<1> QED  BY <1>2, <1>3 DEF ViewOK, Forward

LEMMA EngineView ==
    ASSUME ViewOK, Forward, Engine, JobMove
    PROVE  ViewOK' /\ PlacingOK'
BY HandlerView DEF JobMove, PlacingOK

LEMMA SweepMove ==
    ASSUME NEW j \in Job, NEW pc, NEW pairs, NEW after,
           NEW next \in Sweep(j, pc, pairs, after)
    PROVE  next \in after \/ (next.pc = pc /\ next.snap = NoSnap)
<1>1. CASE pairs = {}
  BY <1>1 DEF Sweep
<1>2. CASE pairs # {}
  <2>1. PICK q \in pairs :
          next = [j EXCEPT !.pc = pc, !.here = q, !.left = pairs \ {q},
                           !.snap = NoSnap, !.todo = {}, !.cur = NoOrder,
                           !.wait = NoOrder, !.answer = "none"]
    BY <1>2, Zenon DEF Sweep
  <2> QED  BY <2>1 DEF Job
<1> QED  BY <1>1, <1>2

LEMMA SetOff ==
    ASSUME NEW j \in Job, NEW next, next \in StartCancelAll(j) \/ next \in StartResolve(j)
    PROVE  next.pc \in {"ca", "res"} /\ next.snap = NoSnap
BY SweepMove DEF StartCancelAll, StartResolve

(* _restore_broker_position keeps the book: an order whose metadata fits    *)
(* the position has a pending level that fits it too, and so the metadata  *)
(* never decides.                                                          *)
LEMMA NoMatchWithoutSlot ==
    ASSUME TypeInv, BookOK, NEW o \in Orders, NEW width, Slots(o, width) = {}
    PROVE  MatchOrNone(o, width) = NoOrder
<1>1. ASSUME NEW c \in Matches(o, width) PROVE FALSE
  <2>1. c \in Orders /\ HasMeta(c) /\ OwnGrid(c) = OwnGrid(o)
        /\ Near(PriceOf[c], EntryOf[o], width)
    BY DEF Matches, OwnGrid
  <2>2. PICK i \in DOMAIN OwnGrid(o) : OwnGrid(o)[i].cid = c /\ IsPending(OwnGrid(o)[i])
    BY <2>1 DEF BookOK, HasPending
  <2>3. LevelOK(PairOf[o], OwnGrid(o)[i], Used, Filled)
    BY <2>2, TermsAssumption DEF BookOK, GridOK, OwnGrid
  <2>4. OwnGrid(o)[i].price = PriceOf[c]
    BY <2>2, <2>3 DEF LevelOK
  <2>5. i \in Slots(o, width)
    BY <2>1, <2>2, <2>4 DEF Slots
  <2> QED  BY <2>5
<1>2. Cardinality(Matches(o, width)) = 0
  <2>1. Matches(o, width) = {}
    BY <1>1
  <2> QED  BY <2>1, FS_EmptySet
<1> QED  BY <1>2 DEF MatchOrNone

LEMMA BookRestored ==
    ASSUME TypeInv, BookOK, Forward, NEW o \in Orders, o \in Filled, NEW width,
           RestorePosition(o, width)
    PROVE  BookOK'
<1>0. PairOf[o] \in Pairs /\ DirOf[o] \in Dirs /\ EntryOf[o] \in Nat
  BY TermsAssumption
<1>1. CASE UNCHANGED <<grids, meta>>
  BY <1>1, BookKept DEF HasMeta
<1>2. ASSUME NEW i \in Slots(o, width),
             grids' = [grids EXCEPT ![PairOf[o]][DirOf[o]] = SetPid(@, i, o)],
             meta' = WithoutMeta(OwnGrid(o)[i].cid)
      PROVE  BookOK'
  <2>1. i \in DOMAIN grids[PairOf[o]][DirOf[o]]
    BY DEF Slots, OwnGrid
  <2>2. grids' = [grids EXCEPT ![PairOf[o]][DirOf[o]] =
                    SetPid(grids[PairOf[o]][DirOf[o]], i, o)]
    BY <1>2
  <2>3. meta' = WithoutMeta(grids[PairOf[o]][DirOf[o]][i].cid)
    BY <1>2 DEF OwnGrid
  <2> QED  BY <1>0, <2>1, <2>2, <2>3, BookLinked
<1>3. ASSUME Slots(o, width) = {},
             Adopt(o, NewLevel(NoOrder, o, EntryOf[o], StepOf(NoOrder))),
             meta' = WithoutMeta(NoOrder)
      PROVE  BookOK'
  <2> DEFINE level == NewLevel(NoOrder, o, EntryOf[o], StepOf(NoOrder))
  <2>1. StepOf(NoOrder) = 0
    BY NoOrderAssumption DEF StepOf
  <2>2. /\ level \in Level /\ level.cid = NoOrder /\ level.pid = o
        /\ ~IsPending(level)
    BY <1>0, <2>1, NoOrderAssumption DEF NewLevel, Level, OrderOrNone, IsPending
  <2>3. LevelOK(PairOf[o], level, Used', Filled')
    <3> HIDE DEF level
    <3> QED  BY <2>2 DEF LevelOK, Forward
  <2>4. \A c \in Orders : HasMeta(c)' => HasMeta(c)
    BY <1>3 DEF HasMeta, WithoutMeta, NoMeta
  <2>5. grids' = [grids EXCEPT ![PairOf[o]][DirOf[o]] =
                    AddLevel(grids[PairOf[o]][DirOf[o]], level)]
    BY <1>3 DEF Adopt
  <2> HIDE DEF level
  <2> QED  BY <1>0, <2>2, <2>3, <2>4, <2>5, BookAdded
<1> QED  BY <1>1, <1>2, <1>3, NoMatchWithoutSlot DEF RestorePosition

(* A pending level is added for an order that has none in that grid: in    *)
(* any grid of the pair, or in its own, with metadata for it.              *)
LEMMA PendingLevel ==
    ASSUME NEW used, NEW filled, NEW p, NEW o \in Orders, o \in used, NEW step \in Nat,
           NEW level, level = NewLevel(o, NoOrder, PriceOf[o], step)
    PROVE  /\ level \in Level /\ level.cid = o /\ IsPending(level)
           /\ LevelOK(p, level, used, filled)
<1>1. o # NoOrder /\ PriceOf[o] \in Nat
  BY TermsAssumption, NoOrderAssumption
<1>2. level.cid = o /\ level.pid = NoOrder /\ level.price = PriceOf[o]
  BY DEF NewLevel
<1>3. level \in Level
  BY <1>1 DEF NewLevel, Level, OrderOrNone
<1> QED  BY <1>1, <1>2, <1>3 DEF LevelOK, IsPending

LEMMA BookExpected ==
    ASSUME TypeInv, BookOK, Forward, NEW p \in Pairs, NEW d \in Dirs,
           NEW o \in Orders, o \in Used', NEW step \in Nat, ~HasCid(grids[p][d], o),
           grids' = [grids EXCEPT ![p][d] =
                       AddLevel(grids[p][d], NewLevel(o, NoOrder, PriceOf[o], step))],
           \A c \in Orders : HasMeta(c)' => HasMeta(c)
    PROVE  BookOK'
<1> DEFINE level == NewLevel(o, NoOrder, PriceOf[o], step)
<1>1. /\ level \in Level /\ level.cid = o /\ IsPending(level)
      /\ LevelOK(p, level, Used', Filled')
  BY PendingLevel, Zenon
<1>2. grids' = [grids EXCEPT ![p][d] = AddLevel(grids[p][d], level)]
  OBVIOUS
<1> HIDE DEF level
<1> QED  BY <1>1, <1>2, BookAdded

LEMMA BookOwnExpected ==
    ASSUME TypeInv, BookOK, Forward, NEW o \in Orders, o \in Used', NEW step \in Nat,
           ~HasCid(OwnGrid(o), o), Adopt(o, NewLevel(o, NoOrder, PriceOf[o], step)),
           \A c \in Orders : HasMeta(c)' => HasMeta(c) \/ c = o
    PROVE  BookOK'
<1> DEFINE level == NewLevel(o, NoOrder, PriceOf[o], step)
           p == PairOf[o]
           d == DirOf[o]
<1>1. /\ level \in Level /\ level.cid = o /\ IsPending(level)
      /\ LevelOK(p, level, Used', Filled')
  BY PendingLevel
<1>2. grids' = [grids EXCEPT ![p][d] = AddLevel(grids[p][d], level)]
  BY DEF Adopt
<1>3. p \in Pairs /\ d \in Dirs /\ ~HasCid(grids[p][d], level.cid)
  BY <1>1, TermsAssumption DEF OwnGrid
<1>4. \A c \in Orders : HasMeta(c)' =>
        HasMeta(c) \/ (PairOf[c] = p /\ DirOf[c] = d /\ level.cid = c /\ IsPending(level))
  BY <1>1
<1> HIDE DEF level, p, d
<1> QED  BY <1>1, <1>2, <1>3, <1>4, BookAdded

LEMMA LinkBook ==
    ASSUME BookInv, Forward, Link
    PROVE  BookOK' /\ JobMove
<1> USE DEF BookInv, JobMove, TypeInv, TypeOK, ControlType, LocalsOK, Job, Answered,
            Idle, ViewOK
<1>1. ASSUME NEW o \in Orders, LinkPosition(o) PROVE BookOK' /\ JobMove
  <2>1. JobMove
    BY <1>1 DEF LinkPosition
  <2>2. BookOK'
    <3>1. o \in Filled
      BY <1>1 DEF LinkPosition
    <3> QED  BY <1>1, <3>1, BookRestored DEF LinkPosition
  <2> QED  BY <2>1, <2>2
<1> QED  BY <1>1 DEF Link

LEMMA BootstrapBook ==
    ASSUME BookInv, Forward, Bootstrap
    PROVE  BookOK' /\ JobMove
<1> USE DEF BookInv, JobMove, TypeInv, TypeOK, ControlType, LocalsOK, Job, Answered,
            Idle, ViewOK
<1>1. CASE BootPositions
  <2>1. JobMove
    BY <1>1 DEF BootPositions, SnapshotOK
  <2>2. BookOK'
    BY <1>1, BookKept DEF BootPositions, BookInv, bookVars, HasMeta
  <2> QED  BY <2>1, <2>2
<1>2. CASE BootLinked
  <2>1. JobMove
    BY <1>2 DEF BootLinked
  <2>2. BookOK'
    BY <1>2, BookKept DEF BootLinked, BookInv, bookVars, HasMeta
  <2> QED  BY <2>1, <2>2
<1>3. CASE BootOrders
  <2>1. JobMove
    BY <1>3 DEF BootOrders, SnapshotOK
  <2>2. BookOK'
    BY <1>3, BookKept DEF BootOrders, BookInv, bookVars, HasMeta
  <2> QED  BY <2>1, <2>2
<1>4. CASE BootDone
  <2>1. JobMove
    BY <1>4 DEF BootDone
  <2>2. BookOK'
    BY <1>4, BookKept DEF BootDone, BookInv, bookVars, HasMeta
  <2> QED  BY <2>1, <2>2
<1>5. ASSUME NEW o \in Orders, RestorePending(o) PROVE BookOK' /\ JobMove
  <2>1. JobMove
    BY <1>5 DEF RestorePending
  <2>2. BookOK'
    <3>1. CASE UNCHANGED bookVars
      BY <3>1, BookKept DEF bookVars, HasMeta
    <3>2. CASE ~UNCHANGED bookVars
      <4>1. OwnGrid(o) = <<>> /\ Adopt(o, NewLevel(o, NoOrder, PriceOf[o], 0))
            /\ meta' = [meta EXCEPT ![o] = NewMeta(0)]
        BY <1>5, <3>2 DEF RestorePending
      <4>2. o \in Used'
        BY <1>5 DEF RestorePending, Forward
      <4>3. ~HasCid(OwnGrid(o), o)
        BY <4>1 DEF HasCid
      <4>4. \A c \in Orders : HasMeta(c)' => HasMeta(c) \/ c = o
        BY <4>1 DEF HasMeta, BookType
      <4>5. TypeInv /\ BookOK /\ 0 \in Nat
        OBVIOUS
      <4> QED  BY <4>1, <4>2, <4>3, <4>4, <4>5, BookOwnExpected
    <3> QED  BY <3>1, <3>2
  <2> QED  BY <2>1, <2>2
<1> QED  BY <1>1, <1>2, <1>3, <1>4, <1>5 DEF Bootstrap

LEMMA RefreshBook ==
    ASSUME BookInv, Forward, Refresh
    PROVE  BookOK' /\ JobMove
<1> USE DEF BookInv, JobMove, TypeInv, TypeOK, ControlType, LocalsOK, Job, Answered,
            Idle, ViewOK
<1>1. CASE NextCycle
  <2>1. JobMove
    BY <1>1 DEF NextCycle
  <2>2. BookOK'
    BY <1>1, BookKept DEF NextCycle, BookInv, bookVars, HasMeta
  <2> QED  BY <2>1, <2>2
<1>2. ASSUME NEW p \in Pairs, StartBar(p) PROVE BookOK' /\ JobMove
  <2>1. JobMove
    BY <1>2 DEF StartBar
  <2>2. BookOK'
    BY <1>2, BookKept DEF StartBar, BookInv, bookVars, HasMeta
  <2> QED  BY <2>1, <2>2
<1>3. CASE Reconcile
  <2>1. JobMove
    BY <1>3 DEF Reconcile, SnapshotOK
  <2>2. BookOK'
    BY <1>3, BookKept DEF Reconcile, BookInv, bookVars, HasMeta
  <2> QED  BY <2>1, <2>2
<1>4. CASE DropStale
  <2>1. JobMove
    BY <1>4 DEF DropStale
  <2>2. BookOK'
    <3>1. PICK d \in Dirs : \E i \in DOMAIN grids[job.bar][d] :
            /\ IsStale(grids[job.bar][d][i])
            /\ grids' = [grids EXCEPT ![job.bar][d] =
                           DropPid(grids[job.bar][d], grids[job.bar][d][i].pid)]
      BY <1>4 DEF DropStale
    <3>2. PICK i \in DOMAIN grids[job.bar][d] :
            /\ IsStale(grids[job.bar][d][i])
            /\ grids' = [grids EXCEPT ![job.bar][d] =
                           DropPid(grids[job.bar][d], grids[job.bar][d][i].pid)]
      BY <3>1
    <3>3. grids[job.bar][d][i].pid # NoOrder /\ UNCHANGED meta
      BY <1>4, <3>2 DEF DropStale, IsStale, IsPending
    <3> QED  BY <3>2, <3>3, BookDropped
  <2> QED  BY <2>1, <2>2
<1>5. CASE Dropped
  <2>1. JobMove
    BY <1>5 DEF Dropped
  <2>2. BookOK'
    BY <1>5, BookKept DEF Dropped, BookInv, bookVars, HasMeta
  <2> QED  BY <2>1, <2>2
<1>6. CASE Linked
  <2>1. JobMove
    BY <1>6 DEF Linked
  <2>2. BookOK'
    BY <1>6, BookKept DEF Linked, BookInv, bookVars, HasMeta
  <2> QED  BY <2>1, <2>2
<1>7. ASSUME NEW o \in Orders, TtlCancel(o) PROVE BookOK' /\ JobMove
  <2>1. JobMove
    BY <1>7 DEF TtlCancel
  <2>2. BookOK'
    <3>1. CASE UNCHANGED <<grids, meta>>
      BY <3>1, BookKept DEF HasMeta
    <3> QED  BY <1>7, <3>1, BookRemoved DEF TtlCancel
  <2> QED  BY <2>1, <2>2
<1>8. CASE TtlCancelled
  <2>1. JobMove
    BY <1>8 DEF TtlCancelled
  <2>2. BookOK'
    BY <1>8, BookRemoved DEF TtlCancelled, BookInv
  <2> QED  BY <2>1, <2>2
<1>9. CASE TtlDone
  <2>1. JobMove
    BY <1>9 DEF TtlDone
  <2>2. BookOK'
    BY <1>9, BookKept DEF TtlDone, BookInv, bookVars, HasMeta
  <2> QED  BY <2>1, <2>2
<1>10. ASSUME NEW v \in Verdicts, Assess(v) PROVE BookOK' /\ JobMove
  <2>1. JobMove
    <3> DEFINE j == [job EXCEPT !.verdict = v, !.snap = NoSnap]
    <3>1. j \in Job /\ [j EXCEPT !.pc = "sig"].pc = "sig"
          /\ [j EXCEPT !.pc = "sig"].snap = NoSnap
      BY EngineAssumption
    <3>2. \/ job' \in StartCancelAll(j) \/ job' \in StartResolve(j)
          \/ job' = [j EXCEPT !.pc = "sig"]
      BY <1>10 DEF Assess
    <3> HIDE DEF j, Job
    <3>3. job'.pc \in {"ca", "res", "sig"} /\ job'.snap = NoSnap
      BY <3>1, <3>2, SetOff
    <3> QED  BY <3>3
  <2>2. BookOK'
    BY <1>10, BookKept DEF Assess, BookInv, bookVars, HasMeta
  <2> QED  BY <2>1, <2>2
<1>11. CASE AssessFails
  <2>1. JobMove
    BY <1>11 DEF AssessFails
  <2>2. BookOK'
    BY <1>11, BookKept DEF AssessFails, BookInv, bookVars, HasMeta
  <2> QED  BY <2>1, <2>2
<1> QED  BY <1>1, <1>2, <1>3, <1>4, <1>5, <1>6, <1>7, <1>8, <1>9, <1>10, <1>11 DEF Refresh

LEMMA CancelPendingBook ==
    ASSUME BookInv, Forward, CancelPending
    PROVE  BookOK' /\ JobMove
<1> USE DEF BookInv, JobMove, TypeInv, TypeOK, ControlType, LocalsOK, Job, Answered,
            Idle, ViewOK
<1>1. CASE CancelAll
  <2>1. JobMove
    BY <1>1 DEF CancelAll
  <2>2. BookOK'
    BY <1>1, BookKept DEF CancelAll, BookInv, bookVars, HasMeta
  <2> QED  BY <2>1, <2>2
<1>2. CASE CancelledTracked
  <2>1. JobMove
    BY <1>2 DEF CancelledTracked
  <2>2. BookOK'
    BY <1>2, BookRemoved DEF CancelledTracked, BookInv
  <2> QED  BY <2>1, <2>2
<1>3. CASE TrackedTimesOut
  <2>1. JobMove
    BY <1>3 DEF TrackedTimesOut
  <2>2. BookOK'
    BY <1>3, BookKept DEF TrackedTimesOut, BookInv, bookVars, HasMeta
  <2> QED  BY <2>1, <2>2
<1>4. CASE CancelDirect
  <2>1. JobMove
    BY <1>4 DEF CancelDirect
  <2>2. BookOK'
    <3>1. CASE UNCHANGED <<grids, meta>>
      BY <3>1, BookKept DEF HasMeta
    <3> QED  BY <1>4, <3>1, BookRemoved DEF CancelDirect
  <2> QED  BY <2>1, <2>2
<1>5. CASE CancelledOwn
  <2>1. JobMove
    BY <1>5 DEF CancelledOwn
  <2>2. BookOK'
    BY <1>5, BookRemoved DEF CancelledOwn, BookInv
  <2> QED  BY <2>1, <2>2
<1>6. CASE CancelAllDone
  <2>1. JobMove
    <3> DEFINE j == [job EXCEPT !.here = NoPair, !.snap = NoSnap]
    <3>1. j \in Job
      BY DEF PairOrNone
    <3>2. /\ [j EXCEPT !.pc = "sig"].pc = "sig" /\ [j EXCEPT !.pc = "sig"].snap = NoSnap
          /\ [j EXCEPT !.pc = "cl_list"].pc = "cl_list"
          /\ [j EXCEPT !.pc = "cl_list"].snap = NoSnap
      OBVIOUS
    <3>3. \E after \in {{[j EXCEPT !.pc = "cl_list"]}, StartResolve(j),
                        {[j EXCEPT !.pc = "sig"]}} :
            job' \in Sweep(j, "ca", job.left, after)
      BY <1>6 DEF CancelAllDone
    <3> HIDE DEF j, Job
    <3>4. \/ job'.pc = "ca" /\ job'.snap = NoSnap
          \/ job' \in StartResolve(j)
          \/ job' = [j EXCEPT !.pc = "sig"] \/ job' = [j EXCEPT !.pc = "cl_list"]
      BY <3>1, <3>3, SweepMove
    <3>5. job'.pc \in {"ca", "res", "sig", "cl_list"} /\ job'.snap = NoSnap
      BY <3>1, <3>2, <3>4, SetOff
    <3> QED  BY <3>5
  <2>2. BookOK'
    BY <1>6, BookKept DEF CancelAllDone, BookInv, bookVars, HasMeta
  <2> QED  BY <2>1, <2>2
<1>7. ASSUME NEW o \in Orders, CancelTracked(o) PROVE BookOK' /\ JobMove
  <2>1. JobMove
    BY <1>7 DEF CancelTracked
  <2>2. BookOK'
    BY <1>7, BookKept DEF CancelTracked, BookInv, bookVars, HasMeta
  <2> QED  BY <2>1, <2>2
<1> QED  BY <1>1, <1>2, <1>3, <1>4, <1>5, <1>6, <1>7 DEF CancelPending

LEMMA ClosePositionsBook ==
    ASSUME BookInv, Forward, ClosePositions
    PROVE  BookOK' /\ JobMove
<1> USE DEF BookInv, JobMove, TypeInv, TypeOK, ControlType, LocalsOK, Job, Answered,
            Idle, ViewOK
<1>1. CASE ResolveStart
  <2>1. JobMove
    BY <1>1 DEF ResolveStart
  <2>2. BookOK'
    BY <1>1, BookKept DEF ResolveStart, BookInv, bookVars, HasMeta
  <2> QED  BY <2>1, <2>2
<1>2. CASE ResolveCancelled
  <2>1. JobMove
    BY <1>2 DEF ResolveCancelled
  <2>2. BookOK'
    BY <1>2, BookRemoved DEF ResolveCancelled, BookInv
  <2> QED  BY <2>1, <2>2
<1>3. CASE ResolveDone
  <2>1. JobMove
    <3> DEFINE j == [job EXCEPT !.here = NoPair, !.snap = NoSnap, !.side = "LONG"]
    <3>1. j \in Job
      BY DEF PairOrNone, Dirs
    <3>2. /\ [j EXCEPT !.pc = "cl_list"].pc = "cl_list"
          /\ [j EXCEPT !.pc = "cl_list"].snap = NoSnap
      OBVIOUS
    <3>3. \/ job' = [job EXCEPT !.side = "SHORT",
                                 !.todo = PendingCids(grids[job.here]["SHORT"])]
          \/ \E after \in {StartCancelAll(j), {[j EXCEPT !.pc = "cl_list"]}} :
               job' \in Sweep(j, "res", job.left, after)
      BY <1>3 DEF ResolveDone
    <3>4. CASE job' = [job EXCEPT !.side = "SHORT",
                                  !.todo = PendingCids(grids[job.here]["SHORT"])]
      BY <1>3, <3>4 DEF ResolveDone
    <3> HIDE DEF j, Job
    <3>5. ASSUME NEW after \in {StartCancelAll(j), {[j EXCEPT !.pc = "cl_list"]}},
                 job' \in Sweep(j, "res", job.left, after)
          PROVE  JobMove
      <4>1. \/ job'.pc = "res" /\ job'.snap = NoSnap
            \/ job' \in StartCancelAll(j) \/ job' = [j EXCEPT !.pc = "cl_list"]
        BY <3>1, <3>5, SweepMove
      <4>2. job'.pc \in {"ca", "res", "cl_list"} /\ job'.snap = NoSnap
        BY <3>1, <3>2, <4>1, SetOff
      <4> QED  BY <4>2
    <3> QED  BY <3>3, <3>4, <3>5
  <2>2. BookOK'
    BY <1>3, BookKept DEF ResolveDone, BookInv, bookVars, HasMeta
  <2> QED  BY <2>1, <2>2
<1>4. ASSUME NEW o \in Orders, ResolveLevel(o) PROVE BookOK' /\ JobMove
  <2>1. JobMove
    BY <1>4 DEF ResolveLevel
  <2>2. BookOK'
    <3> DEFINE grid == grids[job.here][job.side]
    <3>1. CASE UNCHANGED <<grids, meta>>
      BY <3>1, BookKept DEF HasMeta
    <3>2. CASE RemovePendingLevel(o)
      BY <3>2, BookRemoved
    <3>3. ASSUME NEW i \in DOMAIN grid, grid[i].cid = o, NEW b \in Candidates(grid[i]),
                 grids' = [grids EXCEPT ![job.here][job.side] = SetPid(grid, i, b)],
                 meta' = WithoutMeta(o)
          PROVE  BookOK'
      <4>1. b \in job.snap.pos /\ PairOf[b] = job.here /\ job.snap # NoSnap
        BY <1>4 DEF ResolveLevel, Candidates
      <4>2. b \in Filled /\ b \in Orders
        BY <4>1 DEF SnapshotOK, Filled
      <4>3. job.side \in Dirs /\ i \in DOMAIN grids[PairOf[b]][job.side]
        BY <4>1
      <4>4. grids' = [grids EXCEPT ![PairOf[b]][job.side] =
                        SetPid(grids[PairOf[b]][job.side], i, b)]
        BY <3>3, <4>1
      <4>5. meta' = WithoutMeta(grids[PairOf[b]][job.side][i].cid)
        BY <3>3, <4>1
      <4> QED  BY <4>2, <4>3, <4>4, <4>5, BookLinked
    <3>4. \/ UNCHANGED <<grids, meta>>
          \/ RemovePendingLevel(o)
          \/ \E i \in DOMAIN grid : \E b \in Candidates(grid[i]) :
               /\ grid[i].cid = o
               /\ grids' = [grids EXCEPT ![job.here][job.side] = SetPid(grid, i, b)]
               /\ meta' = WithoutMeta(o)
      BY <1>4 DEF ResolveLevel
    <3> HIDE DEF grid
    <3> QED  BY <3>1, <3>2, <3>3, <3>4
  <2> QED  BY <2>1, <2>2
<1>5. ASSUME NEW o \in Orders, ClosePosition(o) PROVE BookOK' /\ JobMove
  <2>1. JobMove
    BY <1>5 DEF ClosePosition
  <2>2. BookOK'
    BY <1>5, BookKept DEF ClosePosition, BookInv, bookVars, HasMeta
  <2> QED  BY <2>1, <2>2
<1>6. CASE ListPositions
  <2>1. JobMove
    BY <1>6 DEF ListPositions
  <2>2. BookOK'
    BY <1>6, BookKept DEF ListPositions, BookInv, bookVars, HasMeta
  <2> QED  BY <2>1, <2>2
<1>7. CASE CloseVerified
  <2>1. JobMove
    BY <1>7 DEF CloseVerified
  <2>2. BookOK'
    <3>1. job.cur # NoOrder
      BY <1>7, NoOrderAssumption DEF CloseVerified
    <3>2. grids' = [grids EXCEPT ![PairOf[job.cur]][PidHome(job.cur)] =
                      DropPid(grids[PairOf[job.cur]][PidHome(job.cur)], job.cur)]
          /\ UNCHANGED meta
      BY <1>7 DEF CloseVerified
    <3> QED  BY <3>1, <3>2, BookDropped
  <2> QED  BY <2>1, <2>2
<1>8. CASE CloseAgain
  <2>1. JobMove
    BY <1>8 DEF CloseAgain
  <2>2. BookOK'
    BY <1>8, BookKept DEF CloseAgain, BookInv, bookVars, HasMeta
  <2> QED  BY <2>1, <2>2
<1>9. CASE CloseFails
  <2>1. JobMove
    BY <1>9 DEF CloseFails
  <2>2. BookOK'
    BY <1>9, BookKept DEF CloseFails, BookInv, bookVars, HasMeta
  <2> QED  BY <2>1, <2>2
<1>10. CASE CloseDone
  <2>1. JobMove
    BY <1>10 DEF CloseDone
  <2>2. BookOK'
    BY <1>10, BookKept DEF CloseDone, BookInv, bookVars, HasMeta
  <2> QED  BY <2>1, <2>2
<1> QED  BY <1>1, <1>2, <1>3, <1>4, <1>5, <1>6, <1>7, <1>8, <1>9, <1>10 DEF ClosePositions

LEMMA OpenLevelBook ==
    ASSUME BookInv, Forward, OpenLevel
    PROVE  BookOK' /\ ViewOK' /\ PlacingOK'
<1> USE DEF BookInv, Answered
<1>0. Engine /\ TypeInv /\ BookOK /\ ViewOK /\ PlacingOK
  BY DEF Engine
<1>1. CASE NoSignal \/ PlaceFails
  <2>1. JobMove
    BY <1>1 DEF JobMove, NoSignal, PlaceFails, Idle
  <2>2. BookOK'
    BY <1>1, BookKept DEF NoSignal, PlaceFails, bookVars, HasMeta
  <2> QED  BY <1>0, <2>1, <2>2, EngineView
<1>2. CASE SkipDuplicate
  <2>1. JobMove
    BY <1>2 DEF JobMove, SkipDuplicate, Idle
  <2>2. ASSUME UNCHANGED grids PROVE BookOK'
    BY <1>0, <1>2, <2>2, BookKept DEF SkipDuplicate, HasMeta
  <2>3. ASSUME NEW o \in Duplicates, ~HasCid(grids[job.bar][DirOf[job.cur]], o),
               grids' = [grids EXCEPT ![job.bar][DirOf[job.cur]] =
                           AddLevel(@, NewLevel(o, NoOrder, PriceOf[o], meta[o].step))]
        PROVE  BookOK'
    <3> DEFINE d == DirOf[job.cur]
    <3>1. job.cur \in Orders /\ job.bar \in Pairs
      BY <1>0, <1>2, TermsAssumption DEF SkipDuplicate, TypeInv, LocalsOK, Duplicates,
         TypeOK, ControlType, Job, Snapshot
    <3>2. d \in Dirs
      BY <3>1, TermsAssumption
    <3>3. job.snap \in Snapshot /\ job.snap # NoSnap
      BY <1>0, <1>2 DEF SkipDuplicate, TypeInv, TypeOK, ControlType, Job
    <3>4. o \in Orders /\ o \in Used'
      BY <1>0, <2>3, <3>3 DEF Duplicates, Snapshot, ViewOK, SnapshotOK, Forward
    <3>5. meta[o].step \in Nat
      BY <1>0, <3>4 DEF TypeInv, TypeOK, BookType, Meta
    <3>6. grids' = [grids EXCEPT ![job.bar][d] =
                      AddLevel(grids[job.bar][d], NewLevel(o, NoOrder, PriceOf[o], meta[o].step))]
      BY <2>3
    <3>7. \A c \in Orders : HasMeta(c)' => HasMeta(c)
      BY <1>2 DEF SkipDuplicate, HasMeta
    <3>8. ~HasCid(grids[job.bar][d], o)
      BY <2>3
    <3> HIDE DEF d
    <3> QED  BY <1>0, <3>1, <3>2, <3>4, <3>5, <3>6, <3>7, <3>8, BookExpected
  <2>4. BookOK'
    BY <1>2, <2>2, <2>3 DEF SkipDuplicate
  <2> QED  BY <1>0, <2>1, <2>4, EngineView
<1>3. CASE Place
  <2>1. job.cur \in Orders /\ order[job.cur] = "free"
    BY <1>0, <1>3 DEF Place, PlacingOK, TypeInv, LocalsOK
  <2>2. job'.pc = "place" /\ job'.cur = job.cur /\ job'.snap = NoSnap
    BY <1>0, <1>3 DEF Place, TypeInv, TypeOK, ControlType, Job
  <2>3. order'[job.cur] = "sent" /\ UNCHANGED <<grids, meta>>
    BY <1>0, <1>3, <2>1 DEF Place, TypeInv, TypeOK, BrokerType, bookVars
  <2>4. BookOK'
    BY <1>0, <2>3, BookKept DEF HasMeta
  <2>5. ViewOK'
    BY <1>0, <2>2, HandlerView
  <2>6. job'.cur \in Used'
    BY <2>1, <2>2, <2>3 DEF Used
  <2>7. ASSUME NEW p \in Pairs, NEW d \in Dirs PROVE ~HasCid(grids[p][d], job.cur)
    <3>1. job.cur \notin Used /\ job.cur # NoOrder
      BY <2>1, NoOrderAssumption DEF Used
    <3> QED  BY <1>0, <3>1 DEF BookOK, GridOK, LevelOK, HasCid
  <2>8. \A p \in Pairs, d \in Dirs : ~HasCid(grids'[p][d], job'.cur)
    BY <2>2, <2>3, <2>7
  <2> QED  BY <2>2, <2>4, <2>5, <2>6, <2>8 DEF PlacingOK
<1>4. CASE Placed
  <2>1. JobMove
    BY <1>4 DEF JobMove, Placed, Idle
  <2>2. job.cur \in Orders /\ job.cur \in Used
    BY <1>0, <1>4 DEF Placed, PlacingOK, TypeInv, LocalsOK
  <2>3. ~HasCid(OwnGrid(job.cur), job.cur)
    BY <1>0, <1>4, <2>2, TermsAssumption DEF Placed, PlacingOK, OwnGrid
  <2>4. job.cur \in Used' /\ GridStep \in Nat
    BY <2>2, EngineAssumption DEF Forward
  <2>5. Adopt(job.cur, NewLevel(job.cur, NoOrder, PriceOf[job.cur], GridStep))
    BY <1>4 DEF Placed
  <2>6. \A c \in Orders : HasMeta(c)' => HasMeta(c) \/ c = job.cur
    BY <1>0, <1>4 DEF Placed, HasMeta, TypeInv, TypeOK, BookType
  <2>7. BookOK'
    BY <1>0, <2>2, <2>3, <2>4, <2>5, <2>6, BookOwnExpected
  <2> QED  BY <1>0, <2>1, <2>7, EngineView
<1>5. ASSUME NEW o \in Orders, Signal(o) PROVE BookOK' /\ ViewOK' /\ PlacingOK'
  <2>1. job'.pc = "dup" /\ job'.cur = o /\ job'.snap = job.snap
    BY <1>0, <1>5 DEF Signal, TypeInv, TypeOK, ControlType, Job
  <2>2. order'[o] = "free" /\ UNCHANGED <<grids, meta>>
    BY <1>5 DEF Signal, brokerVars, bookVars
  <2>3. BookOK'
    BY <1>0, <2>2, BookKept DEF HasMeta
  <2>4. ViewOK'
    BY <1>0, <2>1, HandlerView
  <2> QED  BY <2>1, <2>2, <2>3, <2>4 DEF PlacingOK
<1> QED  BY <1>1, <1>2, <1>3, <1>4, <1>5 DEF OpenLevel

LEMMA EngineBook ==
    ASSUME BookInv, Forward, Engine
    PROVE  BookOK' /\ ViewOK' /\ PlacingOK'
<1>1. CASE Link \/ Bootstrap \/ Refresh \/ CancelPending \/ ClosePositions
  <2>1. BookOK' /\ JobMove
    BY <1>1, LinkBook, BootstrapBook, RefreshBook, CancelPendingBook, ClosePositionsBook
  <2> QED  BY <2>1, EngineView DEF BookInv
<1>2. CASE OpenLevel
  BY <1>2, OpenLevelBook
<1> QED  BY <1>1, <1>2 DEF Engine

-----------------------------------------------------------------------------
(* What comes in from outside *)

(* An event wakes the coroutine, and moves it no further. *)
LEMMA DeliverView ==
    ASSUME TypeInv, ViewOK, Deliver
    PROVE  /\ ViewOK' /\ UNCHANGED order
           /\ UNCHANGED <<job.pc, job.cur>>
<1>1. PICK o \in Orders : OnAccepted(o) \/ OnFilled(o) \/ OnExpired(o) \/ OnCancelled(o)
                            \/ OnError(o) \/ OnClosed(o)
  BY DEF Deliver
<1>2. PICK type : Handle(type, o)
  BY <1>1 DEF OnAccepted, OnFilled, OnExpired, OnCancelled, OnError, OnClosed
<1>3. events \in Seq(Event) /\ events # <<>> /\ events' = Tail(events)
      /\ UNCHANGED <<order, cache>>
  BY <1>2 DEF Handle, TypeInv, TypeOK, BrokerType, pollVars
<1>4. PICK pcs, result : Resolve(pcs, o, result)
  BY <1>1 DEF OnAccepted, OnFilled, OnExpired, OnCancelled, OnError, OnClosed
<1>5. job'.pc = job.pc /\ job'.cur = job.cur /\ job'.snap = job.snap /\ job'.todo = job.todo
  BY <1>4 DEF Resolve, TypeInv, TypeOK, ControlType, Job
<1>6. Used' = Used /\ Filled' = Filled
  BY <1>3 DEF Used, Filled
<1>7. \A i \in DOMAIN events' : events'[i].type = "FILLED" => events'[i].ord \in Filled
  <2>1. ASSUME NEW i \in DOMAIN events'
        PROVE  i + 1 \in DOMAIN events /\ events'[i] = events[i + 1]
    BY <1>3
  <2> QED  BY <2>1 DEF ViewOK
<1> QED  BY <1>3, <1>5, <1>6, <1>7 DEF ViewOK

(* A fill links a level to its position, and leaves its order id alone. *)
LEMMA FilledBook ==
    ASSUME TypeInv, BookOK, Forward, NEW o \in Orders, o \in Filled, OnOrderFilled(o)
    PROVE  /\ BookOK'
           /\ \A p \in Pairs, d \in Dirs : \A c : HasCid(grids'[p][d], c) => HasCid(grids[p][d], c)
<1>1. CASE UNCHANGED <<grids, meta>>
  BY <1>1, BookKept DEF HasMeta
<1>2. CASE ~UNCHANGED <<grids, meta>>
  <2> DEFINE d == CidHome(o)
             grid == grids[PairOf[o]][d]
             i == IndexOfCid(grid, o)
             g == SetPid(grid, i, o)
  <2>1. HasCid(grid, o) /\ grids' = [grids EXCEPT ![PairOf[o]][d] = g]
        /\ meta' = WithoutMeta(o)
    BY <1>2 DEF OnOrderFilled
  <2>2. d \in Dirs /\ PairOf[o] \in Pairs
    BY TermsAssumption DEF CidHome, Dirs
  <2>3. i \in DOMAIN grid /\ grid[i].cid = o
    BY <2>1 DEF HasCid, IndexOfCid
  <2>4. BookOK'
    <3> HIDE DEF i, d
    <3> QED  BY <2>1, <2>2, <2>3, BookLinked
  <2>5. grid \in Seq(Level) /\ o \in OrderOrNone
    BY <2>2 DEF TypeInv, TypeOK, BookType, OrderOrNone
  <2>6. DOMAIN g = DOMAIN grid /\ \A j \in DOMAIN grid : g[j].cid = grid[j].cid
    <3>1. \A j \in DOMAIN grid : grid[j] \in Level /\ g[j] = IF j = i THEN [grid[i] EXCEPT !.pid = o] ELSE grid[j]
      BY <2>3, <2>5 DEF SetPid
    <3> QED  BY <3>1 DEF Level, SetPid
  <2>7. \A c : HasCid(g, c) => HasCid(grid, c)
    BY <2>6 DEF HasCid
  <2>8. \A q \in Pairs, e \in Dirs :
          grids'[q][e] = IF q = PairOf[o] /\ e = d THEN g ELSE grids[q][e]
    BY <2>1 DEF TypeInv, TypeOK, BookType
  <2> HIDE DEF g, i, d
  <2> QED  BY <2>4, <2>7, <2>8
<1> QED  BY <1>1, <1>2

LEMMA DeliverBook ==
    ASSUME BookInv, Forward, Deliver
    PROVE  BookOK' /\ ViewOK' /\ PlacingOK'
<1>0. TypeInv /\ BookOK /\ ViewOK /\ PlacingOK
  BY DEF BookInv
<1>1. ViewOK' /\ UNCHANGED order /\ UNCHANGED <<job.pc, job.cur>>
  BY <1>0, DeliverView
<1>2. BookOK' /\ \A p \in Pairs, d \in Dirs : \A c :
                   HasCid(grids'[p][d], c) => HasCid(grids[p][d], c)
  <2>1. ASSUME NEW o \in Orders, OnFilled(o)
        PROVE  o \in Filled /\ OnOrderFilled(o)
    <3>1. 1 \in DOMAIN events /\ events[1] = [type |-> "FILLED", ord |-> o]
      BY <1>0, <2>1 DEF OnFilled, Handle, TypeInv, TypeOK, BrokerType
    <3> QED  BY <1>0, <2>1, <3>1 DEF ViewOK, OnFilled
  <2>2. ASSUME NEW o \in Orders, OnFilled(o)
        PROVE  BookOK' /\ \A p \in Pairs, d \in Dirs : \A c :
                            HasCid(grids'[p][d], c) => HasCid(grids[p][d], c)
    BY <1>0, <2>1, <2>2, FilledBook
  <2>3. ASSUME NEW o \in Orders, OnAccepted(o) \/ OnExpired(o) \/ OnCancelled(o)
                                   \/ OnError(o) \/ OnClosed(o)
        PROVE  UNCHANGED <<grids, meta>>
    BY <2>3 DEF OnAccepted, OnExpired, OnCancelled, OnError, OnClosed, bookVars
  <2>4. UNCHANGED <<grids, meta>> \/ \E o \in Orders : OnFilled(o)
    BY <2>3 DEF Deliver
  <2>5. UNCHANGED <<grids, meta>> => BookOK'
    BY <1>0, BookKept DEF HasMeta
  <2> QED  BY <2>2, <2>4, <2>5
<1>3. PlacingOK'
  BY <1>0, <1>1, <1>2 DEF PlacingOK, Used
<1> QED  BY <1>1, <1>2, <1>3

LEMMA OutsideBook ==
    ASSUME BookInv, Forward, Outside
    PROVE  BookOK' /\ ViewOK' /\ PlacingOK'
<1>0. TypeInv /\ BookOK /\ ViewOK /\ PlacingOK /\ UNCHANGED <<grids, meta, job, cache>>
  BY DEF BookInv, Outside, bookVars, pollVars
<1>1. PICK o \in Orders, from \in {"sent", "working", "open"}, to \in OrderStates,
           type \in EventTypes :
        /\ Turn(o, from, to, type)
        /\ type = "FILLED" => to = "open"
  BY DEF Outside, BrokerStep, Accept, Reject, Fill, Expire, StopOut, ServeCancel,
         ServeClose, OrderStates, EventTypes
<1>2. order[o] # "free" /\ order' = [order EXCEPT ![o] = to]
  BY <1>1 DEF Turn
<1>3. type = "FILLED" => to = "open"
  BY <1>1
<1>4. events' = Append(events, [type |-> type, ord |-> o])
  BY <1>1 DEF Turn
<1>5. BookOK'
  BY <1>0, BookKept DEF HasMeta
<1>6. ViewOK'
  <2>1. SnapshotOK(job'.snap, Used', Filled') /\ SnapshotOK(cache', Used', Filled')
    BY <1>0, SnapshotForward DEF ViewOK
  <2>2. ASSUME NEW i \in DOMAIN events', events'[i].type = "FILLED"
        PROVE  events'[i].ord \in Filled'
    <3> DEFINE e == [type |-> type, ord |-> o]
    <3>1. events \in Seq(Event) /\ order \in [Orders -> OrderStates]
      BY <1>0 DEF TypeInv, TypeOK, BrokerType
    <3>2. e \in Event /\ events' = Append(events, e) /\ e.type = type /\ e.ord = o
      <4>1. e \in Event /\ e.type = type /\ e.ord = o
        BY DEF Event
      <4> QED  BY <1>4, <4>1
    <3> HIDE DEF e
    <3>3. (i \in DOMAIN events /\ events'[i] = events[i]) \/ events'[i] = e
      BY <3>1, <3>2
    <3>4. CASE i \in DOMAIN events /\ events'[i] = events[i]
      BY <1>0, <2>2, <3>4 DEF ViewOK, Forward
    <3>5. CASE events'[i] = e
      <4>1. to = "open"
        BY <1>3, <2>2, <3>2, <3>5
      <4>2. order'[o] = to
        BY <1>2, <3>1
      <4> QED  BY <3>2, <3>5, <4>1, <4>2 DEF Filled
    <3> QED  BY <3>3, <3>4, <3>5
  <2> QED  BY <1>0, <2>1, <2>2 DEF ViewOK, Forward
<1>7. PlacingOK'
  <2>1. job.pc = "dup" => order'[job.cur] = "free"
    <3>1. job.pc = "dup" => job.cur \in Orders /\ order \in [Orders -> OrderStates]
      BY <1>0 DEF TypeInv, TypeOK, BrokerType, LocalsOK
    <3> QED  BY <1>0, <1>2, <3>1 DEF PlacingOK
  <2> QED  BY <1>0, <2>1 DEF PlacingOK, Forward
<1> QED  BY <1>5, <1>6, <1>7

LEMMA ServeReconcileBook ==
    ASSUME BookInv, Forward, ServeReconcile
    PROVE  BookOK' /\ ViewOK' /\ PlacingOK'
<1>0. TypeInv /\ BookOK /\ ViewOK /\ PlacingOK /\ UNCHANGED <<grids, meta, order, events>>
  BY DEF BookInv, ServeReconcile, bookVars, brokerVars
<1>1. job'.pc = job.pc /\ job'.cur = job.cur /\ job'.todo = job.todo
  BY <1>0 DEF ServeReconcile, TypeInv, TypeOK, ControlType, Job
<1>2. job'.snap = cache' /\ cache' \in {CurrentSnapshot, [pos |-> {}, ords |-> {}]}
  BY <1>0 DEF ServeReconcile, TypeInv, TypeOK, ControlType, Job
<1>3. SnapshotOK(cache', Used', Filled')
  BY <1>0, <1>2 DEF SnapshotOK, CurrentSnapshot, Positions, WorkingOrders, Used, Filled
<1>4. Used' = Used /\ Filled' = Filled
  BY <1>0 DEF Used, Filled
<1>5. BookOK'
  BY <1>0, BookKept DEF HasMeta
<1> QED  BY <1>0, <1>1, <1>2, <1>3, <1>4, <1>5 DEF ViewOK, PlacingOK

LEMMA CrashBook ==
    ASSUME Crash
    PROVE  BookOK' /\ ViewOK' /\ PlacingOK'
<1> USE DEF Crash, FreshProgram
<1>1. BookOK'
  <2>1. \A p \in Pairs, d \in Dirs : grids'[p][d] = <<>>
    BY DEF EmptyGrids
  <2>2. \A p : GridOK(p, <<>>, Used', Filled')
    BY DEF GridOK, UniqueCids
  <2>3. \A o \in Orders : ~HasMeta(o)'
    BY DEF HasMeta, NoMeta
  <2> QED  BY <2>1, <2>2, <2>3 DEF BookOK
<1>2. job'.pc = "boot_pos" /\ job'.snap = NoSnap
  BY DEF Idle
<1>3. ViewOK'
  BY <1>2 DEF ViewOK, SnapshotOK
<1> QED  BY <1>1, <1>2, <1>3 DEF PlacingOK

LEMMA BookInit == Init => BookInv
<1> SUFFICES ASSUME Init PROVE BookInv
  OBVIOUS
<1> USE DEF Init, BrokerInit
<1>1. BookOK
  BY DEF BookOK, EmptyGrids, GridOK, UniqueCids, HasMeta, NoMeta
<1>2. job.pc = "boot_pos" /\ job.snap = NoSnap
  BY DEF Idle
<1>3. ViewOK
  BY <1>2 DEF ViewOK, SnapshotOK
<1>4. PlacingOK
  BY <1>2 DEF PlacingOK
<1> QED  BY <1>1, <1>3, <1>4, TypeInit DEF BookInv

LEMMA BookStep == BookInv /\ [Next]_vars => BookInv'
<1> SUFFICES ASSUME BookInv, [Next]_vars PROVE BookInv'
  OBVIOUS
<1>0. TypeInv /\ BookOK /\ ViewOK /\ PlacingOK
  BY DEF BookInv
<1>1. Forward
  BY <1>0, StepForward
<1>2. TypeInv'
  BY <1>0, TypeStep
<1>3. CASE Engine
  BY <1>1, <1>2, <1>3, EngineBook DEF BookInv
<1>4. CASE Deliver
  BY <1>1, <1>2, <1>4, DeliverBook DEF BookInv
<1>5. CASE Outside
  BY <1>1, <1>2, <1>5, OutsideBook DEF BookInv
<1>6. CASE ServeReconcile
  BY <1>1, <1>2, <1>6, ServeReconcileBook DEF BookInv
<1>7. CASE Crash
  BY <1>2, <1>7, CrashBook DEF BookInv
<1>8. CASE CacheExpires \/ UNCHANGED vars
  <2>1. UNCHANGED <<brokerVars, grids, meta, job>> /\ cache' \in {cache, NoSnap}
    BY <1>8 DEF CacheExpires, vars, bookVars, pollVars
  <2>2. BookOK'
    BY <1>0, <1>1, <2>1, BookKept DEF HasMeta
  <2>3. ViewOK'
    BY <1>0, <2>1 DEF ViewOK, SnapshotOK, Used, Filled, brokerVars
  <2>4. PlacingOK'
    BY <1>0, <2>1 DEF PlacingOK, Used, brokerVars
  <2> QED  BY <1>2, <2>2, <2>3, <2>4 DEF BookInv
<1>9. ASSUME NEW o \in Orders, Age(o) PROVE BookInv'
  <2>1. UNCHANGED <<brokerVars, grids, cache, job>>
    BY <1>9 DEF Age, brokerVars, pollVars
  <2>2. \A c \in Orders : HasMeta(c)' => HasMeta(c)
    BY <1>0, <1>9 DEF Age, HasMeta, TypeInv, TypeOK, BookType, Meta
  <2>3. BookOK'
    BY <1>0, <1>1, <2>1, <2>2, BookKept
  <2>4. ViewOK' /\ PlacingOK'
    BY <1>0, <2>1 DEF ViewOK, PlacingOK, SnapshotOK, Used, Filled, brokerVars
  <2> QED  BY <1>2, <2>3, <2>4 DEF BookInv
<1> QED  BY <1>3, <1>4, <1>5, <1>6, <1>7, <1>8, <1>9 DEF Next

-----------------------------------------------------------------------------
(* The invariant above holds in every reachable state, for any number of   *)
(* orders, pairs and levels, any prices, and any answers of the broker.    *)
THEOREM BookCorrect == Spec => []BookInv
<1>1. Init => BookInv
  BY BookInit
<1>2. BookInv /\ [Next]_vars => BookInv'
  BY BookStep
<1> QED  BY <1>1, <1>2, PTL DEF Spec

(* No grid has two levels with the same client order id: the lookup of a   *)
(* level by the id in on_order_filled, _remove_pending_level and           *)
(* remove_position_by_client_order_id finds the only one.                  *)
THEOREM CidsUnique == Spec => []CidUnique
<1>1. BookInv => CidUnique
  BY DEF BookInv, BookOK, GridOK, CidUnique
<1> QED  BY <1>1, BookCorrect, PTL

(* Metadata never outlives the pending level of its order: what            *)
(* _check_pending_orders_ttl and _cancel_all_pending_orders go by is there. *)
THEOREM MetadataHasLevel == Spec => []MetaHasLevel
<1>1. BookInv => MetaHasLevel
  BY DEF BookInv, BookOK, HasPending, MetaHasLevel
<1> QED  BY <1>1, BookCorrect, PTL

(* A level with a position id names an order that was filled, of the pair  *)
(* of its grid, whatever the handler linked it from: a fill event, a       *)
(* Reconcile answer, fresh, cached or timed out, or the bootstrap.         *)
THEOREM FilledLevelsReal == Spec => []FilledLevelsAreReal
<1>1. BookInv => FilledLevelsAreReal
  BY DEF BookInv, BookOK, GridOK, LevelOK, IsPending, Filled, FilledLevelsAreReal
<1> QED  BY <1>1, BookCorrect, PTL
=============================================================================
