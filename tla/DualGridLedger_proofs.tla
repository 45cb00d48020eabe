------------------------ MODULE DualGridLedger_proofs ------------------------
(***************************************************************************)
(* What the duplicate check before a placement is worth, and that          *)
(* DualGridEngine implements OrderLedger.                                  *)
(*                                                                         *)
(* The engine keeps metadata of acknowledged orders only, so an order it   *)
(* knows of never comes to rest later than the check looked; and an answer *)
(* of Reconcile tells of every such order that it rests, or that its fill  *)
(* is among the events pushed before the answer, which are read before it  *)
(* is used.  Where moreover all orders of a pair go one way and the        *)
(* process lives, a position that is open has a level, or waits for one    *)
(* that the next Reconcile cannot miss: so every order goes through the    *)
(* stages of the ledger.                                                   *)
(***************************************************************************)
EXTENDS DualGridHandler_proofs, DualGridLedger

(* Orders that the broker has taken, or refused. *)
Acks == {o \in Orders : order[o] \notin {"free", "sent"}}

(* Fill events of the order that are pushed and not read, and whether all  *)
(* of them are among the first n events.                                   *)
FillAhead(o) == \E i \in DOMAIN events : events[i] = [type |-> "FILLED", ord |-> o]
FillWithin(o, n) == \A i \in DOMAIN events : events[i] = [type |-> "FILLED", ord |-> o] => i <= n

MayFill(o) == order[o] = "working" \/ FillAhead(o)

OrdsIn(snap, acks) == snap # NoSnap => snap.ords \subseteq acks

(* What the engine goes by, when it gives an order metadata, is that the   *)
(* broker has acknowledged it.                                             *)
AckOK ==
    /\ \A o \in Orders : HasMeta(o) => o \in Acks
    /\ \A i \in DOMAIN events : events[i].type \in {"ACCEPTED", "FILLED"} => events[i].ord \in Acks
    /\ (job.pc = "place" /\ job.answer = "ok") => job.cur \in Acks
    /\ OrdsIn(job.snap, Acks) /\ OrdsIn(cache, Acks)
    /\ job.pc = "boot_ord" => job.todo \subseteq Acks

-----------------------------------------------------------------------------
(* What a step does to the orders and the events. *)
Turns ==
    /\ Outside
    /\ \E o \in Orders : \/ \E type \in {"REJECTED", "ERROR"} : Turn(o, "sent", "dead", type)
                         \/ Turn(o, "sent", "working", "ACCEPTED")
                         \/ Turn(o, "working", "open", "FILLED")
                         \/ \E type \in {"EXPIRED", "CANCELLED"} : Turn(o, "working", "dead", type)
                         \/ Turn(o, "open", "closed", "CLOSED")
Reads == Deliver /\ UNCHANGED order /\ events # <<>> /\ events' = Tail(events)
Loses == Crash /\ UNCHANGED order /\ events' = <<>>

LEMMA BrokerMoves ==
    ASSUME [Next]_vars
    PROVE  Quiet \/ Turns \/ Reads \/ Sends \/ Loses
<1>1. CASE Engine
  BY <1>1, EngineCalm DEF Calm
<1>2. CASE Deliver
  BY <1>2 DEF Deliver, OnAccepted, OnFilled, OnExpired, OnCancelled, OnError, OnClosed,
     Handle, Reads
<1>3. CASE ServeReconcile \/ CacheExpires \/ UNCHANGED vars \/ \E o \in Orders : Age(o)
  BY <1>3 DEF ServeReconcile, CacheExpires, vars, Age, Quiet, brokerVars
<1>4. CASE Crash
  BY <1>4 DEF Crash, Loses
<1>5. CASE Outside
  <2>1. PICK o \in Orders : \/ Accept(o) \/ Reject(o) \/ Fill(o) \/ Expire(o)
                           \/ StopOut(o) \/ ServeCancel(o) \/ ServeClose(o)
    BY <1>5 DEF Outside, BrokerStep
  <2> USE <1>5 DEF Turns
  <2>2. CASE Accept(o)
    BY <2>2 DEF Accept
  <2>3. CASE Reject(o)
    BY <2>3 DEF Reject
  <2>4. CASE Fill(o)
    BY <2>4 DEF Fill
  <2>5. CASE Expire(o) \/ ServeCancel(o)
    BY <2>5 DEF Expire, ServeCancel
  <2>6. CASE StopOut(o) \/ ServeClose(o)
    BY <2>6 DEF StopOut, ServeClose
  <2> HIDE DEF Turns
  <2> QED  BY <2>1, <2>2, <2>3, <2>4, <2>5, <2>6
<1> QED  BY <1>1, <1>2, <1>3, <1>4, <1>5 DEF Next

(* What the broker does to an order, and says of it. *)
Turned(c, from, to, type) ==
    /\ order[c] = from /\ order' = [order EXCEPT ![c] = to]
    /\ events' = Append(events, [type |-> type, ord |-> c])
    /\ to \notin {"free", "sent"}
    /\ type = "FILLED" => from = "working" /\ to = "open"
    /\ to = "open" => type = "FILLED"
    /\ to = "working" => from = "sent"
    /\ to = "closed" => from = "open"
    /\ to = "dead" => from \in {"sent", "working"}
    /\ type = "ACCEPTED" => to = "working"
    /\ UNCHANGED job

LEMMA TurnAppends ==
    ASSUME TypeInv, Turns
    PROVE  \E c \in Orders, from \in OrderStates, to \in OrderStates, type \in EventTypes :
             Turned(c, from, to, type)
<1>1. PICK o \in Orders :
        \/ \E type \in {"REJECTED", "ERROR"} : Turn(o, "sent", "dead", type)
        \/ Turn(o, "sent", "working", "ACCEPTED")
        \/ Turn(o, "working", "open", "FILLED")
        \/ \E type \in {"EXPIRED", "CANCELLED"} : Turn(o, "working", "dead", type)
        \/ Turn(o, "open", "closed", "CLOSED")
  BY DEF Turns
<1>2. UNCHANGED job
  BY DEF Turns, Outside
<1> USE <1>2 DEF Turn, Turned, OrderStates, EventTypes
<1>3. ASSUME NEW type \in {"REJECTED", "ERROR"}, Turn(o, "sent", "dead", type)
      PROVE  Turned(o, "sent", "dead", type)
  BY <1>3
<1>4. Turn(o, "sent", "working", "ACCEPTED") => Turned(o, "sent", "working", "ACCEPTED")
  OBVIOUS
<1>5. Turn(o, "working", "open", "FILLED") => Turned(o, "working", "open", "FILLED")
  OBVIOUS
<1>6. ASSUME NEW type \in {"EXPIRED", "CANCELLED"}, Turn(o, "working", "dead", type)
      PROVE  Turned(o, "working", "dead", type)
  BY <1>6
<1>7. Turn(o, "open", "closed", "CLOSED") => Turned(o, "open", "closed", "CLOSED")
  OBVIOUS
<1> HIDE DEF Turn, Turned
<1> QED  BY <1>1, <1>3, <1>4, <1>5, <1>6, <1>7

(* Acknowledged is acknowledged, and an acknowledged order that can fill   *)
(* could fill before.                                                      *)
LEMMA OrderForward ==
    ASSUME TypeInv, PlacingOK, [Next]_vars, NEW o \in Orders
    PROVE  /\ o \in Acks => o \in Acks'
           /\ (o \in Acks /\ MayFill(o)') => MayFill(o)
           /\ (o \in Acks /\ order'[o] = "working") => order[o] = "working"
<1> USE DEF TypeInv, TypeOK, BrokerType
<1>1. CASE Quiet
  BY <1>1 DEF Quiet, Acks, MayFill, FillAhead
<1>2. CASE Turns
  <2>1. PICK c \in Orders, from \in OrderStates, to \in OrderStates, type \in EventTypes :
          Turned(c, from, to, type)
    BY <1>2, TurnAppends
  <2>2. /\ order[c] = from /\ order' = [order EXCEPT ![c] = to]
        /\ events' = Append(events, [type |-> type, ord |-> c])
        /\ to \notin {"free", "sent"}
        /\ to = "working" => from = "sent"
        /\ type = "FILLED" => from = "working"
    BY <2>1 DEF Turned
  <2>3. ASSUME NEW i \in DOMAIN events', events'[i] = [type |-> "FILLED", ord |-> o]
        PROVE  FillAhead(o) \/ (o = c /\ type = "FILLED")
    <3>1. CASE i \in DOMAIN events
      BY <2>2, <2>3, <3>1 DEF FillAhead
    <3>2. CASE i = Len(events) + 1
      BY <2>2, <2>3, <3>2
    <3> QED  BY <2>2, <3>1, <3>2
  <2>4. FillAhead(o)' => FillAhead(o) \/ (o = c /\ type = "FILLED")
    BY <2>3 DEF FillAhead
  <2> QED  BY <2>2, <2>4 DEF Acks, MayFill
<1>3. CASE Reads
  <2>1. FillAhead(o)' => FillAhead(o)
    <3> SUFFICES ASSUME NEW i \in DOMAIN events', events'[i] = [type |-> "FILLED", ord |-> o]
                 PROVE  FillAhead(o)
      BY DEF FillAhead
    <3>1. i + 1 \in DOMAIN events /\ events[i + 1] = events'[i]
      BY <1>3 DEF Reads
    <3> QED  BY <3>1 DEF FillAhead
  <2> QED  BY <1>3, <2>1 DEF Reads, Acks, MayFill
<1>4. CASE Sends
  <2>1. job.cur \in Orders /\ order[job.cur] = "free"
    BY <1>4 DEF Sends, Place, Answered, PlacingOK, LocalsOK
  <2> QED  BY <1>4, <2>1 DEF Sends, Acks, MayFill, FillAhead
<1>5. CASE Loses
  BY <1>5 DEF Loses, Acks, MayFill, FillAhead
<1> QED  BY <1>1, <1>2, <1>3, <1>4, <1>5, BrokerMoves

(* The metadata of an order stays, or goes. *)
Less(o) == meta'[o] = meta[o] \/ meta'[o] = NoMeta

(* What may become of the metadata of an order: it gets some when its      *)
(* placement is answered, or when the bootstrap finds it, and there only   *)
(* the first of a grid.                                                    *)
LEMMA MetaMoves ==
    ASSUME BookInv, [Next]_vars, NEW o \in Orders
    PROVE  \/ Less(o)
           \/ Placed /\ o = job.cur /\ meta'[o] = NewMeta(GridStep)
           \/ RestorePending(o) /\ OwnGrid(o) = <<>> /\ meta'[o] = NewMeta(0)
           \/ Age(o) /\ meta'[o].held
<1>1. ASSUME UNCHANGED meta
      PROVE  Less(o)
  BY <1>1 DEF Less
<1>2. ASSUME NEW c, meta' = WithoutMeta(c)
      PROVE  Less(o)
  BY <1>2 DEF WithoutMeta, Less
<1>0. ASSUME NEW c, RemovePendingLevel(c)
      PROVE  Less(o)
  BY <1>0, <1>2 DEF RemovePendingLevel
<1>3. CASE Link
  <2>1. PICK c \in Orders : LinkPosition(c)
    BY <1>3 DEF Link
  <2>2. UNCHANGED meta \/ \E k : meta' = WithoutMeta(k)
    BY <2>1 DEF LinkPosition, RestorePosition
  <2> QED  BY <1>1, <1>2, <2>2
<1>4. CASE Bootstrap
  <2>1. ASSUME NEW c \in Orders, RestorePending(c)
        PROVE  Less(o) \/ (c = o /\ OwnGrid(o) = <<>> /\ meta'[o] = NewMeta(0))
    BY <2>1 DEF RestorePending, bookVars, Less, BookInv, TypeInv, TypeOK, BookType
  <2>2. BootPositions \/ BootLinked \/ BootOrders \/ BootDone => UNCHANGED meta
    BY DEF BootPositions, BootLinked, BootOrders, BootDone, bookVars
  <2> QED  BY <1>1, <1>4, <2>1, <2>2 DEF Bootstrap
<1>5. CASE Refresh
  <2>1. NextCycle \/ Reconcile \/ DropStale \/ Dropped \/ Linked \/ TtlDone \/ AssessFails
          => UNCHANGED meta
    BY DEF NextCycle, Reconcile, DropStale, Dropped, Linked, TtlDone, AssessFails, bookVars
  <2>2. ASSUME NEW x, StartBar(x) \/ Assess(x) PROVE UNCHANGED meta
    BY <2>2 DEF StartBar, Assess, bookVars
  <2>3. ASSUME NEW c \in Orders, TtlCancel(c) PROVE UNCHANGED meta \/ RemovePendingLevel(c)
    BY <2>3 DEF TtlCancel
  <2>4. TtlCancelled => RemovePendingLevel(job.cur)
    BY DEF TtlCancelled
  <2> QED  BY <1>0, <1>1, <1>5, <2>1, <2>2, <2>3, <2>4 DEF Refresh
<1>6. CASE CancelPending
  <2>1. CancelAll \/ TrackedTimesOut \/ CancelAllDone => UNCHANGED meta
    BY DEF CancelAll, TrackedTimesOut, CancelAllDone, bookVars
  <2>2. ASSUME NEW c, CancelTracked(c) PROVE UNCHANGED meta
    BY <2>2 DEF CancelTracked, bookVars
  <2>3. CancelledTracked \/ CancelDirect \/ CancelledOwn
          => UNCHANGED meta \/ RemovePendingLevel(job.cur)
    BY DEF CancelledTracked, CancelDirect, CancelledOwn
  <2> QED  BY <1>0, <1>1, <1>6, <2>1, <2>2, <2>3 DEF CancelPending
<1>7. CASE ClosePositions
  <2>1. ResolveStart \/ ResolveDone \/ ListPositions \/ CloseVerified \/ CloseAgain
          \/ CloseFails \/ CloseDone => UNCHANGED meta
    BY DEF ResolveStart, ResolveDone, ListPositions, CloseVerified, CloseAgain, CloseFails,
       CloseDone, bookVars
  <2>2. ASSUME NEW c, ClosePosition(c) PROVE UNCHANGED meta
    BY <2>2 DEF ClosePosition, bookVars
  <2>3. ResolveCancelled => RemovePendingLevel(job.cur)
    BY DEF ResolveCancelled
  <2>4. ASSUME NEW c \in Orders, ResolveLevel(c)
        PROVE  UNCHANGED meta \/ meta' = WithoutMeta(c)
    BY <2>4 DEF ResolveLevel, RemovePendingLevel
  <2> QED  BY <1>0, <1>1, <1>2, <1>7, <2>1, <2>2, <2>3, <2>4 DEF ClosePositions
<1>8. CASE OpenLevel
  <2>1. Placed => Less(o) \/ (o = job.cur /\ meta'[o] = NewMeta(GridStep))
    BY DEF Placed, Less, BookInv, TypeInv, TypeOK, BookType
  <2>2. NoSignal \/ SkipDuplicate \/ Place \/ PlaceFails => UNCHANGED meta
    BY DEF NoSignal, SkipDuplicate, Place, PlaceFails, bookVars
  <2>3. ASSUME NEW c, Signal(c) PROVE UNCHANGED meta
    BY <2>3 DEF Signal, bookVars
  <2> QED  BY <1>1, <1>8, <2>1, <2>2, <2>3 DEF OpenLevel
<1>9. CASE Deliver
  <2>1. ASSUME NEW c, OnAccepted(c) \/ OnExpired(c) \/ OnCancelled(c) \/ OnError(c) \/ OnClosed(c)
        PROVE  UNCHANGED meta
    BY <2>1 DEF OnAccepted, OnExpired, OnCancelled, OnError, OnClosed, bookVars
  <2>2. ASSUME NEW c, OnFilled(c) PROVE UNCHANGED meta \/ meta' = WithoutMeta(c)
    BY <2>2 DEF OnFilled, OnOrderFilled
  <2> QED  BY <1>1, <1>2, <1>9, <2>1, <2>2 DEF Deliver
<1>10. CASE Outside \/ ServeReconcile \/ CacheExpires \/ UNCHANGED vars
  BY <1>1, <1>10 DEF Outside, ServeReconcile, CacheExpires, vars, bookVars
<1>11. CASE Crash
  BY <1>11 DEF Crash, FreshProgram, Less
<1>12. ASSUME NEW c \in Orders, Age(c) PROVE Less(o) \/ (c = o /\ meta'[o].held)
  BY <1>12 DEF Age, HasMeta, Less, BookInv, TypeInv, TypeOK, BookType, Meta
<1> QED  BY <1>3, <1>4, <1>5, <1>6, <1>7, <1>8, <1>9, <1>10, <1>11, <1>12 DEF Next, Engine

LEMMA MetaSources ==
    ASSUME BookInv, [Next]_vars, NEW o \in Orders, HasMeta(o)'
    PROVE  \/ HasMeta(o)
           \/ Placed /\ o = job.cur
           \/ RestorePending(o) /\ OwnGrid(o) = <<>>
BY MetaMoves DEF Less, HasMeta, NoMeta, Age

-----------------------------------------------------------------------------
(* Which steps of the handler lead where, and where it gets answers from.  *)
Leads ==
    /\ job'.pc = "place" => Place
    /\ job'.pc = "dup" => \E o \in Orders : Signal(o)
    /\ job'.pc = "rec" => \E p \in Pairs : StartBar(p)
    /\ job'.pc = "drop" => Reconcile \/ DropStale
    /\ job'.pc = "link" => Dropped \/ (Link /\ job.pc = "link")
    /\ job'.pc = "boot_ord" => BootOrders \/ \E o \in Orders : RestorePending(o)
    /\ job'.pc \in Starting => job.pc \in Starting
    /\ job'.snap \in {job.snap, NoSnap} \/ \E p \in Pairs : StartBar(p)
    /\ job'.bar \in {job.bar, NoPair} \/ \E p \in Pairs : StartBar(p)

LEMMA EngineLeads ==
    ASSUME TypeInv, HandlerOK, Engine
    PROVE  Leads
<1> USE DEF TypeInv, TypeOK, ControlType, Job, Idle, Answered, Starting, Leads
<1>1. Onward \/ Opens
  BY EngineHandler
<1>2. CASE Onward
  BY <1>2 DEF Onward
<1>3. ASSUME NEW o \in Orders, LinkPosition(o) PROVE Leads
  <2>1. /\ job.pc \in {"link", "boot_link"} /\ job'.pc = job.pc
        /\ job'.snap = job.snap /\ job'.bar = job.bar
    BY <1>3 DEF LinkPosition
  <2> QED  BY <1>3, <2>1 DEF Link
<1>4. BootPositions => Leads
  BY DEF BootPositions
<1>5. BootLinked => Leads
  BY DEF BootLinked
<1>6. BootOrders => Leads
  <2>1. BootOrders => /\ job.pc = "boot_pend" /\ job'.pc = "boot_ord" /\ job'.snap = NoSnap
                      /\ job'.bar = job.bar
    BY DEF BootOrders
  <2> QED  BY <2>1
<1>7. BootDone => Leads
  BY DEF BootDone
<1>8. ASSUME NEW o \in Orders, RestorePending(o) PROVE Leads
  <2>1. /\ job.pc = "boot_ord" /\ job'.pc = job.pc /\ job'.snap = job.snap
        /\ job'.bar = job.bar
    BY <1>8 DEF RestorePending
  <2> QED  BY <1>8, <2>1
<1>9. ASSUME NEW p \in Pairs, StartBar(p) PROVE Leads
  <2>1. job'.pc = "rec"
    BY <1>9 DEF StartBar
  <2> QED  BY <1>9, <2>1
<1>10. CASE Reconcile
  <2>1. job'.pc = "drop" /\ job'.snap = NoSnap /\ job'.bar = job.bar
    BY <1>10 DEF Reconcile
  <2> QED  BY <1>10, <2>1
<1>11. CASE DropStale
  <2>1. job'.pc = "drop" /\ job' = job
    BY <1>11 DEF DropStale
  <2> QED  BY <1>11, <2>1
<1>12. CASE Dropped
  <2>1. job'.pc = "link" /\ job'.snap = job.snap /\ job'.bar = job.bar
    BY <1>12 DEF Dropped
  <2> QED  BY <1>12, <2>1
<1>13. ASSUME NEW o \in Orders, Signal(o) PROVE Leads
  <2>1. job'.pc = "dup" /\ job'.snap = job.snap /\ job'.bar = job.bar
    BY <1>13 DEF Signal
  <2> QED  BY <1>13, <2>1
<1>14. CASE Place
  <2>1. job'.pc = "place" /\ job'.snap = NoSnap /\ job'.bar = job.bar
    BY <1>14 DEF Place
  <2> QED  BY <1>14, <2>1
<1> HIDE DEF Leads
<1> QED  BY <1>1, <1>2, <1>3, <1>4, <1>5, <1>6, <1>7, <1>8, <1>9, <1>10, <1>11, <1>12, <1>13,
            <1>14 DEF Opens, Link, Bootstrap

(* An event that is read moves the handler at most to its next await. *)
Wakes ==
    /\ UNCHANGED <<job.pc, job.wait, job.cur, job.snap, job.bar, job.todo, cache, polled>>
    /\ job'.barrier = Passed
    /\ (job.pc = "place" /\ job'.answer = "ok") =>
         \/ job.answer = "ok"
         \/ Head(events).type \in {"ACCEPTED", "FILLED"} /\ Head(events).ord = job.wait

LEMMA DeliverWakes ==
    ASSUME TypeInv, Deliver
    PROVE  Wakes
<1> USE DEF TypeInv, TypeOK, ControlType, Job, Handle, pollVars, Wakes
<1>1. ASSUME NEW o \in Orders, OnAccepted(o) PROVE Wakes
  BY <1>1 DEF OnAccepted, Resolve
<1>2. ASSUME NEW o \in Orders, OnFilled(o) PROVE Wakes
  BY <1>2 DEF OnFilled, Resolve
<1>3. ASSUME NEW o \in Orders, OnExpired(o) PROVE Wakes
  BY <1>3 DEF OnExpired, Resolve
<1>4. ASSUME NEW o \in Orders, OnError(o) PROVE Wakes
  BY <1>4 DEF OnError, Resolve
<1>5. ASSUME NEW o \in Orders, OnClosed(o) PROVE Wakes
  BY <1>5 DEF OnClosed, Resolve
<1>6. ASSUME NEW o \in Orders, OnCancelled(o) PROVE Wakes
  <2>1. CASE job.pc = "place"
    BY <1>6, <2>1 DEF OnCancelled, Resolve
  <2>2. CASE job.pc # "place"
    BY <1>6, <2>2 DEF OnCancelled, Resolve
  <2> QED  BY <2>1, <2>2
<1> HIDE DEF Wakes
<1> QED  BY <1>1, <1>2, <1>3, <1>4, <1>5, <1>6 DEF Deliver

(* Acknowledgements stay behind everything the engine has of an order. *)
LEMMA AckStep ==
    ASSUME BookInv, HandlerOK, AckOK, [Next]_vars
    PROVE  AckOK'
<1> USE DEF BookInv
<1>0. TypeInv /\ PlacingOK
  OBVIOUS
<1>1. Acks \subseteq Acks'
  BY OrderForward DEF Acks
<1>2. ASSUME NEW o \in Orders, HasMeta(o)' PROVE o \in Acks'
  <2>1. Placed => job.cur \in Acks
    BY DEF Placed, AckOK
  <2>2. RestorePending(o) => o \in Acks
    BY DEF RestorePending, AckOK
  <2> QED  BY <1>1, <1>2, <2>1, <2>2, MetaSources DEF AckOK
<1>3. ASSUME NEW i \in DOMAIN events', events'[i].type \in {"ACCEPTED", "FILLED"}
      PROVE  events'[i].ord \in Acks'
  <2> USE DEF TypeInv, TypeOK, BrokerType, Event
  <2>1. CASE UNCHANGED events
    BY <1>1, <1>3, <2>1 DEF AckOK
  <2>2. CASE Turns
    <3>1. PICK c \in Orders, from \in OrderStates, to \in OrderStates, type \in EventTypes :
            Turned(c, from, to, type)
      BY <2>2, TurnAppends
    <3>2. CASE i \in DOMAIN events
      BY <1>1, <1>3, <3>1, <3>2 DEF AckOK, Turned
    <3>3. CASE i = Len(events) + 1
      BY <3>1, <3>3 DEF Acks, Turned
    <3> QED  BY <3>1, <3>2, <3>3 DEF Turned
  <2>3. CASE Reads
    <3>1. i + 1 \in DOMAIN events /\ events[i + 1] = events'[i]
      BY <2>3 DEF Reads
    <3> QED  BY <1>1, <1>3, <3>1 DEF AckOK
  <2>4. CASE Loses
    BY <2>4 DEF Loses
  <2> QED  BY <2>1, <2>2, <2>3, <2>4, BrokerMoves DEF Quiet, Sends
<1>4. ASSUME NEW snap, snap = NoSnap \/ snap \in Snapshot, OrdsIn(snap, Acks)
      PROVE  OrdsIn(snap, Acks')
  BY <1>1, <1>4 DEF OrdsIn, Snapshot
<1>5. OrdsIn(NoSnap, Acks') /\ cache \in Snapshot \cup {NoSnap} /\ job.snap \in Snapshot \cup {NoSnap}
  BY DEF OrdsIn, TypeInv, TypeOK, ControlType, Job
<1>6. CASE Engine
  <2>1. Leads /\ cache' \in {cache, NoSnap}
    BY <1>6, EngineLeads, EngineEvents
  <2>2. (job'.pc = "place" /\ job'.answer = "ok") => FALSE
    BY <2>1 DEF Leads, Place, Answered, HandlerOK, Waiting, TypeInv, TypeOK, ControlType, Job
  <2>3. OrdsIn(job'.snap, Acks')
    <3>1. ASSUME NEW p \in Pairs, StartBar(p) PROVE job'.snap = cache
      BY <3>1 DEF StartBar, Idle
    <3> QED  BY <1>4, <1>5, <2>1, <3>1 DEF Leads, AckOK
  <2>4. job'.pc = "boot_ord" => job'.todo \subseteq Acks'
    <3>1. BootOrders => job'.todo = job.snap.ords /\ job.snap # NoSnap
      BY DEF BootOrders, Answered, TypeInv, TypeOK, ControlType, Job
    <3>2. BootOrders => job'.todo \subseteq Acks'
      BY <1>1, <1>5, <3>1 DEF AckOK, OrdsIn, Snapshot
    <3>3. ASSUME NEW c, RestorePending(c) PROVE job'.todo \subseteq Acks'
      BY <1>1, <3>3 DEF RestorePending, AckOK, TypeInv, TypeOK, ControlType, Job
    <3> QED  BY <2>1, <3>2, <3>3 DEF Leads
  <2> QED  BY <1>2, <1>3, <1>4, <1>5, <2>1, <2>2, <2>3, <2>4 DEF AckOK
<1>7. CASE Deliver
  <2>1. Wakes
    BY <1>7, DeliverWakes
  <2>2. (job'.pc = "place" /\ job'.answer = "ok") => job.cur \in Acks'
    <3> SUFFICES ASSUME job.pc = "place", job'.answer = "ok" PROVE job.cur \in Acks'
      BY <2>1 DEF Wakes
    <3>1. job.wait = job.cur /\ job.cur \in Orders
      BY DEF HandlerOK, TypeInv, LocalsOK
    <3>2. CASE job.answer = "ok"
      BY <1>1, <3>1, <3>2 DEF AckOK
    <3>3. CASE Head(events).type \in {"ACCEPTED", "FILLED"} /\ Head(events).ord = job.wait
      <4>1. 1 \in DOMAIN events /\ Head(events) = events[1]
        BY <1>7 DEF Deliver, OnAccepted, OnFilled, OnExpired, OnCancelled, OnError, OnClosed,
           Handle, TypeInv, TypeOK, BrokerType
      <4> QED  BY <1>1, <3>1, <3>3, <4>1 DEF AckOK
    <3> QED  BY <2>1, <3>2, <3>3 DEF Wakes
  <2> QED  BY <1>1, <1>2, <1>3, <1>4, <1>5, <2>1, <2>2 DEF AckOK, Wakes, TypeInv, TypeOK,
           ControlType, Job
<1>8. CASE ServeReconcile
  <2>1. PICK snap : /\ job'.snap = snap /\ cache' = snap /\ UNCHANGED <<job.pc, job.todo>>
                    /\ snap \in {CurrentSnapshot, [pos |-> {}, ords |-> {}]}
    BY <1>8 DEF ServeReconcile, TypeInv, TypeOK, ControlType, Job
  <2>2. OrdsIn(snap, Acks')
    BY <1>8, <2>1 DEF OrdsIn, CurrentSnapshot, WorkingOrders, Acks, ServeReconcile, brokerVars
  <2>3. job'.pc = "place" => FALSE
    BY <1>8 DEF ServeReconcile, Fetching, TypeInv, TypeOK, ControlType, Job
  <2> QED  BY <1>1, <1>2, <1>3, <2>1, <2>2, <2>3 DEF AckOK, TypeInv, TypeOK, ControlType, Job
<1>9. CASE Outside \/ CacheExpires \/ UNCHANGED vars \/ \E o \in Orders : Age(o)
  <2>1. UNCHANGED job /\ cache' \in {cache, NoSnap}
    BY <1>9 DEF Outside, CacheExpires, vars, Age, pollVars
  <2>2. (job.pc = "place" /\ job.answer = "ok") => job.cur \in Acks'
    BY <1>1 DEF AckOK, TypeInv, LocalsOK
  <2> QED  BY <1>1, <1>2, <1>3, <1>4, <1>5, <2>1, <2>2 DEF AckOK, TypeInv, TypeOK,
           ControlType, Job
<1>10. CASE Crash
  <2>1. job'.pc = "boot_pos" /\ job'.snap = NoSnap /\ cache' = NoSnap
    BY <1>10 DEF Crash, FreshProgram, Idle
  <2> QED  BY <1>2, <1>3, <1>5, <2>1 DEF AckOK
<1> QED  BY <1>6, <1>7, <1>8, <1>9, <1>10 DEF Next

-----------------------------------------------------------------------------
(* What the answer to the duplicate check says, what a placement can rely on,  *)
(* and what comes of it.                                                   *)
CheckOK ==
    (job.pc = "dup" /\ job.snap # NoSnap) =>
        \A o \in Orders : HasMeta(o) =>
            \/ o \in job.snap.ords
            \/ order[o] # "working" /\ FillWithin(o, job.barrier)
PlaceOK ==
    job.pc = "place" =>
        \A o \in Orders : (HasMeta(o) /\ PairOf[o] = job.bar) => ~MayFill(o)
OneMayFill ==
    \A o, c \in Orders :
        /\ HasMeta(o) /\ HasMeta(c) /\ MayFill(o) /\ MayFill(c)
        /\ PairOf[o] = PairOf[c] /\ DirOf[o] = DirOf[c]
        => o = c
KnownOK == CheckOK /\ PlaceOK /\ OneMayFill

(* A fill that is among the events awaited stays among them. *)
LEMMA BarrierStep ==
    ASSUME TypeInv, Reads, Wakes, NEW o, FillWithin(o, job.barrier)
    PROVE  FillWithin(o, job.barrier)'
<1> SUFFICES ASSUME NEW i \in DOMAIN events', events'[i] = [type |-> "FILLED", ord |-> o]
             PROVE  i <= job'.barrier
  BY DEF FillWithin
<1>1. i + 1 \in DOMAIN events /\ events[i + 1] = events'[i] /\ i \in Nat
  BY DEF Reads, TypeInv, TypeOK, BrokerType
<1>2. i + 1 <= job.barrier
  BY <1>1 DEF FillWithin
<1>3. job.barrier \in Nat /\ job'.barrier = Passed
  BY DEF Wakes, TypeInv, TypeOK, ControlType, Job
<1> QED  BY <1>1, <1>2, <1>3 DEF Passed

(* No fill is told of but that of a resting order. *)
LEMMA TurnWithin ==
    ASSUME TypeInv, Turns, NEW o \in Orders, order[o] # "working", o \in Acks,
           FillWithin(o, job.barrier)
    PROVE  order'[o] # "working" /\ FillWithin(o, job.barrier)'
<1>1. PICK c \in Orders, from \in OrderStates, to \in OrderStates, type \in EventTypes :
        Turned(c, from, to, type)
  BY TurnAppends
<1> USE DEF TypeInv, TypeOK, BrokerType, Turned
<1>2. order'[o] # "working"
  BY <1>1 DEF Acks
<1>3. ASSUME NEW i \in DOMAIN events', events'[i] = [type |-> "FILLED", ord |-> o]
      PROVE  i <= job.barrier
  <2>1. CASE i \in DOMAIN events
    BY <1>1, <1>3, <2>1 DEF FillWithin
  <2>2. CASE i = Len(events) + 1
    BY <1>1, <1>3, <2>2
  <2> QED  BY <1>1, <2>1, <2>2
<1> QED  BY <1>1, <1>2, <1>3 DEF FillWithin

LEMMA CheckStep ==
    ASSUME ~ReconcileMayTimeOut, BookInv, HandlerOK, AckOK, CheckOK, [Next]_vars
    PROVE  CheckOK'
<1> USE DEF BookInv
<1>0. TypeInv /\ job.snap \in Snapshot \cup {NoSnap} /\ job \in Job
  BY DEF TypeInv, TypeOK, ControlType, Job
<1>1. ASSUME UNCHANGED <<job.pc, job.snap>>, job.pc = "dup", NEW o \in Orders, HasMeta(o)'
      PROVE  HasMeta(o) /\ o \in Acks
  BY <1>1, MetaSources DEF Placed, RestorePending, AckOK
<1>2. ASSUME Quiet, UNCHANGED job PROVE CheckOK'
  BY <1>1, <1>2 DEF Quiet, CheckOK, FillWithin
<1>3. CASE Engine
  <2>1. Leads
    BY <1>3, EngineLeads
  <2>2. ASSUME NEW o \in Orders, Signal(o) PROVE job'.snap = NoSnap
    BY <2>2 DEF Signal, HandlerOK, Keeping, Fetching, Cancelling, Resolving, TypeInv, TypeOK,
       ControlType, Job
  <2> QED  BY <2>1, <2>2 DEF Leads, CheckOK
<1>4. CASE Deliver
  <2>1. Wakes
    BY <1>4, DeliverWakes
  <2>2. Reads
    BY <1>4 DEF Deliver, OnAccepted, OnFilled, OnExpired, OnCancelled, OnError, OnClosed,
       Handle, Reads
  <2> SUFFICES ASSUME job.pc = "dup", job.snap # NoSnap, NEW o \in Orders, HasMeta(o)'
               PROVE  o \in job.snap.ords \/ (order'[o] # "working" /\ FillWithin(o, job.barrier)')
    BY <2>1 DEF Wakes, CheckOK
  <2>3. HasMeta(o)
    BY <1>1, <2>1 DEF Wakes
  <2> QED  BY <2>1, <2>2, <2>3, BarrierStep DEF CheckOK, Reads
<1>5. CASE Outside
  <2>1. Turns /\ UNCHANGED job
    BY <1>5 DEF Outside, BrokerStep, Accept, Reject, Fill, Expire, StopOut, ServeCancel,
       ServeClose, Turns
  <2> SUFFICES ASSUME job.pc = "dup", job.snap # NoSnap, NEW o \in Orders, HasMeta(o)'
               PROVE  o \in job.snap.ords \/ (order'[o] # "working" /\ FillWithin(o, job.barrier)')
    BY <2>1 DEF CheckOK
  <2>2. HasMeta(o) /\ o \in Acks
    BY <1>1, <2>1
  <2> QED  BY <2>1, <2>2, TurnWithin DEF CheckOK
<1>6. CASE ServeReconcile
  <2>1. /\ job'.snap = CurrentSnapshot /\ job'.barrier = Len(events)
        /\ UNCHANGED <<order, events>>
    BY <1>0, <1>6 DEF ServeReconcile, Job, brokerVars
  <2>2. \A o \in Orders : order[o] = "working" => o \in job'.snap.ords
    BY <2>1 DEF CurrentSnapshot, WorkingOrders
  <2>3. \A i \in DOMAIN events' : i <= job'.barrier
    BY <2>1 DEF TypeInv, TypeOK, BrokerType
  <2> QED  BY <2>1, <2>2, <2>3 DEF CheckOK, FillWithin
<1>7. CASE CacheExpires \/ UNCHANGED vars \/ \E o \in Orders : Age(o)
  <2>1. Quiet /\ UNCHANGED job
    BY <1>7 DEF CacheExpires, vars, Age, brokerVars, Quiet
  <2> QED  BY <1>2, <2>1
<1>8. CASE Crash
  BY <1>8 DEF Crash, FreshProgram, Idle, CheckOK
<1> QED  BY <1>3, <1>4, <1>5, <1>6, <1>7, <1>8 DEF Next

LEMMA PlaceStep ==
    ASSUME BookInv, HandlerOK, AckOK, CheckOK, PlaceOK, [Next]_vars
    PROVE  PlaceOK'
<1> USE DEF BookInv
<1>0. TypeInv /\ PlacingOK /\ job.snap \in Snapshot \cup {NoSnap} /\ job \in Job
  BY DEF TypeInv, TypeOK, ControlType, Job
<1>1. ASSUME UNCHANGED <<job.pc, job.bar>>, ~Placed PROVE PlaceOK'
  <2> SUFFICES ASSUME job.pc = "place", NEW o \in Orders, HasMeta(o)', PairOf[o] = job.bar,
                      MayFill(o)'
               PROVE  FALSE
    BY <1>1 DEF PlaceOK
  <2>1. HasMeta(o) /\ o \in Acks
    BY <1>1, MetaSources DEF RestorePending, AckOK
  <2>2. MayFill(o)
    BY <1>0, <2>1, OrderForward
  <2> QED  BY <2>1, <2>2 DEF PlaceOK
<1>2. CASE Place
  <2> SUFFICES ASSUME NEW o \in Orders, HasMeta(o)', PairOf[o] = job'.bar, MayFill(o)'
               PROVE  FALSE
    BY DEF PlaceOK
  <2>1. /\ job.pc = "dup" /\ job.snap # NoSnap /\ job.barrier = 0 /\ job'.bar = job.bar
        /\ job.snap \in Snapshot /\ o \notin Duplicates
    BY <1>0, <1>2 DEF Place, Answered, Job
  <2>2. HasMeta(o) /\ o \in Acks
    BY <2>1, MetaSources DEF Placed, RestorePending, AckOK
  <2>3. MayFill(o)
    BY <1>0, <2>2, OrderForward
  <2>4. o \notin job.snap.ords
    BY <2>1, <2>2 DEF Duplicates
  <2>5. order[o] # "working" /\ FillWithin(o, 0)
    BY <2>1, <2>2, <2>4 DEF CheckOK
  <2>6. ~FillAhead(o)
    BY <2>5 DEF FillWithin, FillAhead, TypeInv, TypeOK, BrokerType
  <2> QED  BY <2>3, <2>5, <2>6 DEF MayFill
<1>3. CASE Engine /\ ~Place
  <2>1. Leads
    BY <1>0, <1>3, EngineLeads
  <2> QED  BY <1>3, <2>1 DEF Leads, PlaceOK
<1>4. CASE Deliver
  <2>1. Wakes
    BY <1>0, <1>4, DeliverWakes
  <2>2. ~Placed \/ job'.pc # "place"
    BY <1>0 DEF Placed, Idle
  <2> QED  BY <1>1, <2>1, <2>2 DEF Wakes, PlaceOK
<1>5. CASE Outside \/ CacheExpires \/ UNCHANGED vars \/ ServeReconcile \/ \E o \in Orders : Age(o)
  <2>1. UNCHANGED <<job.pc, job.bar>>
    BY <1>0, <1>5 DEF Outside, CacheExpires, vars, Age, ServeReconcile, Job
  <2>2. ~Placed \/ job'.pc # "place"
    BY <1>0 DEF Placed, Idle
  <2> QED  BY <1>1, <2>1, <2>2 DEF PlaceOK
<1>6. CASE Crash
  BY <1>6 DEF Crash, FreshProgram, Idle, PlaceOK
<1> QED  BY <1>2, <1>3, <1>4, <1>5, <1>6 DEF Next

LEMMA OneStep ==
    ASSUME BookInv, HandlerOK, AckOK, PlaceOK, OneMayFill, [Next]_vars
    PROVE  OneMayFill'
<1> USE DEF BookInv
<1> SUFFICES ASSUME NEW o \in Orders, NEW c \in Orders, o # c,
                    HasMeta(o)', HasMeta(c)', MayFill(o)', MayFill(c)',
                    PairOf[o] = PairOf[c], DirOf[o] = DirOf[c]
             PROVE  FALSE
  BY DEF OneMayFill
<1>1. ASSUME NEW k \in Orders, HasMeta(k), MayFill(k)' PROVE MayFill(k)
  BY <1>1, OrderForward DEF AckOK
<1>2. CASE Placed
  <2>1. job.pc = "place" /\ job.cur \in Orders /\ PairOf[job.cur] = job.bar
    BY <1>2 DEF Placed, TypeInv, LocalsOK, HandlerOK
  <2>2. \A k \in Orders : HasMeta(k)' => HasMeta(k) \/ k = job.cur
    BY <2>1, MetaSources DEF RestorePending
  <2>3. \A k \in Orders : (HasMeta(k) /\ PairOf[k] = job.bar) => ~MayFill(k)
    BY <2>1 DEF PlaceOK
  <2> QED  BY <1>1, <2>1, <2>2, <2>3 DEF OneMayFill
<1>3. ASSUME NEW k \in Orders, RestorePending(k), OwnGrid(k) = <<>>,
             NEW x \in Orders, x # k, HasMeta(x)', PairOf[x] = PairOf[k], DirOf[x] = DirOf[k]
      PROVE  FALSE
  <2>1. ~HasPending(OwnGrid(x), x)
    BY <1>3 DEF OwnGrid, HasPending
  <2>2. ~HasMeta(x)
    BY <2>1 DEF BookOK
  <2> QED  BY <1>3, <2>2 DEF RestorePending, HasMeta, TypeInv, TypeOK, BookType
<1> QED  BY <1>1, <1>2, <1>3, MetaSources DEF OneMayFill

KnownInv == BookInv /\ HandlerOK /\ AckOK /\ KnownOK

LEMMA KnownInit == Init => AckOK /\ KnownOK
<1> SUFFICES ASSUME Init PROVE AckOK /\ KnownOK
  OBVIOUS
<1>1. /\ job.pc = "boot_pos" /\ job.snap = NoSnap /\ cache = NoSnap /\ events = <<>>
      /\ \A o \in Orders : ~HasMeta(o)
  BY DEF Init, BrokerInit, Idle, HasMeta, NoMeta
<1> QED  BY <1>1 DEF AckOK, OrdsIn, KnownOK, CheckOK, PlaceOK, OneMayFill

LEMMA KnownCorrect ==
    ASSUME ~ReconcileMayTimeOut
    PROVE  Spec => []KnownInv
<1>1. Init => KnownInv
  BY BookInit, HandlerInit, KnownInit DEF KnownInv
<1>2. KnownInv /\ [Next]_vars => KnownInv'
  <2> SUFFICES ASSUME KnownInv, [Next]_vars PROVE KnownInv'
    OBVIOUS
  <2>1. BookInv'
    BY BookStep DEF KnownInv
  <2>2. HandlerOK'
    BY HandlerStep DEF KnownInv, BookInv
  <2>3. AckOK'
    BY AckStep DEF KnownInv
  <2>4. CheckOK' /\ PlaceOK' /\ OneMayFill'
    BY CheckStep, PlaceStep, OneStep DEF KnownInv, KnownOK
  <2> QED  BY <2>1, <2>2, <2>3, <2>4 DEF KnownInv, KnownOK
<1> QED  BY <1>1, <1>2, PTL DEF Spec

(* While Reconcile answers, the engine never has two orders it knows of    *)
(* resting in one grid, with orders both ways, stale caches, timeouts and  *)
(* restarts: the duplicate check of _place_grid_order looks at an answer   *)
(* that is at least as new as every order with metadata, and bootstrap     *)
(* takes one order for a grid.                                             *)
THEOREM OneOrderAGrid ==
    ASSUME ~ReconcileMayTimeOut
    PROVE  Spec => []OneKnownOrderPerGrid
<1>1. KnownInv => OneKnownOrderPerGrid
  BY DEF KnownInv, KnownOK, OneMayFill, MayFill, OneKnownOrderPerGrid
<1> QED  BY <1>1, KnownCorrect, PTL

-----------------------------------------------------------------------------
(* Beside the cleanup task, whose answer in the cache is one that the      *)
(* broker has acknowledged every order of.                                 *)
CleanAcked == OrdsIn(clean.snap, Acks)

(* The broker takes no acknowledgement back, and of what rests or is still *)
(* to be heard of nothing is new to the engine.                            *)
LEMMA BesideFills ==
    ASSUME TypeInv, Beside
    PROVE  /\ Acks' = Acks
           /\ \A o \in Orders : MayFill(o)' => MayFill(o)
           /\ \A o \in Orders : FillWithin(o, job.barrier) => FillWithin(o, job.barrier)'
           /\ \A i \in DOMAIN events' : \E k \in DOMAIN events : events'[i] = events[k]
<1>1. Acks' = Acks /\ UNCHANGED order
  BY DEF Beside, Acks
<1>2. CASE UNCHANGED <<events, job>>
  BY <1>1, <1>2 DEF MayFill, FillAhead, FillWithin
<1>3. CASE events # <<>> /\ events' = Tail(events) /\ job' = [job EXCEPT !.barrier = Passed]
  <2>1. \A i \in DOMAIN events' : i \in Nat /\ i + 1 \in DOMAIN events /\ events'[i] = events[i + 1]
    BY <1>3 DEF TypeInv, TypeOK, BrokerType
  <2>2. job.barrier \in Nat /\ job'.barrier = Passed
    BY <1>3 DEF TypeInv, TypeOK, ControlType, Job
  <2>3. ASSUME NEW o \in Orders, FillWithin(o, job.barrier)
        PROVE  FillWithin(o, job.barrier)'
    <3> SUFFICES ASSUME NEW i \in DOMAIN events', events'[i] = [type |-> "FILLED", ord |-> o]
                 PROVE  i <= job'.barrier
      BY DEF FillWithin
    <3>1. i + 1 <= job.barrier
      BY <2>1, <2>3 DEF FillWithin
    <3> QED  BY <2>1, <2>2, <3>1 DEF Passed
  <2>4. \A o \in Orders : MayFill(o)' => MayFill(o)
    BY <1>1, <2>1 DEF MayFill, FillAhead
  <2> QED  BY <1>1, <2>1, <2>3, <2>4
<1> QED  BY <1>2, <1>3 DEF Beside

LEMMA BesideKnown ==
    ASSUME BookInv, CleanAcked, AckOK, KnownOK, Beside
    PROVE  AckOK' /\ KnownOK'
<1>0. TypeInv /\ UNCHANGED <<order, meta>>
  BY DEF BookInv, Beside
<1>1. UNCHANGED <<job.pc, job.cur, job.snap, job.bar, job.todo, job.answer>>
  BY <1>0 DEF Beside, TypeInv, TypeOK, ControlType, Job
<1>2. cache' \in {cache, clean.snap}
  BY DEF Beside
<1>3. \A o : HasMeta(o)' <=> HasMeta(o)
  BY <1>0 DEF HasMeta
<1>4. AckOK'
  BY <1>0, <1>1, <1>2, <1>3, BesideFills DEF AckOK, CleanAcked
<1>5. CheckOK'
  BY <1>0, <1>1, <1>3, BesideFills DEF CheckOK, KnownOK
<1>6. PlaceOK' /\ OneMayFill'
  BY <1>0, <1>1, <1>3, BesideFills DEF PlaceOK, OneMayFill, KnownOK
<1> QED  BY <1>4, <1>5, <1>6 DEF KnownOK

LEMMA AckedStep ==
    ASSUME TypeInv, CleanAcked, Acks \subseteq Acks', clean'.snap \in Answers
    PROVE  CleanAcked'
<1>1. OrdsIn(CurrentSnapshot, Acks)
  BY DEF OrdsIn, CurrentSnapshot, WorkingOrders, Acks
<1>2. OrdsIn(clean'.snap, Acks)
  BY <1>1 DEF CleanAcked, Answers, OrdsIn
<1> QED  BY <1>2 DEF CleanAcked, OrdsIn

(* The same beside the cleanup task, that cancels resting orders behind    *)
(* the engine's back and answers Reconcile from its own requests.          *)
THEOREM SessionOneOrder ==
    ASSUME ~ReconcileMayTimeOut
    PROVE  SessionSpec => []OneKnownOrderPerGrid
<1> DEFINE Acked == CleanAcked /\ AckOK /\ KnownOK
<1>1. SessionInit => Acked
  <2>1. SessionInit => clean.snap = NoSnap
    BY DEF SessionInit, C!OrchestratorInit, C!Recovering, C!Asleep
  <2> QED  BY <2>1, KnownInit DEF SessionInit, CleanAcked, OrdsIn
<1>2. SessionInv /\ Acked /\ [SessionNext]_sessionVars => Acked'
  <2> SUFFICES ASSUME SessionInv, Acked, [SessionNext]_sessionVars PROVE Acked'
    OBVIOUS
  <2>1. TypeInv /\ PlacingOK /\ BookInv /\ HandlerOK /\ CleanType
    BY DEF SessionInv, BookInv
  <2>2. clean'.snap \in Answers /\ ([Next]_vars \/ Beside)
    BY <2>1, SessionStep
  <2>3. Acks \subseteq Acks'
    <3>1. CASE Beside
      BY <2>1, <3>1, BesideFills
    <3>2. CASE [Next]_vars
      BY <2>1, <3>2, OrderForward DEF Acks
    <3> QED  BY <2>2, <3>1, <3>2
  <2>4. CleanAcked'
    BY <2>1, <2>2, <2>3, AckedStep
  <2>5. CASE Beside
    BY <2>1, <2>4, <2>5, BesideKnown
  <2>6. CASE [Next]_vars
    BY <2>1, <2>4, <2>6, AckStep, CheckStep, PlaceStep, OneStep DEF KnownOK
  <2> QED  BY <2>2, <2>5, <2>6
<1>3. Acked => OneKnownOrderPerGrid
  BY DEF KnownOK, OneMayFill, MayFill, OneKnownOrderPerGrid
<1> HIDE DEF Acked
<1> QED  BY <1>1, <1>2, <1>3, SessionCorrect, PTL DEF SessionSpec

-----------------------------------------------------------------------------
(* What the proof of the refinement looks at. *)

(* A level waits for order c; level k names position c. *)
Pends(c) == OwnAt(c, NoOrder)
HeldBy(k, c) == At(PairOf[c], DirOf[c], k, c)

(* Only an order with metadata is past its TTL. *)
LateOK == \A o \in Orders : meta[o].late => HasMeta(o)

LevelsAcked ==
    \A p \in Pairs, d \in Dirs : \A c, x \in OrderOrNone :
        (At(p, d, c, x) /\ c # NoOrder) => c \in Acks

(* The level that the handler is about to remove is a pending one, or one  *)
(* that was filled meanwhile: it names no position but that of its order.  *)
TargetsOK ==
    \A o \in Orders : Targeted(o) =>
        \A x \in OrderOrNone : OwnAt(o, x) => x \in {NoOrder, o}

(* Positions that a Reconcile answer lists have no fill event ahead but    *)
(* those sent before it.                                                   *)
SeenOK ==
    /\ (job.snap # NoSnap /\ cache # NoSnap) => cache = job.snap
    /\ job.snap # NoSnap => \A o \in job.snap.pos : FillWithin(o, job.barrier)
    /\ cache # NoSnap => \A o \in cache.pos : FillWithin(o, job.barrier)
    /\ job.pc \in {"drop", "link"} =>
         \A o \in job.todo : ~FillAhead(o) /\ (cache # NoSnap => o \in cache.pos)
    /\ \A o \in Orders : IsAsked(o) => ~Held(o)
    /\ job.pc \in Starting => \A o \in Orders : order[o] = "free"

(* An open position that has one level and whose own level still waits:    *)
(* the one it has is not the level of an order that may fill yet, and the  *)
(* handler sees the position wherever it looks for it.                     *)
Both(c) == Pends(c) /\ Held(c) /\ order[c] = "open"
Firm(c) == \E k \in OrderOrNone : HeldBy(k, c) /\ (k \in Orders => ~MayFill(k))
Viewed(c) ==
    /\ job.snap # NoSnap => c \in job.snap.pos
    /\ cache # NoSnap => c \in cache.pos
    /\ job.pc = "drop" => c \in job.todo
FirmOK == \A c \in Orders : Both(c) => Firm(c) /\ Viewed(c)

(* An open position whose fill event came before its level did: until the  *)
(* next Reconcile links it, no other order of its pair may fill, and that  *)
(* Reconcile cannot miss it.                                               *)
Unlinked(c) == Pends(c) /\ ~Held(c) /\ order[c] = "open" /\ ~FillAhead(c)
Alone(c) ==
    \A k \in Orders : (k # c /\ HasMeta(k) /\ PairOf[k] = PairOf[c]) => ~MayFill(k)
Due(c) ==
    /\ job.bar = PairOf[c] =>
         /\ job.pc \in {"rec", "drop", "link"}
         /\ job.pc \in {"drop", "link"} => c \in job.todo
         /\ (job.pc = "rec" /\ job.snap # NoSnap) => c \in job.snap.pos
    /\ (cache # NoSnap /\ PairOf[c] \notin polled) => c \in cache.pos
UnlinkedOK == \A c \in Orders : Unlinked(c) => Alone(c) /\ Due(c)

BaseInv == WayInv /\ AckOK /\ KnownOK /\ SweepInv
LedgerInv ==
    BaseInv /\ LateOK /\ LevelsAcked /\ TargetsOK /\ SeenOK /\ FirmOK /\ UnlinkedOK

NoCrash == MaxCrashes = 0

-----------------------------------------------------------------------------
(* Levels and their names *)

LEMMA Lives ==
    ASSUME NoCrash, TypeInv
    PROVE  ~Crash
BY DEF NoCrash, Crash, TypeInv, TypeOK, ControlType

LEMMA OneLevel ==
    ASSUME BookInv, NEW p \in Pairs, NEW d \in Dirs, NEW c \in Orders,
           NEW x \in OrderOrNone, NEW y \in OrderOrNone, At(p, d, c, x), At(p, d, c, y)
    PROVE  x = y
<1>1. UniqueCids(grids[p][d]) /\ c # NoOrder
  BY GridFacts, NoOrderAssumption
<1> QED  BY <1>1 DEF At, Names, UniqueCids

LEMMA WaitsAt ==
    ASSUME BookInv, NEW c \in Orders
    PROVE  /\ Waits(c) <=> Pends(c)
           /\ HasMeta(c) => Pends(c)
<1>1. OwnGrid(c) = grids[PairOf[c]][DirOf[c]]
  BY DEF OwnGrid
<1>2. HasMeta(c) => HasPending(OwnGrid(c), c)
  BY DEF BookInv, BookOK
<1> QED  BY <1>1, <1>2 DEF Waits, Pends, OwnAt, At, Names, HasPending, IsPending

LEMMA PendsMeta ==
    ASSUME OwnOK, NEW c \in Orders, Pends(c)
    PROVE  HasMeta(c)
<1>1. PairOf[c] \in Pairs /\ DirOf[c] \in Dirs /\ c \in OrderOrNone /\ NoOrder \in OrderOrNone
  BY TermsAssumption DEF OrderOrNone
<1> QED  BY <1>1 DEF OwnOK, Pends, OwnAt

LEMMA HeldFacts ==
    ASSUME BookInv, NEW c \in Orders
    PROVE  /\ Held(c) <=> \E k \in OrderOrNone : HeldBy(k, c)
           /\ Held(c) => order[c] \in {"open", "closed"}
<1>1. Held(c) <=> \E k \in OrderOrNone : HeldBy(k, c)
  BY HeldAt DEF HeldBy
<1>2. ASSUME Held(c) PROVE c \in Filled
  <2>1. PICK i \in DOMAIN OwnGrid(c) : OwnGrid(c)[i].pid = c
    BY <1>2 DEF Held, HasPid
  <2>2. LevelOK(PairOf[c], OwnGrid(c)[i], Used, Filled)
    BY <2>1, TermsAssumption, GridFacts DEF OwnGrid
  <2> QED  BY <2>1, <2>2, NoOrderAssumption DEF LevelOK, IsPending
<1> QED  BY <1>1, <1>2 DEF Filled

LEMMA PendsUsed ==
    ASSUME BookInv, NEW c \in Orders, NEW x, OwnAt(c, x)
    PROVE  order[c] # "free"
<1>1. PICK i \in DOMAIN OwnGrid(c) : OwnGrid(c)[i].cid = c
  BY DEF OwnAt, At, Names, OwnGrid
<1>2. LevelOK(PairOf[c], OwnGrid(c)[i], Used, Filled)
  BY <1>1, TermsAssumption, GridFacts DEF OwnGrid
<1> QED  BY <1>1, <1>2, NoOrderAssumption DEF LevelOK, Used

(* How a level can come to be. *)
LEMMA LevelGain ==
    ASSUME NoCrash, WayInv, OneWay, [Next]_vars,
           NEW p \in Pairs, NEW d \in Dirs, NEW c \in OrderOrNone, NEW x \in OrderOrNone,
           At(p, d, c, x)'
    PROVE  \/ At(p, d, c, x)
           \/ c \in Orders /\ x = c /\ OnFilled(c) /\ Known(c)
           \/ /\ x \in Orders /\ LinkPosition(x) /\ ~Held(x)
              /\ c = NoOrder \/ (c \in Orders /\ OwnAt(c, NoOrder) /\ SameGrid(c, x))
           \/ /\ c \in Orders /\ ResolveLevel(c) /\ job'.pc = "res_loop"
              /\ x \in Orders /\ x \in job.snap.pos /\ OwnAt(c, NoOrder) /\ SameGrid(c, x)
           \/ c \in Orders /\ x = NoOrder /\ Placed /\ c = job.cur
           \/ c \in Orders /\ x = NoOrder /\ RestorePending(c)
<1>1. Move
  BY MoveStep DEF WayInv
<1>2. CASE Keeps
  BY <1>2 DEF Keeps
<1>3. CASE ForgetMove
  BY <1>3 DEF ForgetMove, Forgets
<1>4. CASE FillMove
  BY <1>4 DEF FillMove, Relinks
<1>5. CASE LinkMove
  BY <1>5 DEF LinkMove, Relinks
<1>6. CASE AdoptMove
  BY <1>6 DEF AdoptMove, Adopts
<1>7. CASE ExpectMove
  <2>1. Placed => job.cur \in Orders
    BY DEF Placed, WayInv, BookInv, TypeInv, LocalsOK
  <2> QED  BY <1>7, <2>1 DEF ExpectMove, Expects
<1>8. CASE DropMove
  BY <1>8 DEF DropMove, Drops
<1>9. ~CrashMove
  BY Lives DEF CrashMove, WayInv, BookInv
<1> QED  BY <1>1, <1>2, <1>3, <1>4, <1>5, <1>6, <1>7, <1>8, <1>9 DEF Move

(* How a level that names a position of another order can go. *)
LEMMA LevelLoss ==
    ASSUME NoCrash, WayInv, OneWay, TargetsOK, [Next]_vars,
           NEW p \in Pairs, NEW d \in Dirs, NEW c \in OrderOrNone, NEW x \in Orders,
           At(p, d, c, x), ~At(p, d, c, x)'
    PROVE  \/ x = c
           \/ c \in Orders /\ OnFilled(c)
           \/ DropStale /\ x \notin job.todo
           \/ CloseVerified
<1>0. x \in OrderOrNone /\ x # NoOrder /\ NoOrder \in OrderOrNone /\ BookInv
  BY NoOrderAssumption DEF OrderOrNone, WayInv
<1>1. Move
  BY MoveStep DEF WayInv
<1>2. \A k \in Orders : (k = c) => p = PairOf[k] /\ d = DirOf[k]
  BY <1>0, NoOrderAssumption DEF WayInv, OwnOK
<1>3. ASSUME NEW k \in Orders, k = c, OwnAt(k, NoOrder) PROVE FALSE
  <2>1. At(p, d, k, NoOrder) /\ At(p, d, k, x)
    BY <1>2, <1>3 DEF OwnAt
  <2> QED  BY <1>0, <2>1, OneLevel
<1>4. CASE ForgetMove
  <2>1. PICK o \in Orders : Forgets(o) /\ (Targeted(o) \/ OwnAt(o, NoOrder))
    BY <1>4 DEF ForgetMove
  <2>2. o = c
    BY <1>0, <2>1 DEF Forgets
  <2>3. OwnAt(o, x)
    BY <1>2, <2>2 DEF OwnAt
  <2> QED  BY <1>0, <1>3, <2>1, <2>2, <2>3 DEF TargetsOK
<1>5. CASE FillMove
  BY <1>0, <1>5 DEF FillMove, Relinks
<1>6. CASE LinkMove
  BY <1>0, <1>3, <1>6 DEF LinkMove, Relinks
<1>7. CASE DropMove
  BY <1>0, <1>7 DEF DropMove, Drops
<1>8. ~CrashMove
  BY <1>0, Lives DEF CrashMove, BookInv
<1>9. ~Keeps /\ ~AdoptMove /\ ~ExpectMove
  <2>1. ~Keeps
    BY <1>0 DEF Keeps
  <2>2. ~AdoptMove
    BY <1>0 DEF AdoptMove, Adopts
  <2>3. ~ExpectMove
    BY <1>0 DEF ExpectMove, Expects
  <2> QED  BY <2>1, <2>2, <2>3
<1> QED  BY <1>1, <1>4, <1>5, <1>6, <1>7, <1>8, <1>9 DEF Move

-----------------------------------------------------------------------------
(* The smaller invariants *)

LEMMA LateStep ==
    ASSUME BookInv, LateOK, [Next]_vars
    PROVE  LateOK'
<1> SUFFICES ASSUME NEW o \in Orders, meta'[o].late PROVE meta'[o].held
  BY DEF LateOK, HasMeta
<1> QED  BY MetaMoves DEF LateOK, HasMeta, Less, NoMeta, NewMeta

LEMMA LevelsAckedStep ==
    ASSUME NoCrash, OneWay, BaseInv, LevelsAcked, [Next]_vars
    PROVE  LevelsAcked'
<1> SUFFICES ASSUME NEW p \in Pairs, NEW d \in Dirs, NEW c \in OrderOrNone,
                    NEW x \in OrderOrNone, At(p, d, c, x)', c # NoOrder
             PROVE  c \in Acks'
  BY DEF LevelsAcked
<1>0. WayInv /\ BookInv /\ TypeInv /\ PlacingOK
  BY DEF BaseInv, WayInv, BookInv
<1>1. \A q \in Pairs, e \in Dirs : \A y \in OrderOrNone : At(q, e, c, y) => c \in Acks
  BY DEF LevelsAcked
<1>2. c \in Orders /\ PairOf[c] \in Pairs /\ DirOf[c] \in Dirs /\ NoOrder \in OrderOrNone
  BY TermsAssumption DEF OrderOrNone
<1>3. OwnAt(c, NoOrder) \/ Known(c) => c \in Acks
  BY <1>1, <1>2 DEF OwnAt, Known
<1>4. Placed /\ c = job.cur => c \in Acks
  BY DEF Placed, BaseInv, AckOK
<1>5. RestorePending(c) => c \in Acks
  BY DEF RestorePending, BaseInv, AckOK
<1>6. c \in Acks
  BY <1>0, <1>1, <1>2, <1>3, <1>4, <1>5, LevelGain
<1> QED  BY <1>0, <1>2, <1>6, OrderForward

-----------------------------------------------------------------------------
(* What the handler takes aim at. *)
LEMMA TargetSources ==
    ASSUME WayInv, LateOK, Engine, NEW o \in Orders, Targeted(o)'
    PROVE  Targeted(o) \/ HasMeta(o) \/ OwnAt(o, NoOrder)
<1> USE DEF WayInv, BookInv, TypeInv, TypeOK, ControlType, Job, Idle, Answered, Targeted,
            Removing
<1>1. CASE Link
  BY <1>1 DEF Link, LinkPosition
<1>2. CASE Bootstrap
  <2>1. BootPositions \/ BootOrders => job'.pc \in {"boot_link", "boot_ord"}
    BY DEF BootPositions, BootOrders
  <2>4. BootDone => job'.pc = "idle"
    BY DEF BootDone
  <2>2. BootLinked => job'.pc = "boot_pend"
    BY DEF BootLinked
  <2>3. ASSUME NEW c \in Orders, RestorePending(c) PROVE job'.pc = "boot_ord"
    BY <2>3 DEF RestorePending
  <2> QED  BY <1>2, <2>1, <2>2, <2>3, <2>4 DEF Bootstrap
<1>3. CASE Refresh
  <2>1. NextCycle \/ DropStale => job'.pc \in {"idle", "drop"}
    BY DEF NextCycle, DropStale
  <2>7. Reconcile => job'.pc = "drop"
    BY DEF Reconcile
  <2>8. Dropped => job'.pc = "link"
    BY DEF Dropped
  <2>9. TtlDone \/ AssessFails => job'.pc \in {"assess", "idle"}
    BY DEF TtlDone, AssessFails
  <2>2. ASSUME NEW p, StartBar(p) PROVE FALSE
    BY <2>2 DEF StartBar
  <2>3. ASSUME Linked PROVE HasMeta(o)
    BY <2>3 DEF Linked, LateOK
  <2>4. ASSUME NEW c \in Orders, TtlCancel(c) PROVE Targeted(o)
    <3>1. /\ job.pc = "ttl" /\ c \in job.todo /\ job'.todo = job.todo \ {c}
          /\ job'.pc = "ttl" \/ (job'.pc = "ttl_wait" /\ job'.cur = c)
      BY <2>4 DEF TtlCancel
    <3> QED  BY <3>1
  <2>5. TtlCancelled => Targeted(o)
    <3>1. TtlCancelled => job.pc = "ttl_wait" /\ job'.pc = "ttl" /\ UNCHANGED job.todo
      BY DEF TtlCancelled
    <3> QED  BY <3>1
  <2>6. ASSUME NEW v \in Verdicts, Assess(v) PROVE FALSE
    BY <2>6, AssessSweeps DEF Sweeps
  <2> QED  BY <1>3, <2>1, <2>2, <2>3, <2>4, <2>5, <2>6, <2>7,
           <2>8, <2>9 DEF Refresh
<1>4. CASE CancelPending
  <2>1. CancelAll => HasMeta(o)
    BY DEF CancelAll
  <2>2. ASSUME NEW c \in Orders, CancelTracked(c) PROVE Targeted(o)
    <3>1. /\ job.pc = "ca_loop" /\ c \in job.todo /\ job'.todo = job.todo \ {c}
          /\ job'.pc \in {"ca_tracked", "ca_direct"} /\ job'.cur = c
      BY <2>2 DEF CancelTracked
    <3> QED  BY <3>1
  <2>3. CancelledTracked => Targeted(o)
    <3>1. CancelledTracked => job.pc = "ca_tracked" /\ job'.pc = "ca_loop" /\ UNCHANGED job.todo
      BY DEF CancelledTracked
    <3> QED  BY <3>1
  <2>4. TrackedTimesOut => Targeted(o)
    BY DEF TrackedTimesOut
  <2>5. CancelDirect => Targeted(o)
    BY DEF CancelDirect
  <2>6. CancelledOwn => Targeted(o)
    BY DEF CancelledOwn
  <2>7. ~CancelAllDone
    BY CancelAllDoneSweeps DEF Sweeps
  <2> QED  BY <1>4, <2>1, <2>2, <2>3, <2>4, <2>5, <2>6, <2>7 DEF CancelPending
<1>5. CASE ClosePositions
  <2>1. ASSUME NEW c \in Orders, ResolveLevel(c)
        PROVE  OwnAt(o, NoOrder)
    <3>1. PICK i \in DOMAIN grids[job.here][job.side] :
            /\ grids[job.here][job.side][i].cid = c
            /\ IsPending(grids[job.here][job.side][i]) /\ job'.cur = c /\ job'.pc = "res_wait"
      BY <2>1 DEF ResolveLevel
    <3>2. job.here \in Pairs /\ job.side \in Dirs /\ o = c
      BY <2>1, <3>1 DEF ResolveLevel, HandlerOK, Resolving
    <3>3. At(job.here, job.side, c, NoOrder) /\ NoOrder \in OrderOrNone
      BY <3>1 DEF At, Names, IsPending, OrderOrNone
    <3>4. PairOf[c] = job.here /\ DirOf[c] = job.side
      BY <3>2, <3>3, NoOrderAssumption DEF OwnOK, OrderOrNone
    <3> QED  BY <3>2, <3>3, <3>4 DEF OwnAt
  <2>2. ResolveStart => job'.pc = "res_loop"
    BY DEF ResolveStart
  <2>5. ResolveCancelled => job'.pc = "res_loop"
    BY DEF ResolveCancelled
  <2>6. ListPositions => job'.pc = "cl_loop"
    BY DEF ListPositions
  <2>7. CloseVerified => job'.pc = "cl_loop"
    BY DEF CloseVerified
  <2>8. CloseAgain => job'.pc = "cl_check"
    BY DEF CloseAgain
  <2>9. CloseFails => job'.pc = "cl_loop"
    BY DEF CloseFails
  <2>10. CloseDone => job'.pc = "idle"
    BY DEF CloseDone
  <2>3. ~ResolveDone
    <3> SUFFICES ASSUME ResolveDone PROVE FALSE
      OBVIOUS
    <3>1. job' # [job EXCEPT !.side = "SHORT", !.todo = PendingCids(grids[job.here]["SHORT"])]
      BY DEF ResolveDone
    <3> QED  BY <3>1, ResolveDoneSweeps DEF Sweeps
  <2>4. ASSUME NEW c \in Orders, ClosePosition(c) PROVE FALSE
    BY <2>4 DEF ClosePosition
  <2> QED  BY <1>5, <2>1, <2>2, <2>3, <2>4, <2>5, <2>6, <2>7, <2>8,
           <2>9, <2>10 DEF ClosePositions
<1>6. CASE OpenLevel
  <2>1. NoSignal \/ SkipDuplicate \/ Placed \/ PlaceFails => job'.pc = "idle"
    BY DEF NoSignal, SkipDuplicate, Placed, PlaceFails
  <2>2. Place => job'.pc = "place"
    BY DEF Place
  <2>3. ASSUME NEW c \in Orders, Signal(c) PROVE job'.pc = "dup"
    BY <2>3 DEF Signal
  <2> QED  BY <1>6, <2>1, <2>2, <2>3 DEF OpenLevel
<1> QED  BY <1>1, <1>2, <1>3, <1>4, <1>5, <1>6 DEF Engine

LEMMA TargetsStep ==
    ASSUME NoCrash, OneWay, WayInv, LateOK, TargetsOK, [Next]_vars
    PROVE  TargetsOK'
<1> SUFFICES ASSUME NEW o \in Orders, Targeted(o)', NEW x \in OrderOrNone, OwnAt(o, x)'
             PROVE  x \in {NoOrder, o}
  BY DEF TargetsOK
<1>0. /\ PairOf[o] \in Pairs /\ DirOf[o] \in Dirs /\ o \in OrderOrNone /\ NoOrder \in OrderOrNone
      /\ BookInv /\ HandlerOK /\ TypeInv /\ o # NoOrder
  BY TermsAssumption, NoOrderAssumption DEF OrderOrNone, WayInv, BookInv
<1>1. Targeted(o) \/ HasMeta(o) \/ OwnAt(o, NoOrder)
  <2>1. CASE Engine
    BY <2>1, TargetSources
  <2>2. ASSUME UNCHANGED <<job.pc, job.todo, job.cur>> PROVE Targeted(o)
    BY <2>2 DEF Targeted
  <2>3. CASE Deliver
    BY <1>0, <2>2, <2>3, DeliverWakes DEF Wakes
  <2>4. CASE Outside \/ CacheExpires \/ UNCHANGED vars \/ ServeReconcile \/ \E c \in Orders : Age(c)
    <3>1. UNCHANGED <<job.pc, job.todo, job.cur>>
      BY <1>0, <2>4 DEF Outside, CacheExpires, vars, Age, ServeReconcile, Job, TypeInv,
         TypeOK, ControlType
    <3> QED  BY <2>2, <3>1
  <2> QED  BY <1>0, <2>1, <2>3, <2>4, Lives DEF Next
<1>2. OwnAt(o, NoOrder) => \A y \in OrderOrNone : OwnAt(o, y) => y = NoOrder
  BY <1>0, OneLevel DEF OwnAt
<1>3. HasMeta(o) => OwnAt(o, NoOrder)
  BY <1>0, WaitsAt DEF Pends
<1>4. OwnAt(o, x) => x \in {NoOrder, o}
  BY <1>1, <1>2, <1>3 DEF TargetsOK
<1>5. ASSUME NEW b \in Orders, LinkPosition(b) PROVE FALSE
  BY <1>0, <1>5 DEF LinkPosition, Targeted, Removing, TypeInv, TypeOK, ControlType, Job
<1>6. job'.pc = "res_loop" => FALSE
  BY DEF Targeted, Removing
<1> QED  BY <1>0, <1>4, <1>5, <1>6, LevelGain DEF OwnAt

-----------------------------------------------------------------------------
(* What the handler has seen of the broker. *)

(* The handler goes on when everything pushed before the answer is read. *)
LEMMA EngineReady ==
    ASSUME TypeInv, HandlerOK, Engine
    PROVE  job.barrier = 0 /\ job'.barrier \in Nat /\ UNCHANGED events
<1>1. job.pc \notin Fetching \/ job.barrier = 0
  BY EngineCalm DEF Calm
<1>2. job'.barrier \in Nat
  BY TypeStep DEF TypeInv, TypeOK, ControlType, Job, Next
<1>3. UNCHANGED events
  BY EngineEvents
<1> QED  BY <1>1, <1>2, <1>3 DEF HandlerOK

LEMMA Within ==
    ASSUME TypeInv, NEW o
    PROVE  /\ FillWithin(o, 0) <=> ~FillAhead(o)
           /\ \A n \in Nat : ~FillAhead(o) => FillWithin(o, n)
BY DEF FillWithin, FillAhead, TypeInv, TypeOK, BrokerType

LEMMA ServedNow ==
    ASSUME TypeInv, ~ReconcileMayTimeOut, ServeReconcile
    PROVE  /\ job.pc \in Fetching /\ job.snap = NoSnap
           /\ job'.snap = CurrentSnapshot /\ job'.barrier = Len(events)
           /\ cache' = CurrentSnapshot
           /\ UNCHANGED <<job.pc, job.bar, job.todo, job.cur>>
           /\ UNCHANGED <<order, events, grids, meta, polled>>
BY DEF ServeReconcile, TypeInv, TypeOK, ControlType, Job, brokerVars, bookVars

(* Fills that are ahead stay among those the handler awaits, of orders     *)
(* that are filled already.                                                *)
LEMMA WithinStep ==
    ASSUME BookInv, HandlerOK, ~ReconcileMayTimeOut, [Next]_vars, ~Crash, ~ServeReconcile,
           NEW o \in Filled, FillWithin(o, job.barrier)
    PROVE  FillWithin(o, job.barrier)'
<1>0. TypeInv /\ job.barrier \in Nat /\ o \in Orders
  BY DEF BookInv, TypeInv, TypeOK, ControlType, Job, Filled
<1>1. CASE Engine
  <2>1. job.barrier = 0 /\ job'.barrier \in Nat /\ UNCHANGED events
    BY <1>0, <1>1, EngineReady
  <2>2. ~FillAhead(o)
    BY <1>0, <2>1, Within
  <2> QED  BY <1>0, <2>1, <2>2, Within DEF FillWithin
<1>2. CASE Deliver
  <2>1. Wakes /\ Reads
    BY <1>0, <1>2, DeliverWakes DEF Deliver, OnAccepted, OnFilled, OnExpired, OnCancelled,
       OnError, OnClosed, Handle, Reads
  <2> QED  BY <1>0, <2>1, BarrierStep
<1>3. CASE Outside
  <2>1. Turns
    BY <1>3 DEF Outside, BrokerStep, Accept, Reject, Fill, Expire, StopOut, ServeCancel,
       ServeClose, Turns
  <2>2. order[o] # "working" /\ o \in Acks
    BY <1>0 DEF Filled, Acks
  <2> QED  BY <1>0, <2>1, <2>2, TurnWithin
<1>4. CASE CacheExpires \/ UNCHANGED vars \/ \E c \in Orders : Age(c)
  <2>1. UNCHANGED <<job, events>>
    BY <1>4 DEF CacheExpires, vars, Age, brokerVars
  <2> QED  BY <2>1 DEF FillWithin
<1> QED  BY <1>1, <1>2, <1>3, <1>4 DEF Next

SameView ==
    /\ UNCHANGED <<job.pc, job.snap, job.bar, job.todo, job.cur, polled>>
    /\ cache' \in {cache, NoSnap}

(* The answers, and the list of positions that is walked, change where the *)
(* handler goes on, and where Reconcile answers.                           *)
LEMMA ViewMoves ==
    ASSUME TypeInv, [Next]_vars, ~Crash
    PROVE  Engine \/ ServeReconcile \/ SameView
<1>1. CASE Deliver
  BY <1>1, DeliverWakes DEF Wakes, SameView
<1>2. CASE Outside \/ CacheExpires \/ UNCHANGED vars \/ \E c \in Orders : Age(c)
  BY <1>2 DEF Outside, CacheExpires, vars, Age, pollVars, SameView
<1> QED  BY <1>1, <1>2 DEF Next

LEMMA AnswersStep ==
    ASSUME BookInv, HandlerOK, ~ReconcileMayTimeOut, SeenOK, [Next]_vars, ~Crash
    PROVE  /\ (job.snap # NoSnap /\ cache # NoSnap => cache = job.snap)'
           /\ (job.snap # NoSnap => \A o \in job.snap.pos : FillWithin(o, job.barrier))'
           /\ (cache # NoSnap => \A o \in cache.pos : FillWithin(o, job.barrier))'
<1>0. TypeInv /\ \A snap \in {job.snap, cache} : snap # NoSnap => snap.pos \subseteq Filled
  BY DEF BookInv, ViewOK, SnapshotOK
<1>1. CASE ServeReconcile
  <2>1. /\ job'.snap = CurrentSnapshot /\ cache' = CurrentSnapshot
        /\ job'.barrier = Len(events) /\ UNCHANGED events
    BY <1>0, <1>1, ServedNow
  <2>2. \A o : FillWithin(o, job.barrier)'
    BY <1>0, <2>1 DEF FillWithin, TypeInv, TypeOK, BrokerType
  <2> QED  BY <2>1, <2>2
<1>2. ASSUME ~ServeReconcile,
             job'.snap \in {job.snap, NoSnap} \/ job'.snap = cache,
             cache' \in {cache, NoSnap}
      PROVE  /\ (job.snap # NoSnap /\ cache # NoSnap => cache = job.snap)'
             /\ (job.snap # NoSnap => \A o \in job.snap.pos : FillWithin(o, job.barrier))'
             /\ (cache # NoSnap => \A o \in cache.pos : FillWithin(o, job.barrier))'
  <2>1. ASSUME NEW snap \in {job.snap, cache}, snap # NoSnap, NEW o \in snap.pos
        PROVE  FillWithin(o, job.barrier)'
    BY <1>0, <1>2, <2>1, WithinStep DEF SeenOK
  <2> QED  BY <1>2, <2>1 DEF SeenOK
<1>3. CASE Engine /\ ~ServeReconcile
  <2>1. Leads /\ cache' \in {cache, NoSnap}
    BY <1>0, <1>3, EngineLeads, EngineEvents
  <2>2. ASSUME NEW p \in Pairs, StartBar(p) PROVE job'.snap = cache
    BY <2>2 DEF StartBar, Idle
  <2> QED  BY <1>2, <1>3, <2>1, <2>2 DEF Leads
<1>4. CASE SameView /\ ~ServeReconcile
  BY <1>2, <1>4 DEF SameView
<1> QED  BY <1>0, <1>1, <1>3, <1>4, ViewMoves

LEMMA WalkStep ==
    ASSUME BookInv, HandlerOK, ~ReconcileMayTimeOut, SeenOK, [Next]_vars, ~Crash
    PROVE  (job.pc \in {"drop", "link"} =>
               \A o \in job.todo : ~FillAhead(o) /\ (cache # NoSnap => o \in cache.pos))'
<1>0. TypeInv
  BY DEF BookInv
<1> SUFFICES ASSUME job'.pc \in {"drop", "link"}, NEW o \in job'.todo
             PROVE  ~FillAhead(o)' /\ (cache' # NoSnap => o \in cache'.pos)
  OBVIOUS
<1>1. CASE Engine
  <2>1. Leads /\ cache' \in {cache, NoSnap} /\ UNCHANGED events /\ job.barrier = 0
    BY <1>0, <1>1, EngineLeads, EngineReady, EngineEvents
  <2>2. CASE Reconcile
    <3>1. job.snap # NoSnap /\ job'.todo = job.snap.pos
      BY <1>0, <2>2 DEF Reconcile, Answered, TypeInv, TypeOK, ControlType, Job
    <3>2. FillWithin(o, 0) /\ (cache # NoSnap => cache = job.snap)
      BY <2>1, <3>1 DEF SeenOK
    <3> QED  BY <1>0, <2>1, <3>1, <3>2, Within DEF FillAhead
  <2>3. ASSUME job.pc \in {"drop", "link"}, o \in job.todo
        PROVE  ~FillAhead(o)' /\ (cache' # NoSnap => o \in cache'.pos)
    BY <2>1, <2>3 DEF SeenOK, FillAhead
  <2>4. DropStale => job.pc = "drop" /\ UNCHANGED job
    BY DEF DropStale
  <2>5. Dropped => job.pc = "drop" /\ o \in job.todo
    BY <1>0 DEF Dropped, TypeInv, TypeOK, ControlType, Job
  <2>6. ASSUME NEW c \in Orders, LinkPosition(c), job.pc = "link" PROVE o \in job.todo
    BY <1>0, <2>6 DEF LinkPosition, TypeInv, TypeOK, ControlType, Job
  <2> QED  BY <2>1, <2>2, <2>3, <2>4, <2>5, <2>6 DEF Leads, Link
<1>2. CASE SameView /\ ~Engine
  <2>1. job.pc \in Running /\ o \in job.todo /\ cache' \in {cache, NoSnap}
    BY <1>2 DEF SameView, Running
  <2>2. UNCHANGED events
    BY <1>0, <1>2, <2>1, BrokerMoves DEF Quiet, Turns, Outside, Suspended, Reads, Deliver,
       OnAccepted, OnFilled, OnExpired, OnCancelled, OnError, OnClosed, Handle, Sends, Loses
  <2> QED  BY <1>2, <2>1, <2>2 DEF SameView, SeenOK, FillAhead
<1>3. ~ServeReconcile
  BY <1>0, ServedNow DEF Fetching
<1> QED  BY <1>0, <1>1, <1>2, <1>3, ViewMoves

LEMMA HeldNext ==
    ASSUME BookInv', NEW b \in Orders
    PROVE  Held(b)' <=> \E c \in OrderOrNone : At(PairOf[b], DirOf[b], c, b)'
<1>1. /\ OwnGrid(b)' = grids'[PairOf[b]][DirOf[b]]
      /\ grids'[PairOf[b]][DirOf[b]] \in Seq(Level)
  BY TermsAssumption DEF OwnGrid, BookInv, TypeInv, TypeOK, BookType
<1>2. ASSUME NEW i \in DOMAIN grids'[PairOf[b]][DirOf[b]]
      PROVE  grids'[PairOf[b]][DirOf[b]][i].cid \in OrderOrNone
  <2>1. grids'[PairOf[b]][DirOf[b]][i] \in Level
    BY <1>1
  <2> QED  BY <2>1 DEF Level
<1> QED  BY <1>1, <1>2 DEF Held, HasPid, At, Names

(* The order that is placed has no position yet, not even by its fill that *)
(* is read before the placement is answered.                               *)
LEMMA PlacedIsFree ==
    ASSUME NoCrash, OneWay, WayInv, ~ReconcileMayTimeOut, SeenOK, [Next]_vars,
           NEW o \in Orders, IsAsked(o)'
    PROVE  ~Held(o)'
<1>0. /\ BookInv /\ BookInv' /\ TypeInv /\ HandlerOK /\ PlacingOK
      /\ o \in OrderOrNone /\ o # NoOrder /\ PairOf[o] \in Pairs /\ DirOf[o] \in Dirs
      /\ job'.pc = "place" /\ job'.cur = o
  BY BookStep, NoOrderAssumption, TermsAssumption DEF WayInv, BookInv, OrderOrNone, IsAsked
<1>1. CASE Engine
  <2>1. Place
    BY <1>0, <1>1, EngineLeads DEF Leads
  <2>2. order[o] = "free" /\ UNCHANGED grids
    BY <1>0, <2>1 DEF Place, Answered, PlacingOK, TypeInv, TypeOK, ControlType, Job, bookVars
  <2>3. ~Held(o)
    BY <1>0, <2>2, HeldFacts
  <2> QED  BY <2>2, <2>3 DEF Held, OwnGrid
<1>2. CASE ~Engine
  <2>1. job.pc = "place" /\ job.cur = o
    BY <1>0, <1>2, ViewMoves, ServedNow, Lives DEF SameView
  <2>2. ~Known(o)
    BY <1>0, <2>1 DEF PlacingOK, Known, OwnAt, At, Names, HasCid
  <2>3. ~Held(o)
    BY <2>1 DEF SeenOK, IsAsked
  <2> SUFFICES ASSUME Held(o)' PROVE FALSE
    OBVIOUS
  <2>4. PICK k \in OrderOrNone : At(PairOf[o], DirOf[o], k, o)'
    BY <1>0, HeldNext
  <2>5. ~At(PairOf[o], DirOf[o], k, o)
    BY <1>0, <2>3, HeldAt
  <2>6. ~LinkPosition(o) /\ ~(\E c \in Orders : ResolveLevel(c))
    BY <2>1 DEF LinkPosition, ResolveLevel
  <2> QED  BY <1>0, <2>2, <2>4, <2>5, <2>6, LevelGain
<1> QED  BY <1>1, <1>2

LEMMA StartStep ==
    ASSUME BookInv, HandlerOK, ~ReconcileMayTimeOut, SeenOK, [Next]_vars, ~Crash,
           job'.pc \in Starting
    PROVE  \A o \in Orders : order'[o] = "free"
<1>0. TypeInv
  BY DEF BookInv
<1>1. job.pc \in Starting
  BY <1>0, EngineLeads, ViewMoves, ServedNow DEF Leads, SameView
<1>2. \A o \in Orders : order[o] = "free"
  BY <1>1 DEF SeenOK
<1>3. CASE Turns
  <2>1. PICK c \in Orders, from \in OrderStates, to \in OrderStates, type \in EventTypes :
          Turned(c, from, to, type)
    BY <1>0, <1>3, TurnAppends
  <2>2. from = "free"
    BY <1>2, <2>1 DEF Turned
  <2> QED  BY <2>1, <2>2 DEF Turned, OrderStates
<1>4. ~Sends
  BY <1>1 DEF Sends, Place, Starting, Answered
<1> QED  BY <1>2, <1>3, <1>4, BrokerMoves DEF Quiet, Reads, Loses

LEMMA SeenStep ==
    ASSUME NoCrash, OneWay, WayInv, ~ReconcileMayTimeOut, SeenOK, [Next]_vars
    PROVE  SeenOK'
<1>1. BookInv /\ HandlerOK /\ ~Crash
  BY Lives DEF WayInv, BookInv
<1> QED  BY <1>1, AnswersStep, WalkStep, PlacedIsFree, StartStep DEF SeenOK

-----------------------------------------------------------------------------
(* How an order comes by an open position, a level that names it, and a level     *)
(* that waits.                                                             *)
LEMMA OneLevelNext ==
    ASSUME BookInv', NEW c \in Orders, Pends(c)', HeldBy(c, c)'
    PROVE  FALSE
<1>1. UniqueCids(grids'[PairOf[c]][DirOf[c]]) /\ c # NoOrder
  BY TermsAssumption, NoOrderAssumption DEF BookInv, BookOK, GridOK
<1> QED  BY <1>1 DEF Pends, HeldBy, OwnAt, At, Names, UniqueCids

LEMMA OpenSince ==
    ASSUME TypeInv, [Next]_vars, NEW c \in Orders, order'[c] = "open"
    PROVE  \/ order[c] = "open"
           \/ order[c] = "working" /\ UNCHANGED grids /\ FillAhead(c)'
<1> USE DEF TypeInv, TypeOK, BrokerType
<1>1. CASE Turns
  <2>1. PICK o \in Orders, from \in OrderStates, to \in OrderStates, type \in EventTypes :
          Turned(o, from, to, type)
    BY <1>1, TurnAppends
  <2>2. UNCHANGED grids
    BY <1>1 DEF Turns, Outside, bookVars
  <2>3. CASE o = c
    <3>1. type = "FILLED" /\ Len(events) + 1 \in DOMAIN events'
          /\ events'[Len(events) + 1] = [type |-> type, ord |-> c]
      BY <2>1, <2>3 DEF Turned
    <3> QED  BY <2>1, <2>2, <2>3, <3>1 DEF FillAhead, Turned
  <2> QED  BY <2>1, <2>3 DEF Turned
<1> QED  BY <1>1, BrokerMoves DEF Quiet, Reads, Sends, Loses

LEMMA HeldGain ==
    ASSUME NoCrash, OneWay, WayInv, [Next]_vars, NEW c \in Orders, Held(c)', ~Held(c)
    PROVE  \/ OnFilled(c) /\ Known(c)
           \/ LinkPosition(c)
           \/ \E k \in Orders : ResolveLevel(k)
<1>1. /\ BookInv /\ BookInv' /\ c \in OrderOrNone /\ c # NoOrder
      /\ PairOf[c] \in Pairs /\ DirOf[c] \in Dirs
  BY BookStep, NoOrderAssumption, TermsAssumption DEF WayInv, OrderOrNone
<1>2. PICK k \in OrderOrNone : At(PairOf[c], DirOf[c], k, c)'
  BY <1>1, HeldNext
<1>3. ~At(PairOf[c], DirOf[c], k, c)
  BY <1>1, HeldAt
<1> QED  BY <1>1, <1>2, <1>3, LevelGain

LEMMA PendsGain ==
    ASSUME NoCrash, OneWay, WayInv, SeenOK, [Next]_vars,
           NEW c \in Orders, order[c] # "free", Pends(c)', ~Pends(c)
    PROVE  Placed /\ IsAsked(c) /\ ~Held(c) /\ ~Held(c)'
<1>1. /\ NoOrder \in OrderOrNone /\ c \in OrderOrNone /\ c # NoOrder
      /\ PairOf[c] \in Pairs /\ DirOf[c] \in Dirs /\ NoOrder \notin Orders
  BY NoOrderAssumption, TermsAssumption DEF OrderOrNone
<1>2. (Placed /\ c = job.cur) \/ RestorePending(c)
  BY <1>1, LevelGain DEF Pends, OwnAt
<1>3. ~RestorePending(c)
  BY DEF RestorePending, SeenOK, Starting
<1>4. Placed /\ IsAsked(c) /\ ~Held(c)
  BY <1>2, <1>3 DEF Placed, IsAsked, SeenOK
<1>5. ASSUME Held(c)' PROVE FALSE
  <2>1. job.pc = "place" /\ job'.pc = "idle"
    BY <1>4 DEF Placed, Idle
  <2>2. ~OnFilled(c)
    BY <2>1, DeliverWakes DEF Deliver, Wakes, WayInv, BookInv
  <2> QED  BY <1>4, <1>5, <2>1, <2>2, HeldGain DEF LinkPosition, ResolveLevel
<1> QED  BY <1>4, <1>5

(* A fill that is read has its level, or none.                             *)
LEMMA FilledWaitsNot ==
    ASSUME BookInv, OwnOK, NEW c \in Orders, OnFilled(c)
    PROVE  ~Pends(c)' /\ FillAhead(c)
<1>1. /\ NoOrder \in OrderOrNone /\ c \in OrderOrNone /\ c # NoOrder
      /\ PairOf[c] \in Pairs /\ DirOf[c] \in Dirs
  BY NoOrderAssumption, TermsAssumption DEF OrderOrNone
<1>2. (Keeps /\ ~Known(c)) \/ Relinks(c, c)
  BY FillMoves DEF OnFilled
<1>3. ~Pends(c)'
  BY <1>1, <1>2 DEF Keeps, Relinks, Known, Pends, OwnAt
<1>4. FillAhead(c)
  <2>1. 1 \in DOMAIN events /\ events[1] = [type |-> "FILLED", ord |-> c]
    BY DEF OnFilled, Handle, BookInv, TypeInv, TypeOK, BrokerType
  <2> QED  BY <2>1 DEF FillAhead
<1> QED  BY <1>3, <1>4

LEMMA FillRead ==
    ASSUME TypeInv, [Next]_vars, ~Crash, NEW c \in Orders, FillAhead(c), ~FillAhead(c)'
    PROVE  OnFilled(c)
<1> USE DEF TypeInv, TypeOK, BrokerType
<1>1. PICK i \in DOMAIN events : events[i] = [type |-> "FILLED", ord |-> c]
  BY DEF FillAhead
<1>2. CASE Reads
  <2>1. i = 1
    <3> SUFFICES ASSUME i # 1 PROVE FALSE
      OBVIOUS
    <3>1. i - 1 \in DOMAIN events' /\ events'[i - 1] = events[i]
      BY <1>2 DEF Reads
    <3> QED  BY <1>1, <3>1 DEF FillAhead
  <2>2. Head(events) = [type |-> "FILLED", ord |-> c]
    BY <1>1, <1>2, <2>1 DEF Reads
  <2> QED  BY <1>2, <2>2 DEF Reads, Deliver, OnAccepted, OnFilled, OnExpired, OnCancelled,
           OnError, OnClosed, Handle
<1>3. ASSUME i \in DOMAIN events', events'[i] = events[i] PROVE FALSE
  BY <1>1, <1>3 DEF FillAhead
<1>4. ASSUME Turns PROVE FALSE
  <2>1. PICK o \in Orders, from \in OrderStates, to \in OrderStates, type \in EventTypes :
          Turned(o, from, to, type)
    BY <1>4, TurnAppends
  <2>2. i \in DOMAIN events' /\ events'[i] = events[i]
    BY <2>1 DEF Turned
  <2> QED  BY <1>3, <2>2
<1> QED  BY <1>2, <1>3, <1>4, BrokerMoves DEF Quiet, Sends, Loses

-----------------------------------------------------------------------------
(* A position that was adopted beside the level of its order.                   *)
LEMMA MayFillStep ==
    ASSUME BookInv, LevelsAcked, [Next]_vars, NEW p \in Pairs, NEW d \in Dirs,
           NEW k \in Orders, NEW x \in OrderOrNone, At(p, d, k, x), MayFill(k)'
    PROVE  MayFill(k)
<1>1. k \in Acks
  BY NoOrderAssumption DEF LevelsAcked, OrderOrNone
<1> QED  BY <1>1, OrderForward DEF BookInv

LEMMA FirmKept ==
    ASSUME NoCrash, OneWay, LedgerInv, [Next]_vars, NEW c \in Orders, Both(c)
    PROVE  Firm(c)'
<1>0. /\ WayInv /\ BookInv /\ OwnOK /\ TypeInv /\ TargetsOK /\ LevelsAcked /\ SweepInv
      /\ NoOrder \in OrderOrNone /\ c \in OrderOrNone /\ c # NoOrder
      /\ PairOf[c] \in Pairs /\ DirOf[c] \in Dirs
  BY NoOrderAssumption, TermsAssumption DEF OrderOrNone, LedgerInv, BaseInv, WayInv, BookInv
<1>1. PICK k \in OrderOrNone : HeldBy(k, c) /\ (k \in Orders => ~MayFill(k))
  BY DEF LedgerInv, FirmOK, Firm
<1>2. HeldBy(k, c)'
  <2> SUFFICES ASSUME ~HeldBy(k, c)' PROVE FALSE
    OBVIOUS
  <2>1. c # k
    BY <1>0, <1>1, OneLevel DEF Both, Pends, OwnAt, HeldBy
  <2>2. k \in Orders => ~OnFilled(k)
    BY <1>0, <1>1, FilledWaitsNot DEF MayFill
  <2>3. DropStale => c \in job.todo
    BY DEF DropStale, LedgerInv, FirmOK, Viewed
  <2>4. ~CloseVerified
    BY <1>0, PendsMeta DEF CloseVerified, Answered, SweepInv, Resolved, Closing, Clear, Both
  <2> QED  BY <1>0, <1>1, <2>1, <2>2, <2>3, <2>4, LevelLoss DEF HeldBy
<1>3. (k \in Orders /\ MayFill(k)') => FALSE
  BY <1>0, <1>1, MayFillStep DEF HeldBy
<1> QED  BY <1>2, <1>3 DEF Firm

LEMMA ViewedKept ==
    ASSUME LedgerInv, ~ReconcileMayTimeOut, [Next]_vars, ~Crash, NEW c \in Orders,
           order[c] = "open", Viewed(c)
    PROVE  Viewed(c)'
<1>0. TypeInv /\ HandlerOK
  BY DEF LedgerInv, BaseInv, WayInv, BookInv
<1>1. CASE SameView
  BY <1>1 DEF SameView, Viewed
<1>2. CASE ServeReconcile
  BY <1>0, <1>2, ServedNow DEF Viewed, CurrentSnapshot, Positions, Fetching
<1>3. CASE Engine
  <2>1. Leads /\ cache' \in {cache, NoSnap}
    BY <1>0, <1>3, EngineLeads, EngineEvents
  <2>2. ASSUME NEW p \in Pairs, StartBar(p) PROVE job'.snap = cache
    BY <2>2 DEF StartBar, Idle
  <2>3. Reconcile => job.snap # NoSnap /\ job'.todo = job.snap.pos
    BY <1>0 DEF Reconcile, Answered, TypeInv, TypeOK, ControlType, Job
  <2>4. DropStale => job.pc = "drop" /\ UNCHANGED job
    BY DEF DropStale
  <2> QED  BY <2>1, <2>2, <2>3, <2>4 DEF Leads, Viewed
<1> QED  BY <1>0, <1>1, <1>2, <1>3, ViewMoves

(* A position that gets its first level while its own still waits: it is   *)
(* the level of nobody, or of an order that cannot fill any more.          *)
LEMMA FirmMade ==
    ASSUME NoCrash, OneWay, LedgerInv, [Next]_vars, NEW c \in Orders,
           Pends(c), ~Held(c), order[c] = "open", Both(c)'
    PROVE  Firm(c)' /\ Viewed(c)'
<1>0. /\ WayInv /\ BookInv /\ BookInv' /\ OwnOK /\ TypeInv /\ TargetsOK /\ LevelsAcked
      /\ SweepInv /\ HandlerOK /\ SeenOK
      /\ NoOrder \in OrderOrNone /\ c \in OrderOrNone /\ c # NoOrder
      /\ PairOf[c] \in Pairs /\ DirOf[c] \in Dirs
  BY BookStep, NoOrderAssumption, TermsAssumption DEF OrderOrNone, LedgerInv, BaseInv, WayInv,
     BookInv
<1>1. PICK k \in OrderOrNone : At(PairOf[c], DirOf[c], k, c)'
  BY <1>0, HeldNext DEF Both
<1>2. ~At(PairOf[c], DirOf[c], k, c)
  BY <1>0, HeldAt
<1>3. k # c /\ ~OnFilled(c)
  BY <1>0, <1>1, OneLevelNext, FilledWaitsNot DEF Both, HeldBy
<1>4. \/ LinkPosition(c) /\ (k = NoOrder \/ (k \in Orders /\ OwnAt(k, NoOrder) /\ SameGrid(k, c)))
      \/ /\ k \in Orders /\ ResolveLevel(k) /\ job'.pc = "res_loop"
         /\ c \in job.snap.pos /\ OwnAt(k, NoOrder) /\ SameGrid(k, c)
  BY <1>0, <1>1, <1>2, <1>3, LevelGain
<1>5. ASSUME ~FillAhead(c), k \in Orders, OwnAt(k, NoOrder), SameGrid(k, c)
      PROVE  ~MayFill(k)'
  <2>1. Alone(c)
    BY <1>5 DEF LedgerInv, UnlinkedOK, Unlinked
  <2>2. ~MayFill(k)
    BY <1>0, <1>3, <1>5, <2>1, PendsMeta DEF Alone, Pends, SameGrid
  <2> QED  BY <1>0, <1>5, <2>2, MayFillStep, TermsAssumption DEF OwnAt
<1>6. CASE LinkPosition(c) /\ (k = NoOrder \/ (k \in Orders /\ OwnAt(k, NoOrder) /\ SameGrid(k, c)))
  <2>1. job.pc = "link" /\ c \in job.todo
    BY <1>6 DEF LinkPosition, SeenOK, LedgerInv, Starting
  <2>2. ~FillAhead(c) /\ (cache # NoSnap => c \in cache.pos)
    BY <2>1 DEF LedgerInv, SeenOK
  <2>3. Firm(c)'
    BY <1>1, <1>5, <1>6, <2>2, NoOrderAssumption DEF Firm, HeldBy
  <2>4. job'.pc = "link" /\ job'.snap = NoSnap /\ cache' = cache
    BY <1>0, <1>6, <2>1 DEF LinkPosition, HandlerOK, Keeping, Fetching, Cancelling, Resolving,
       TypeInv, TypeOK, ControlType, Job, pollVars
  <2> QED  BY <2>2, <2>3, <2>4 DEF Viewed
<1>7. CASE k \in Orders /\ ResolveLevel(k) /\ job'.pc = "res_loop"
           /\ c \in job.snap.pos /\ OwnAt(k, NoOrder) /\ SameGrid(k, c)
  <2>1. job.pc = "res_loop" /\ job.snap # NoSnap /\ job'.snap = job.snap /\ cache' = cache
    BY <1>0, <1>7 DEF ResolveLevel, TypeInv, LocalsOK, TypeOK, ControlType, Job, pollVars
  <2>2. job.barrier = 0
    BY <1>0, <2>1 DEF HandlerOK, Fetching
  <2>3. ~FillAhead(c) /\ (cache # NoSnap => c \in cache.pos)
    BY <1>0, <1>7, <2>1, <2>2, Within DEF SeenOK
  <2>4. Firm(c)'
    BY <1>1, <1>5, <1>7, <2>3 DEF Firm, HeldBy
  <2> QED  BY <1>7, <2>1, <2>3, <2>4 DEF Viewed
<1> QED  BY <1>4, <1>6, <1>7

LEMMA FirmStep ==
    ASSUME NoCrash, OneWay, LedgerInv, ~ReconcileMayTimeOut, [Next]_vars
    PROVE  FirmOK'
<1>0. BookInv /\ TypeInv /\ WayInv /\ SeenOK /\ ~Crash
  BY Lives DEF LedgerInv, BaseInv, WayInv, BookInv
<1> SUFFICES ASSUME NEW c \in Orders, Both(c)' PROVE Firm(c)' /\ Viewed(c)'
  BY DEF FirmOK
<1>1. order[c] = "open"
  <2> SUFFICES ASSUME UNCHANGED grids, order[c] = "working" PROVE FALSE
    BY <1>0, OpenSince DEF Both
  <2>1. Held(c)
    BY DEF Both, Held, OwnGrid
  <2> QED  BY <1>0, <2>1, HeldFacts
<1>2. Pends(c)
  BY <1>0, <1>1, PendsGain DEF Both
<1>3. CASE Held(c)
  <2>1. Both(c) /\ Viewed(c)
    BY <1>1, <1>2, <1>3 DEF Both, LedgerInv, FirmOK
  <2> QED  BY <1>0, <1>1, <2>1, FirmKept, ViewedKept
<1> QED  BY <1>1, <1>2, <1>3, FirmMade

-----------------------------------------------------------------------------
(* A position whose fill event came before its level did.                     *)
LEMMA AloneKept ==
    ASSUME LedgerInv, [Next]_vars, NEW c \in Orders, order[c] = "open", Alone(c),
           Placed => PairOf[job.cur] # PairOf[c]
    PROVE  Alone(c)'
<1> SUFFICES ASSUME NEW k \in Orders, k # c, HasMeta(k)', PairOf[k] = PairOf[c], MayFill(k)'
             PROVE  FALSE
  BY DEF Alone
<1>0. BookInv /\ PlacingOK /\ TypeInv /\ AckOK
  BY DEF LedgerInv, BaseInv, WayInv, BookInv
<1>1. ~RestorePending(k)
  BY DEF RestorePending, LedgerInv, SeenOK, Starting
<1>2. HasMeta(k)
  BY <1>0, <1>1, MetaSources
<1>3. MayFill(k)
  BY <1>0, <1>2, OrderForward DEF AckOK
<1> QED  BY <1>2, <1>3 DEF Alone

(* What becomes of the Reconcile of the bar. *)
LEMMA EngineFrom ==
    ASSUME TypeInv, Engine
    PROVE  /\ job.pc = "rec" => Reconcile
           /\ job.pc = "drop" => DropStale \/ Dropped
           /\ job.pc = "link" => Linked \/ Link
BY EngineCalm DEF Calm

(* What a cycle has polled stays polled while an answer is cached. *)
LEMMA PolledGrows ==
    ASSUME Engine
    PROVE  polled \subseteq polled' \/ cache' = NoSnap
BY EngineCalm DEF Calm

LEMMA LinkHolds ==
    ASSUME BookInv, BookInv', OwnOK, NEW c \in Orders, LinkPosition(c)
    PROVE  Held(c)'
<1>1. c \in OrderOrNone /\ NoOrder \in OrderOrNone /\ PairOf[c] \in Pairs /\ DirOf[c] \in Dirs
  BY TermsAssumption DEF OrderOrNone
<1>2. PICK width : RestorePosition(c, width)
  BY DEF LinkPosition
<1>3. CASE Held(c) /\ Keeps
  <2>1. PICK k \in OrderOrNone : At(PairOf[c], DirOf[c], k, c)
    BY <1>3, HeldAt
  <2>2. At(PairOf[c], DirOf[c], k, c)'
    BY <1>1, <1>3, <2>1 DEF Keeps
  <2> QED  BY <2>2, HeldNext
<1>4. ASSUME NEW k \in Orders, SameGrid(k, c), Relinks(k, c) PROVE Held(c)'
  <2>1. k \in OrderOrNone /\ At(PairOf[c], DirOf[c], k, c)'
    BY <1>1, <1>4 DEF Relinks, SameGrid, OrderOrNone
  <2> QED  BY <2>1, HeldNext
<1>5. CASE Adopts(c)
  <2>1. At(PairOf[c], DirOf[c], NoOrder, c)'
    BY <1>1, <1>5 DEF Adopts
  <2> QED  BY <1>1, <2>1, HeldNext
<1> QED  BY <1>2, <1>3, <1>4, <1>5, RestoreMoves

LEMMA DueKept ==
    ASSUME LedgerInv, ~ReconcileMayTimeOut, [Next]_vars, ~Crash,
           NEW c \in Orders, order[c] = "open", Due(c), ~Held(c)'
    PROVE  Due(c)'
<1>0. /\ TypeInv /\ HandlerOK /\ BookInv /\ BookInv' /\ OwnOK
      /\ PairOf[c] \in Pairs /\ PairOf[c] # NoPair
  BY BookStep, TermsAssumption, EngineAssumption DEF LedgerInv, BaseInv, WayInv, BookInv
<1>1. CASE SameView
  BY <1>1 DEF SameView, Due
<1>2. CASE ServeReconcile
  BY <1>0, <1>2, ServedNow DEF Due, CurrentSnapshot, Positions, Fetching
<1>3. CASE Engine
  <2>1. Leads /\ cache' \in {cache, NoSnap} /\ (polled \subseteq polled' \/ cache' = NoSnap)
    BY <1>0, <1>3, EngineLeads, EngineEvents, PolledGrows
  <2>2. (cache' # NoSnap /\ PairOf[c] \notin polled') => c \in cache'.pos
    BY <2>1 DEF Due
  <2> SUFFICES ASSUME job'.bar = PairOf[c]
               PROVE  /\ job'.pc \in {"rec", "drop", "link"}
                      /\ job'.pc \in {"drop", "link"} => c \in job'.todo
                      /\ (job'.pc = "rec" /\ job'.snap # NoSnap) => c \in job'.snap.pos
    BY <2>2 DEF Due
  <2>3. ASSUME NEW p \in Pairs, StartBar(p)
        PROVE  job'.pc = "rec" /\ (job'.snap # NoSnap => c \in job'.snap.pos)
    <3>1. job'.bar = p /\ job'.pc = "rec" /\ job'.snap = cache /\ p \notin polled
      BY <2>3 DEF StartBar, Idle
    <3> QED  BY <3>1 DEF Due
  <2>4. CASE ~(\E p \in Pairs : StartBar(p))
    <3>1. job.bar = PairOf[c]
      BY <1>0, <2>1, <2>4 DEF Leads
    <3>2. CASE Reconcile
      <4>1. job.pc = "rec" /\ job.snap # NoSnap /\ job'.pc = "drop" /\ job'.todo = job.snap.pos
        BY <1>0, <3>2 DEF Reconcile, Answered, TypeInv, TypeOK, ControlType, Job
      <4> QED  BY <3>1, <4>1 DEF Due
    <3>3. CASE DropStale
      BY <3>1, <3>3 DEF DropStale, Due
    <3>4. CASE Dropped
      <4>1. job.pc = "drop" /\ job'.pc = "link"
            /\ job'.todo = {o \in job.todo : PairOf[o] = job.bar}
        BY <1>0, <3>4 DEF Dropped, TypeInv, TypeOK, ControlType, Job
      <4> QED  BY <3>1, <4>1 DEF Due
    <3>5. ~(job.pc = "link" /\ Linked)
      BY <3>1 DEF Linked, Due
    <3>6. ASSUME NEW o \in Orders, LinkPosition(o), job.pc = "link"
          PROVE  job'.pc = "link" /\ c \in job'.todo
      <4>1. o # c
        BY <1>0, <3>6, LinkHolds
      <4>2. job'.pc = "link" /\ job'.todo = job.todo \ {o} /\ c \in job.todo
        BY <1>0, <3>1, <3>6 DEF LinkPosition, TypeInv, TypeOK, ControlType, Job, Due
      <4> QED  BY <4>1, <4>2
    <3>7. job.pc \in {"rec", "drop", "link"}
      BY <3>1 DEF Due
    <3> QED  BY <1>0, <1>3, <3>2, <3>3, <3>4, <3>5, <3>6, <3>7, EngineFrom DEF Link
  <2> QED  BY <2>3, <2>4
<1> QED  BY <1>0, <1>1, <1>2, <1>3, ViewMoves

(* An open position does not lose its only level while its own waits. *)
LEMMA NoLoss ==
    ASSUME NoCrash, OneWay, LedgerInv, [Next]_vars,
           NEW c \in Orders, Held(c), ~Held(c)', Pends(c)'
    PROVE  order[c] = "closed"
<1>0. BookInv /\ BookInv' /\ WayInv /\ SeenOK
  BY BookStep DEF LedgerInv, BaseInv, WayInv
<1>1. order[c] \in {"open", "closed"}
  BY <1>0, HeldFacts
<1>2. Pends(c)
  BY <1>0, <1>1, PendsGain
<1>3. order[c] = "open" => Firm(c)'
  BY <1>2, FirmKept DEF Both
<1>4. Firm(c)' => Held(c)'
  BY <1>0, HeldNext DEF Firm, HeldBy
<1> QED  BY <1>1, <1>3, <1>4

LEMMA UnlinkedStep ==
    ASSUME NoCrash, OneWay, LedgerInv, ~ReconcileMayTimeOut, [Next]_vars
    PROVE  UnlinkedOK'
<1>0. BookInv /\ TypeInv /\ WayInv /\ OwnOK /\ SeenOK /\ HandlerOK /\ PlaceOK /\ PlacingOK
      /\ ~Crash
  BY Lives DEF LedgerInv, BaseInv, WayInv, BookInv, KnownOK
<1> SUFFICES ASSUME NEW c \in Orders, Unlinked(c)' PROVE Alone(c)' /\ Due(c)'
  BY DEF UnlinkedOK
<1>1. order[c] = "open"
  BY <1>0, OpenSince DEF Unlinked
<1>2. ~Held(c)
  BY <1>1, NoLoss DEF Unlinked
<1>3. ~FillAhead(c)
  BY <1>0, FillRead, FilledWaitsNot DEF Unlinked
<1>4. CASE Pends(c)
  <2>1. Alone(c) /\ Due(c)
    BY <1>1, <1>2, <1>3, <1>4 DEF LedgerInv, UnlinkedOK, Unlinked
  <2>2. Placed => PairOf[job.cur] # PairOf[c]
    BY <1>0, <2>1 DEF Placed, HandlerOK, Due
  <2> QED  BY <1>0, <1>1, <2>1, <2>2, AloneKept, DueKept DEF Unlinked
<1>5. CASE ~Pends(c)
  <2>1. Placed /\ IsAsked(c)
    BY <1>0, <1>1, <1>5, PendsGain DEF Unlinked
  <2>2. /\ job.pc = "place" /\ job.cur = c /\ job.bar = PairOf[c] /\ job.bar \in polled
        /\ PairOf[c] # NoPair
    BY <1>0, <2>1, TermsAssumption, EngineAssumption DEF IsAsked, HandlerOK
  <2>3. Alone(c)'
    <3> SUFFICES ASSUME NEW k \in Orders, k # c, HasMeta(k)', PairOf[k] = PairOf[c], MayFill(k)'
                 PROVE  FALSE
      BY DEF Alone
    <3>1. HasMeta(k)
      BY <1>0, <2>2, MetaSources DEF RestorePending
    <3>2. k \in Acks
      BY <3>1 DEF LedgerInv, BaseInv, AckOK
    <3>3. MayFill(k)
      BY <1>0, <3>2, OrderForward
    <3> QED  BY <1>0, <2>2, <3>1, <3>3 DEF PlaceOK
  <2>4. Due(c)'
    <3>1. job'.bar = NoPair /\ polled' = polled
      BY <2>1 DEF Placed, Idle, pollVars
    <3> QED  BY <2>2, <3>1 DEF Due
  <2> QED  BY <2>3, <2>4
<1> QED  BY <1>4, <1>5

-----------------------------------------------------------------------------
(* The stages of an order. *)
LEMMA LedgerInit == Init => LedgerInv
<1> SUFFICES ASSUME Init PROVE LedgerInv
  OBVIOUS
<1>1. /\ job.pc = "boot_pos" /\ job.snap = NoSnap /\ cache = NoSnap /\ job.todo = {}
      /\ \A o \in Orders : order[o] = "free" /\ meta[o] = NoMeta
      /\ \A p \in Pairs, d \in Dirs : grids[p][d] = <<>>
  BY DEF Init, BrokerInit, Idle, EmptyGrids
<1>2. BookInv /\ HandlerOK /\ OwnOK /\ AckOK /\ KnownOK
  BY BookInit, HandlerInit, OwnInit, KnownInit
<1>3. SweepInv
  BY <1>1 DEF SweepInv, Resolved, Resolving, Closing, Cancelling
<1>4. LateOK
  BY <1>1 DEF LateOK, NoMeta
<1>5. \A p \in Pairs, d \in Dirs : \A c, x : ~At(p, d, c, x)
  BY <1>1 DEF At, Names
<1>6. LevelsAcked /\ TargetsOK
  BY <1>1, <1>5 DEF LevelsAcked, TargetsOK, Targeted, Removing
<1>7. \A o \in Orders : ~IsAsked(o)
  BY <1>1 DEF IsAsked
<1>8. SeenOK
  BY <1>1, <1>7 DEF SeenOK
<1>9. FirmOK /\ UnlinkedOK
  BY <1>1 DEF FirmOK, Both, UnlinkedOK, Unlinked
<1> QED  BY <1>2, <1>3, <1>4, <1>6, <1>8, <1>9 DEF LedgerInv, BaseInv, WayInv

LEMMA LedgerStep ==
    ASSUME NoCrash, OneWay, ~ReconcileMayTimeOut, LedgerInv, [Next]_vars
    PROVE  LedgerInv'
<1>1. /\ WayInv /\ BookInv /\ HandlerOK /\ OwnOK /\ AckOK /\ SweepInv /\ BaseInv
      /\ CheckOK /\ PlaceOK /\ OneMayFill /\ LateOK /\ LevelsAcked /\ TargetsOK /\ SeenOK
  BY DEF LedgerInv, BaseInv, WayInv, KnownOK
<1>2. BookInv' /\ HandlerOK'
  BY <1>1, BookStep, HandlerStep DEF BookInv
<1>3. OwnOK'
  BY <1>1, MoveStep, OwnStep
<1>4. AckOK' /\ CheckOK' /\ PlaceOK' /\ OneMayFill'
  BY <1>1, AckStep, CheckStep, PlaceStep, OneStep
<1>5. SweepInv' /\ LateOK'
  BY <1>1, SweepStep, LateStep
<1>6. LevelsAcked' /\ TargetsOK' /\ SeenOK'
  BY <1>1, LevelsAckedStep, TargetsStep, SeenStep
<1>7. FirmOK' /\ UnlinkedOK'
  BY FirmStep, UnlinkedStep
<1> QED  BY <1>2, <1>3, <1>4, <1>5, <1>6, <1>7 DEF LedgerInv, BaseInv, WayInv, KnownOK

(* What may become of one order. *)
LEMMA OrderStep ==
    ASSUME NoCrash, OneWay, ~ReconcileMayTimeOut, LedgerInv, [Next]_vars, NEW c \in Orders
    PROVE  /\ order[c] = "free" => \/ order'[c] = "free"
                                   \/ IsAsked(c)' /\ ~Held(c)' /\ ~Pends(c)'
           /\ order[c] # "free" =>
                /\ order'[c] # "free"
                /\ IsOver(c) => IsOver(c)'
                /\ IsAsked(c) => ~Held(c) /\ ~Held(c)' /\ ~Pends(c)
                /\ IsAsked(c)' => IsAsked(c)
                /\ (Pends(c)' /\ ~Pends(c)) => IsAsked(c)
                /\ (Held(c) /\ ~Held(c)' /\ Pends(c)') => IsOver(c)'
<1>0. /\ BookInv /\ BookInv' /\ TypeInv /\ WayInv /\ HandlerOK /\ SeenOK /\ SeenOK'
      /\ PlacingOK /\ PlacingOK'
      /\ PairOf[c] \in Pairs /\ DirOf[c] \in Dirs /\ ~Crash
  BY BookStep, SeenStep, TermsAssumption, Lives DEF LedgerInv, BaseInv, WayInv, BookInv
<1>1. CASE order[c] = "free"
  <2> SUFFICES ASSUME order'[c] # "free"
               PROVE  IsAsked(c)' /\ ~Held(c)' /\ ~Pends(c)'
    BY <1>1
  <2>1. ~Turns
    <3> SUFFICES ASSUME Turns PROVE FALSE
      OBVIOUS
    <3>1. PICK o \in Orders, from \in OrderStates, to \in OrderStates, type \in EventTypes :
            Turn(o, from, to, type) /\ from # "free"
      BY DEF Turns, OrderStates, EventTypes
    <3> QED  BY <1>0, <1>1, <3>1 DEF Turn, TypeInv, TypeOK, BrokerType
  <2>2. Place /\ c = job.cur
    BY <1>0, <1>1, <2>1, BrokerMoves DEF Quiet, Reads, Sends, Loses, TypeInv, TypeOK,
       BrokerType
  <2>3. job'.pc = "place" /\ job'.cur = c
    BY <1>0, <2>2 DEF Place, TypeInv, TypeOK, ControlType, Job
  <2>4. IsAsked(c)'
    BY <2>3 DEF IsAsked
  <2>5. ~Held(c)'
    BY <1>0, <2>4 DEF SeenOK
  <2>6. ~HasCid(grids'[PairOf[c]][DirOf[c]], c)
    BY <1>0, <2>3 DEF PlacingOK
  <2> QED  BY <2>4, <2>5, <2>6 DEF Pends, OwnAt, At, Names, HasCid
<1>2. CASE order[c] # "free"
  <2>1. order'[c] # "free" /\ (IsOver(c) => IsOver(c)')
    <3>1. CASE Turns
      <4>1. PICK o \in Orders, from \in OrderStates, to \in OrderStates, type \in EventTypes :
              /\ order[o] = from /\ order' = [order EXCEPT ![o] = to]
              /\ to \notin {"free", "sent"} /\ from \notin {"closed", "dead"}
        BY <3>1 DEF Turns, Turn, OrderStates, EventTypes
      <4> QED  BY <1>0, <1>2, <4>1 DEF IsOver, TypeInv, TypeOK, BrokerType
    <3>2. CASE Sends
      <4>1. job.cur \in Orders /\ order[job.cur] = "free"
        BY <1>0, <3>2 DEF Sends, Place, Answered, PlacingOK, TypeInv, LocalsOK
      <4> QED  BY <1>0, <1>2, <3>2, <4>1 DEF Sends, IsOver, TypeInv, TypeOK, BrokerType
    <3> QED  BY <1>2, <3>1, <3>2, BrokerMoves DEF Quiet, Reads, Loses, IsOver
  <2>2. ASSUME IsAsked(c) PROVE ~Held(c) /\ ~Held(c)' /\ ~Pends(c)
    <3>1. ~Held(c) /\ ~HasCid(grids[PairOf[c]][DirOf[c]], c) /\ job.pc = "place"
      BY <1>0, <2>2 DEF SeenOK, PlacingOK, IsAsked
    <3>2. ~Known(c) /\ ~Pends(c)
      BY <3>1 DEF Known, Pends, OwnAt, At, Names, HasCid
    <3> QED  BY <1>0, <3>1, <3>2, HeldGain DEF LinkPosition, ResolveLevel
  <2>3. ASSUME IsAsked(c)' PROVE IsAsked(c)
    <3>1. job'.pc = "place" /\ job'.cur = c
      BY <2>3 DEF IsAsked
    <3>2. CASE Engine
      <4>1. Place
        BY <1>0, <3>1, <3>2, EngineLeads DEF Leads
      <4>2. job.pc = "dup" /\ job.cur = c
        BY <1>0, <3>1, <4>1 DEF Place, Answered, TypeInv, TypeOK, ControlType, Job
      <4> QED  BY <1>0, <1>2, <4>2 DEF PlacingOK
    <3> QED  BY <1>0, <3>1, <3>2, ViewMoves, ServedNow DEF SameView, IsAsked
  <2>4. (Pends(c)' /\ ~Pends(c)) => IsAsked(c)
    BY <1>0, <1>2, PendsGain
  <2>5. (Held(c) /\ ~Held(c)' /\ Pends(c)') => IsOver(c)'
    BY <2>1, NoLoss DEF IsOver
  <2> QED  BY <1>2, <2>1, <2>2, <2>3, <2>4, <2>5
<1> QED  BY <1>1, <1>2

(* The stage of an order is one of its own, or one after it. *)
LEMMA StageStep ==
    ASSUME NoCrash, OneWay, ~ReconcileMayTimeOut, LedgerInv, LedgerInv', [Next]_vars,
           NEW c \in Orders
    PROVE  /\ StageOf(c) \in Ledger!Stages /\ StageOf(c)' \in Ledger!Stages
           /\ StageOf(c)' \in {StageOf(c)} \cup Ledger!After[StageOf(c)]
<1>0. BookInv /\ BookInv'
  BY DEF LedgerInv, BaseInv, WayInv
<1>1. (Waits(c) <=> Pends(c)) /\ (Waits(c)' <=> Pends(c)')
  <2>1. Waits(c) <=> Pends(c)
    BY <1>0, WaitsAt
  <2>2. Waits(c)' <=> Pends(c)'
    BY DEF Waits, Pends, OwnAt, At, Names, OwnGrid, IsPending
  <2> QED  BY <2>1, <2>2
<1>2. /\ StageOf(c) =
           IF order[c] = "free" THEN "unsent" ELSE IF Held(c) THEN "open"
           ELSE IF Pends(c) /\ IsOver(c) THEN "stale" ELSE IF Pends(c) THEN "pending"
           ELSE IF IsAsked(c) THEN "asked" ELSE IF IsOver(c) THEN "over" ELSE "missed"
      /\ StageOf(c)' =
           IF order'[c] = "free" THEN "unsent" ELSE IF Held(c)' THEN "open"
           ELSE IF Pends(c)' /\ IsOver(c)' THEN "stale" ELSE IF Pends(c)' THEN "pending"
           ELSE IF IsAsked(c)' THEN "asked" ELSE IF IsOver(c)' THEN "over" ELSE "missed"
  BY <1>1 DEF StageOf, Held
<1>3. StageOf(c) \in Ledger!Stages /\ StageOf(c)' \in Ledger!Stages
  BY <1>2 DEF Ledger!Stages
<1>4. CASE order[c] = "free"
  <2>1. order'[c] = "free" \/ (IsAsked(c)' /\ ~Held(c)' /\ ~Pends(c)')
    BY <1>4, OrderStep
  <2> QED  BY <1>2, <1>3, <1>4, <2>1 DEF Ledger!After
<1>5. CASE order[c] # "free"
  <2>1. /\ order'[c] # "free"
        /\ IsOver(c) => IsOver(c)'
        /\ IsAsked(c) => ~Held(c) /\ ~Held(c)' /\ ~Pends(c)
        /\ IsAsked(c)' => IsAsked(c)
        /\ (Pends(c)' /\ ~Pends(c)) => IsAsked(c)
        /\ (Held(c) /\ ~Held(c)' /\ Pends(c)') => IsOver(c)'
    BY <1>5, OrderStep
  <2> QED  BY <1>2, <1>3, <1>5, <2>1 DEF Ledger!After
<1> QED  BY <1>3, <1>4, <1>5

(* Where all orders of a pair go one way, Reconcile answers and the        *)
(* process lives, the grid engine implements OrderLedger: every step of    *)
(* the engine, the broker and the connection between them takes each order *)
(* from its stage to one after it or leaves it there.                      *)
THEOREM EngineKeepsLedger ==
    ASSUME NoCrash, OneWay, ~ReconcileMayTimeOut
    PROVE  Spec => KeepsLedger
<1>1. Init => LedgerInv
  BY LedgerInit
<1>2. LedgerInv /\ [Next]_vars => LedgerInv'
  BY LedgerStep
<1>3. Init => Ledger!Init
  <2> SUFFICES ASSUME Init, NEW c \in Orders PROVE StageOf(c) = "unsent"
    BY DEF Ledger!Init
  <2> QED  BY DEF Init, BrokerInit, StageOf
<1>4. LedgerInv /\ LedgerInv' /\ [Next]_vars
         => [Ledger!Next]_([o \in Orders |-> StageOf(o)])
  <2> SUFFICES ASSUME LedgerInv, LedgerInv', [Next]_vars PROVE Ledger!Next
    OBVIOUS
  <2>1. \A c \in Orders :
          /\ StageOf(c)' \in Ledger!Stages
          /\ StageOf(c)' \in {StageOf(c)} \cup Ledger!After[StageOf(c)]
    BY StageStep
  <2> QED  BY <2>1 DEF Ledger!Next
<1> QED  BY <1>1, <1>2, <1>3, <1>4, PTL DEF Spec, KeepsLedger, Ledger!Spec
=============================================================================
