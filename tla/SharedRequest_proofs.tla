------------------------ MODULE SharedRequest_proofs ------------------------
(***************************************************************************)
(* Whatever tasks, slots, scenarios, timeouts and answers there are: an    *)
(* answer that reaches a task belongs to its slot; and if the broker       *)
(* answers in time, requests are shared and futures answered, but for the  *)
(* futures that a finally clause takes out of their slot.                  *)
(***************************************************************************)
EXTENDS SharedRequest, TLAPS, FiniteSetTheorems, SequenceTheorems

Call == [pc : {"idle", "sleep", "wait", "dead"},
         key : Keys \cup {NoKey},
         fut : {0} \cup Futs, creator : BOOLEAN,
         left : 0 .. Timeout, expired : BOOLEAN,
         since : Ages]
Future == [state : {"free", "pending", "done", "failed", "cancelled"}, val : Result]

(* No two slots hold one future, and a future that some task of one slot   *)
(* waits for is not in another slot, nor has it the answer of another.     *)
SlotsApart ==
    \A s, r \in InUse : s # r /\ current[s] = current[r] => current[s] = 0
OwnFuture(t) ==
    /\ caller[t].key \in scope
    /\ caller[t].fut \in Futs
    /\ \A s \in InUse : current[s] = caller[t].fut => s = SlotOf[caller[t].key]
OwnAnswer(t) ==
    LET val == future[caller[t].fut].val IN
    val.kind = "answer" => val.key \in scope /\ SlotOf[val.key] = SlotOf[caller[t].key]
CallsOK == \A t \in Callers : InCall(t) => OwnFuture(t) /\ OwnAnswer(t)
PendingOK == \A f \in Futs : future[f].state = "pending" => future[f].val.kind # "answer"
QuestionsOK ==
    /\ \A i \in DOMAIN requests : requests[i].key \in scope
    /\ \A i \in DOMAIN answers : answers[i].key \in scope
(* Who waits for a pending future of a slot that no finally clause empties *)
(* waits for the one in the slot.                                          *)
WaitedForIsReachable ==
    \A t \in Callers :
        InCall(t) /\ Pending(caller[t].fut) /\ SlotOf[caller[t].key] \in Lasting =>
            current[SlotOf[caller[t].key]] = caller[t].fut
SharedInv == SlotsApart /\ CallsOK /\ PendingOK /\ QuestionsOK /\ WaitedForIsReachable

Inv == TypeOK /\ SharedInv

-----------------------------------------------------------------------------
(* What the constants give.                                                *)
LEMMA SlotFacts ==
    ASSUME TypeOK
    PROVE  /\ scope \subseteq Keys
           /\ \A k \in scope : SlotOf[k] \in InUse
           /\ InUse \subseteq Slots
           /\ IsFiniteSet(InUse) /\ Cardinality(InUse) \in Nat
           /\ IsFiniteSet(Callers) /\ Cardinality(Callers) \in Nat
           /\ Futs \subseteq Nat \ {0}
<1>1. scope \subseteq Keys
  BY RequestAssumption DEF TypeOK, scope
<1>2. /\ \A k \in scope : SlotOf[k] \in InUse
      /\ InUse \subseteq Slots
  BY <1>1, RequestAssumption DEF InUse
<1>3. IsFiniteSet(InUse) /\ IsFiniteSet(Callers)
  BY <1>2, RequestAssumption, FS_Subset
<1>4. Cardinality(InUse) \in Nat /\ Cardinality(Callers) \in Nat
  BY <1>3, FS_CardinalityType
<1> QED  BY <1>1, <1>2, <1>3, <1>4 DEF Futs

LEMMA AgeFacts ==
    /\ MaxAge \in Nat /\ 0 \in Ages
    /\ \A a \in Ages : Older(a) \in Ages
BY RequestAssumption DEF MaxAge, Ages, Older

(* A function does not have more values than arguments.                    *)
LEMMA FewValues ==
    ASSUME NEW S, IsFiniteSet(S), NEW f, f = [x \in S |-> f[x]], NEW T, T = {f[x] : x \in S}
    PROVE  IsFiniteSet(T) /\ Cardinality(T) <= Cardinality(S)
<1>1. f \in Surjection(S, T)
  BY DEF Surjection
<1> QED  BY <1>1, FS_Surjection

(* A task that begins a call finds a future that nobody refers to: every   *)
(* other task and every slot refers to one at most.                        *)
LEMMA FreshIsUnused ==
    ASSUME TypeOK, NEW t \in Callers, caller[t].pc = "idle"
    PROVE  Fresh \in Unused /\ Fresh \in Futs
<1> DEFINE others == Callers \ {t}
           atSlot == [s \in InUse |-> current[s]]
           atCall == [u \in others |-> caller[u].fut]
           A == {atSlot[s] : s \in InUse}
           B == {atCall[u] : u \in others}
<1>1. IsFiniteSet(others) /\ Cardinality(others) = Cardinality(Callers) - 1
  BY SlotFacts, FS_RemoveElement
<1>2. IsFiniteSet(A) /\ Cardinality(A) <= Cardinality(InUse)
  <2> HIDE DEF A
  <2>1. atSlot = [s \in InUse |-> atSlot[s]]
    OBVIOUS
  <2>2. A = {atSlot[s] : s \in InUse}
    BY DEF A
  <2> HIDE DEF atSlot
  <2> QED  BY <2>1, <2>2, SlotFacts, FewValues
<1>3. IsFiniteSet(B) /\ Cardinality(B) <= Cardinality(others)
  <2> HIDE DEF B
  <2>1. atCall = [u \in others |-> atCall[u]]
    OBVIOUS
  <2>2. B = {atCall[u] : u \in others}
    BY DEF B
  <2> HIDE DEF atCall, others
  <2> QED  BY <2>1, <2>2, <1>1, FewValues
<1>4. Cardinality(Futs) = Cardinality(Callers) + Cardinality(InUse)
  BY SlotFacts, FS_Interval DEF Futs
<1>5. Unused # {}
  <2> SUFFICES ASSUME Unused = {} PROVE FALSE
    OBVIOUS
  <2>1. ASSUME NEW f \in Futs PROVE f \in A \cup B
    <3>1. CASE \E s \in InUse : current[s] = f
      BY <3>1
    <3>2. CASE \E u \in Callers : InCall(u) /\ caller[u].fut = f
      BY <3>2 DEF InCall
    <3> QED  BY <3>1, <3>2 DEF Unused
  <2> HIDE DEF A, B, others
  <2>2. /\ IsFiniteSet(A \cup B)
        /\ Cardinality(A \cup B) = Cardinality(A) + Cardinality(B) - Cardinality(A \cap B)
    BY <1>2, <1>3, FS_Union
  <2>3. Cardinality(Futs) <= Cardinality(A \cup B)
    BY <2>1, <2>2, FS_Subset
  <2>4. Cardinality(A) \in Nat /\ Cardinality(B) \in Nat /\ Cardinality(A \cap B) \in Nat
    <3>1. IsFiniteSet(A \cap B)
      BY <1>2, FS_Subset
    <3> QED  BY <1>2, <1>3, <3>1, FS_CardinalityType
  <2> QED  BY <1>1, <1>2, <1>3, <1>4, <2>2, <2>3, <2>4, SlotFacts
<1> QED  BY <1>5 DEF Fresh, Unused

LEMMA SameScenario ==
    ASSUME scenario' = scenario
    PROVE  scope' = scope /\ prompt' = prompt /\ InUse' = InUse /\ Futs' = Futs
<1>1. scope' = scope /\ prompt' = prompt
  BY DEF scope, prompt
<1>2. InUse' = InUse
  BY <1>1 DEF InUse
<1> QED  BY <1>1, <1>2 DEF Futs

LEMMA Values ==
    /\ \A kind \in Kinds : Without(kind) \in Result
    /\ \A kind \in Kinds, key \in Keys, age \in Ages :
        [kind |-> kind, key |-> key, age |-> age] \in Result
    /\ \A key \in Keys : Answer(key, 0) \in Result
    /\ FreeFuture \in Future
BY AgeFacts DEF Kinds, Without, Result, Answer, FreeFuture, Future

LEMMA CallValues ==
    /\ NoCall \in Call
    /\ \A pc \in {"idle", "dead"} : [NoCall EXCEPT !.pc = pc] \in Call
    /\ \A f \in Futs, key \in Keys, pc \in {"sleep", "wait"}, creator \in BOOLEAN :
        [NoCall EXCEPT !.pc = pc, !.key = key, !.fut = f, !.creator = creator,
                       !.left = Timeout] \in Call
<1>1. Timeout \in Nat \ {0} /\ 0 \in 0 .. Timeout /\ Timeout \in 0 .. Timeout
  BY RequestAssumption
<1>2. NoCall \in Call
  BY <1>1, AgeFacts DEF NoCall, Call
<1> QED  BY <1>1, <1>2 DEF Call

(* TypeOK, with the records named.                                         *)
LEMMA Types ==
    TypeOK <=>
        /\ future \in [Futs -> Future]
        /\ current \in [InUse -> {0} \cup Futs]
        /\ caller \in [Callers -> Call]
        /\ requests \in Seq(Result) /\ answers \in Seq(Result)
        /\ Len(requests) + Len(answers) <= MaxRequests
        /\ cache \in [full : BOOLEAN, age : Ages, val : Result]
        /\ backoff \in BOOLEAN
        /\ scenario \in Scenarios
BY DEF TypeOK, Future, Call

LEMMA TypeInit == Init => TypeOK
<1> SUFFICES ASSUME Init PROVE TypeOK
  OBVIOUS
<1>1. Without("nothing") \in Result
  BY Values DEF Kinds
<1>2. /\ requests \in Seq(Result) /\ answers \in Seq(Result)
      /\ Len(requests) + Len(answers) <= MaxRequests
  BY RequestAssumption DEF Init
<1>3. [full |-> FALSE, age |-> 0, val |-> Without("nothing")]
        \in [full : BOOLEAN, age : Ages, val : Result]
  BY <1>1, AgeFacts
<1>4. future \in [Futs -> Future] /\ caller \in [Callers -> Call]
  BY Values, CallValues DEF Init
<1>5. current \in [InUse -> {0} \cup Futs]
  BY DEF Init
<1> QED  BY <1>2, <1>3, <1>4, <1>5, Types DEF Init

LEMMA AskedType ==
    ASSUME TypeOK, NEW k \in scope
    PROVE  Asked(k) \in Seq(Result) /\ Len(Asked(k)) + Len(answers) <= MaxRequests
<1>1. Answer(k, 0) \in Result
  BY SlotFacts, Values
<1>2. /\ requests \in Seq(Result) /\ answers \in Seq(Result) /\ MaxRequests \in Nat
      /\ Len(requests) + Len(answers) <= MaxRequests
  BY Types, RequestAssumption
<1> QED  BY <1>1, <1>2 DEF Asked

LEMMA SettleType ==
    ASSUME TypeOK, NEW f, NEW state \in {"pending", "done", "cancelled"}, NEW val \in Result
    PROVE  Settle(f, state, val) \in [Futs -> Future]
BY Types DEF Settle, Future

LEMMA BeganType ==
    ASSUME TypeOK, NEW t, NEW k \in scope, NEW pc \in {"sleep", "wait"}, NEW f \in Futs,
           NEW creator \in BOOLEAN
    PROVE  Began(t, k, pc, f, creator) \in [Callers -> Call]
BY SlotFacts, CallValues, Types DEF Began

LEMMA BeginType ==
    ASSUME TypeOK, NEW t \in Callers, NEW k \in Keys, NEW force \in BOOLEAN,
           Join(t, k, force) \/ Create(t, k, force)
    PROVE  TypeOK'
<1>1. scenario' = scenario /\ k \in scope /\ caller[t].pc = "idle" /\ SlotOf[k] \in InUse
  BY SlotFacts DEF Join, Create, AsksBroker
<1>2. CASE Join(t, k, force)
  <2>1. current[SlotOf[k]] \in Futs
    BY <1>1, <1>2, Types DEF Join, Pending
  <2>2. caller' \in [Callers -> Call]
    BY <1>1, <1>2, <2>1, BeganType DEF Join
  <2> QED  BY <1>1, <1>2, <2>2, SameScenario, Types DEF Join, TypeOK, Call, Future
<1>3. CASE Create(t, k, force)
  <2>1. Fresh \in Futs
    BY <1>1, FreshIsUnused
  <2>2. future' \in [Futs -> Future]
    BY <1>3, SettleType, Values DEF Create, Kinds
  <2>3. caller' \in [Callers -> Call]
    BY <1>1, <1>3, <2>1, BeganType DEF Create
  <2>4. current' \in [InUse -> {0} \cup Futs]
    BY <1>1, <1>3, <2>1, Types DEF Create
  <2>5. requests' \in Seq(Result) /\ Len(requests') + Len(answers) <= MaxRequests
    BY <1>1, <1>3, AskedType, Types DEF Create
  <2> QED  BY <1>1, <1>3, <2>2, <2>3, <2>4, <2>5, SameScenario, Types DEF Create, TypeOK, Call, Future
<1> QED  BY <1>2, <1>3

LEMMA TaskType ==
    ASSUME TypeOK, CallsOK, NEW t \in Callers, TaskStep(t)
    PROVE  TypeOK'
<1>1. scenario' = scenario
  BY DEF TaskStep, Wake, TimeOut, Return, DieCancelled, Leaves
<1>2. CASE Wake(t)
  <2>1. caller[t].key \in scope
    BY <1>2 DEF Wake, CallsOK, InCall, OwnFuture
  <2>2. requests' \in Seq(Result) /\ Len(requests') + Len(answers) <= MaxRequests
    <3>1. /\ Asked(caller[t].key) \in Seq(Result)
          /\ Len(Asked(caller[t].key)) + Len(answers) <= MaxRequests
      BY <2>1, AskedType
    <3>2. requests' = Asked(caller[t].key)
      BY <1>2 DEF Wake
    <3> QED  BY <3>1, <3>2
  <2>3. caller' \in [Callers -> Call]
    <3>1. caller' = [caller EXCEPT ![t].pc = "wait"]
      BY <1>2 DEF Wake
    <3>2. caller \in [Callers -> Call]
      BY Types
    <3>3. [caller[t] EXCEPT !.pc = "wait"] \in Call
      BY <3>2 DEF Call
    <3> QED  BY <3>1, <3>2, <3>3
  <2>4. UNCHANGED <<future, current, answers, cache, backoff, scenario>>
    BY <1>2 DEF Wake
  <2> QED  BY <2>2, <2>3, <2>4, SameScenario, Types DEF TypeOK, Call, Future
<1>3. CASE TimeOut(t)
  <2>1. future' \in [Futs -> Future]
    BY <1>3, SettleType, Values DEF TimeOut, Kinds
  <2>2. caller' \in [Callers -> Call]
    <3>1. [caller[t] EXCEPT !.expired = TRUE] \in Call
      BY Types DEF Call
    <3> QED  BY <1>3, <3>1, Types DEF TimeOut
  <2> QED  BY <1>1, <1>3, <2>1, <2>2, SameScenario, Types DEF TimeOut, TypeOK, Call, Future
<1>4. ASSUME NEW pc \in {"idle", "dead"}, Leaves(t, pc),
             cache' \in [full : BOOLEAN, age : Ages, val : Result]
      PROVE  TypeOK'
  <2>1. future' \in [Futs -> Future]
    BY <1>4, Values, Types DEF Leaves
  <2>2. caller' \in [Callers -> Call]
    BY <1>4, CallValues, Types DEF Leaves
  <2>3. current' \in [InUse -> {0} \cup Futs]
    BY <1>4, Types DEF Leaves, SlotAfter
  <2> QED  BY <1>1, <1>4, <2>1, <2>2, <2>3, SameScenario, Types DEF Leaves, TypeOK, Call, Future
<1>5. CASE Return(t)
  <2>1. Outcome(t) \in Result
    <3>1. future[caller[t].fut] \in Future
      BY <1>5, Types DEF Return, CallsOK, InCall, OwnFuture
    <3> QED  BY <3>1, Values DEF Outcome, Kinds, Future
  <2>2. cache' \in [full : BOOLEAN, age : Ages, val : Result]
    BY <1>5, <2>1, Types DEF Return, Call
  <2> QED  BY <1>4, <1>5, <2>2 DEF Return
<1>6. CASE DieCancelled(t)
  BY <1>4, <1>6, Types DEF DieCancelled
<1> QED  BY <1>2, <1>3, <1>5, <1>6 DEF TaskStep

LEMMA TailType ==
    ASSUME NEW S, NEW q \in Seq(S), q # << >>
    PROVE  Tail(q) \in Seq(S) /\ Head(q) \in S /\ Len(Tail(q)) = Len(q) - 1 /\ Len(q) \in Nat
OBVIOUS

LEMMA ListenType ==
    ASSUME TypeOK, Listen \/ ListenLimited
    PROVE  TypeOK'
<1>1. /\ scenario' = scenario /\ requests' = requests /\ answers # << >>
      /\ answers' = Tail(answers)
  BY DEF Listen, ListenLimited
<1>2. /\ answers' \in Seq(Result) /\ Head(answers) \in Result
      /\ Len(requests') + Len(answers') <= MaxRequests
  BY <1>1, TailType, Types, RequestAssumption
<1>3. future' \in [Futs -> Future]
  <2>1. CASE Listen
    BY <1>2, <2>1, SettleType, Types DEF Listen
  <2>2. CASE ListenLimited
    BY <2>2, Values, Types DEF ListenLimited, Future, Kinds
  <2> QED  BY <2>1, <2>2
<1>4. UNCHANGED <<current, caller, cache>> /\ backoff' \in BOOLEAN
  BY Types DEF Listen, ListenLimited
<1> QED  BY <1>1, <1>2, <1>3, <1>4, SameScenario, Types DEF TypeOK, Call, Future

LEMMA BrokerType ==
    ASSUME TypeOK, Reply
    PROVE  TypeOK'
<1>1. /\ requests # << >> /\ requests' = Tail(requests)
      /\ UNCHANGED <<future, current, caller, cache, backoff, scenario>>
  BY DEF Reply
<1>2. PICK kind \in {"answer", "error"} :
        answers' = Append(answers, [kind |-> kind, key |-> Head(requests).key, age |-> 0])
  BY DEF Reply
<1>3. [kind |-> kind, key |-> Head(requests).key, age |-> 0] \in Result
  BY <1>1, TailType, AgeFacts, Types DEF Result, Kinds
<1>4. /\ answers' \in Seq(Result) /\ requests' \in Seq(Result)
      /\ Len(answers') = Len(answers) + 1 /\ Len(requests') = Len(requests) - 1
  BY <1>1, <1>2, <1>3, TailType, Types
<1>5. Len(requests') + Len(answers') <= MaxRequests
  BY <1>4, Types, RequestAssumption
<1> QED  BY <1>1, <1>4, <1>5, SameScenario, Types DEF TypeOK, Call, Future

LEMMA AgedType ==
    ASSUME NEW q \in Seq(Result)
    PROVE  Aged(q) \in Seq(Result) /\ Len(Aged(q)) = Len(q)
<1>1. \A i \in 1 .. Len(q) : [q[i] EXCEPT !.age = Older(@)] \in Result
  <2> SUFFICES ASSUME NEW i \in 1 .. Len(q)
               PROVE  [q[i] EXCEPT !.age = Older(@)] \in Result
    OBVIOUS
  <2>1. q[i] \in Result
    BY ElementOfSeq
  <2>2. Older(q[i].age) \in Ages
    BY <2>1, AgeFacts DEF Result
  <2> QED  BY <2>1, <2>2 DEF Result
<1>2. /\ Len(q) \in Nat /\ DOMAIN q = 1 .. Len(q)
      /\ Aged(q) \in [1 .. Len(q) -> Result]
  BY <1>1, LenProperties DEF Aged
<1> QED  BY <1>2, SeqDef, LenProperties

LEMMA AgedKeys ==
    ASSUME NEW q \in Seq(Result)
    PROVE  \A i \in DOMAIN Aged(q) : Aged(q)[i].key = q[i].key
<1> SUFFICES ASSUME NEW i \in DOMAIN q PROVE Aged(q)[i].key = q[i].key
  BY DEF Aged
<1>1. q[i] \in Result
  BY ElementOfSeq, LenProperties
<1> QED  BY <1>1 DEF Aged, Result

LEMMA TickType ==
    ASSUME TypeOK, Tick
    PROVE  TypeOK'
<1>1. UNCHANGED <<future, current, backoff, scenario>>
  BY DEF Tick
<1>2. /\ requests' \in Seq(Result) /\ answers' \in Seq(Result)
      /\ Len(requests') = Len(requests) /\ Len(answers') = Len(answers)
  BY AgedType, Types DEF Tick
<1>3. caller' \in [Callers -> Call]
  <2> SUFFICES ASSUME NEW t \in Callers PROVE caller'[t] \in Call
    BY DEF Tick
  <2>1. CASE InCall(t)
    <3>1. caller[t].pc = "wait" => caller[t].left - 1 \in 0 .. Timeout
      <4>1. caller[t].pc = "wait" => caller[t].left # 0
        BY DEF Tick, Ready
      <4>2. caller[t].left \in 0 .. Timeout
        BY Types DEF Call
      <4> QED  BY <4>1, <4>2, RequestAssumption
    <3>2. Older(caller[t].since) \in Ages /\ caller[t] \in Call
      BY AgeFacts, Types DEF Call
    <3> QED  BY <2>1, <3>1, <3>2 DEF Tick, Call
  <2> QED  BY <2>1, Types DEF Tick
<1>4. cache' \in [full : BOOLEAN, age : Ages, val : Result]
  BY AgeFacts, Types DEF Tick, Result
<1> QED  BY <1>1, <1>2, <1>3, <1>4, SameScenario, Types DEF TypeOK, Call, Future

LEMMA TypeStep == TypeOK /\ CallsOK /\ [Next]_vars => TypeOK'
<1> SUFFICES ASSUME TypeOK, CallsOK, [Next]_vars PROVE TypeOK'
  OBVIOUS
<1>1. ASSUME NEW t \in Callers, NEW k \in Keys, NEW force \in BOOLEAN,
             Join(t, k, force) \/ Create(t, k, force)
      PROVE  TypeOK'
  BY <1>1, BeginType
<1>2. ASSUME NEW t \in Callers, TaskStep(t) PROVE TypeOK'
  BY <1>2, TaskType
<1>3. ASSUME Listen \/ ListenLimited PROVE TypeOK'
  BY <1>3, ListenType
<1>4. CASE BackoffOver
  BY <1>4, SameScenario DEF BackoffOver, TypeOK
<1>5. CASE Reply
  BY <1>5, BrokerType
<1>6. CASE Tick
  BY <1>6, TickType
<1>7. CASE UNCHANGED vars
  BY <1>7, SameScenario DEF vars, TypeOK
<1> QED  BY <1>1, <1>2, <1>3, <1>4, <1>5, <1>6, <1>7 DEF Next

-----------------------------------------------------------------------------
LEMMA SharedInit == Init => SharedInv
BY DEF Init, SharedInv, SlotsApart, CallsOK, InCall, NoCall, PendingOK, FreeFuture, Without,
       QuestionsOK, WaitedForIsReachable

(* A question that may be asked is one of the scenario's.                  *)
LEMMA AskedQuestions ==
    ASSUME TypeOK, QuestionsOK, NEW k \in scope
    PROVE  \A i \in DOMAIN Asked(k) : Asked(k)[i].key \in scope
<1>1. requests \in Seq(Result)
  BY Types
<1> QED  BY <1>1 DEF Asked, Answer, QuestionsOK

LEMMA JoinShares ==
    ASSUME Inv, NEW t \in Callers, NEW k \in Keys, NEW force \in BOOLEAN, Join(t, k, force)
    PROVE  SharedInv'
<1>1. k \in scope /\ SlotOf[k] \in InUse /\ caller[t].pc = "idle"
  BY SlotFacts DEF Inv, Join, AsksBroker
<1>2. /\ UNCHANGED <<future, current, requests, answers, scenario>>
      /\ Pending(current[SlotOf[k]])
      /\ caller' = Began(t, k, "wait", current[SlotOf[k]], FALSE)
  BY DEF Join
<1>3. current[SlotOf[k]] \in Futs
  BY <1>1, <1>2, Types DEF Inv, Pending
<1>4. /\ caller'[t].pc = "wait" /\ caller'[t].key = k /\ caller'[t].fut = current[SlotOf[k]]
      /\ \A u \in Callers \ {t} : caller'[u] = caller[u]
  BY <1>2, Types DEF Inv, Began, NoCall, Call
<1>5. CallsOK'
  <2>1. ASSUME NEW u \in Callers \ {t}, InCall(u)' PROVE (OwnFuture(u) /\ OwnAnswer(u))'
    <3>1. InCall(u) /\ OwnFuture(u) /\ OwnAnswer(u)
      BY <1>4, <2>1 DEF InCall, Inv, SharedInv, CallsOK
    <3> QED  BY <1>2, <1>4, <3>1, SameScenario DEF OwnFuture, OwnAnswer
  <2>2. (OwnFuture(t) /\ OwnAnswer(t))'
    BY <1>1, <1>2, <1>3, <1>4, SameScenario
       DEF Inv, SharedInv, SlotsApart, PendingOK, OwnFuture, OwnAnswer, Pending, Futs
  <2> QED  BY <2>1, <2>2 DEF CallsOK
<1>6. WaitedForIsReachable'
  <2> SUFFICES ASSUME NEW u \in Callers, InCall(u)', Pending(caller[u].fut)',
                      SlotOf[caller'[u].key] \in Lasting
               PROVE  current'[SlotOf[caller'[u].key]] = caller'[u].fut
    BY DEF WaitedForIsReachable
  <2>1. CASE u = t
    BY <1>2, <1>4, <2>1
  <2>2. CASE u # t
    <3>1. caller'[u] = caller[u] /\ InCall(u) /\ Pending(caller[u].fut)
      BY <1>2, <1>4, <2>2 DEF InCall, Pending
    <3> QED  BY <1>2, <3>1 DEF Inv, SharedInv, WaitedForIsReachable
  <2> QED  BY <2>1, <2>2
<1>7. SlotsApart' /\ PendingOK' /\ QuestionsOK'
  BY <1>2, SameScenario DEF Inv, SharedInv, SlotsApart, PendingOK, QuestionsOK
<1> QED  BY <1>5, <1>6, <1>7 DEF SharedInv

LEMMA CreateShares ==
    ASSUME Inv, NEW t \in Callers, NEW k \in Keys, NEW force \in BOOLEAN, Create(t, k, force)
    PROVE  SharedInv'
<1> DEFINE f == Fresh
           s == SlotOf[k]
<1>1. k \in scope /\ s \in InUse /\ caller[t].pc = "idle"
  BY SlotFacts DEF Inv, Create, AsksBroker
<1>2. f \in Unused /\ f \in Futs /\ f # 0
  BY <1>1, FreshIsUnused, SlotFacts DEF Inv
<1>3. /\ UNCHANGED <<answers, scenario>>
      /\ ~Pending(current[s])
      /\ requests' = Asked(k) \/ requests' = requests
  BY DEF Create
<1>4. /\ current' = [current EXCEPT ![s] = f]
      /\ future' = Settle(f, "pending", Without("nothing"))
  BY DEF Create
<1>5. /\ current'[s] = f
      /\ \A r \in InUse \ {s} : current'[r] = current[r] /\ current[r] # f
  BY <1>1, <1>2, <1>4, Types DEF Inv, Unused
<1>6. /\ future'[f].state = "pending" /\ future'[f].val.kind = "nothing"
      /\ \A g \in Futs \ {f} : future'[g] = future[g]
  BY <1>2, <1>4, Types DEF Inv, Settle, Without
<1>7. /\ InCall(t)' /\ caller'[t].key = k /\ caller'[t].fut = f
      /\ \A u \in Callers \ {t} : caller'[u] = caller[u]
  BY Types DEF Inv, Create, Began, NoCall, Call, InCall
<1>8. \A u \in Callers \ {t} : InCall(u) => caller[u].fut # f
  BY <1>2 DEF Unused
<1> HIDE DEF f, s
<1>9. CallsOK'
  <2>1. ASSUME NEW u \in Callers \ {t}, InCall(u)' PROVE (OwnFuture(u) /\ OwnAnswer(u))'
    <3>1. InCall(u) /\ OwnFuture(u) /\ OwnAnswer(u) /\ caller[u].fut # f
      BY <1>7, <1>8, <2>1 DEF InCall, Inv, SharedInv, CallsOK
    <3> QED  BY <1>3, <1>5, <1>6, <1>7, <3>1, SameScenario DEF OwnFuture, OwnAnswer
  <2>2. (OwnFuture(t) /\ OwnAnswer(t))'
    BY <1>1, <1>2, <1>3, <1>5, <1>6, <1>7, SameScenario DEF OwnFuture, OwnAnswer, s
  <2> QED  BY <2>1, <2>2 DEF CallsOK
<1>10. WaitedForIsReachable'
  <2> SUFFICES ASSUME NEW u \in Callers, InCall(u)', Pending(caller[u].fut)',
                      SlotOf[caller'[u].key] \in Lasting
               PROVE  current'[SlotOf[caller'[u].key]] = caller'[u].fut
    BY DEF WaitedForIsReachable
  <2>1. CASE u = t
    BY <1>5, <1>7, <2>1 DEF s
  <2>2. CASE u # t
    <3>1. InCall(u) /\ OwnFuture(u) /\ caller[u].fut # f
      BY <1>7, <1>8, <2>2 DEF InCall, Inv, SharedInv, CallsOK
    <3>2. Pending(caller[u].fut)
      BY <1>6, <1>7, <2>2, <3>1 DEF Pending, OwnFuture
    <3>3. current[SlotOf[caller[u].key]] = caller[u].fut
      BY <1>7, <2>2, <3>1, <3>2 DEF Inv, SharedInv, WaitedForIsReachable
    <3>4. SlotOf[caller[u].key] \in InUse \ {s}
      BY <1>3, <3>1, <3>2, <3>3, SlotFacts DEF Inv, OwnFuture
    <3> QED  BY <1>5, <1>7, <2>2, <3>3, <3>4
  <2> QED  BY <2>1, <2>2
<1>11. SlotsApart'
  BY <1>2, <1>3, <1>5, SameScenario DEF Inv, SharedInv, SlotsApart
<1>12. PendingOK'
  BY <1>2, <1>3, <1>6, SameScenario DEF Inv, SharedInv, PendingOK
<1>13. QuestionsOK'
  BY <1>1, <1>3, AskedQuestions, SameScenario DEF Inv, SharedInv, QuestionsOK
<1> QED  BY <1>9, <1>10, <1>11, <1>12, <1>13 DEF SharedInv

(* Nothing but the time and the stage of calls changes. *)
LEMMA CallsGoOn ==
    ASSUME Inv, UNCHANGED <<future, current, scenario>>,
           \A u \in Callers :
                InCall(u)' => /\ InCall(u)
                              /\ caller'[u].key = caller[u].key
                              /\ caller'[u].fut = caller[u].fut,
           QuestionsOK'
    PROVE  SharedInv'
<1>1. CallsOK'
  <2> SUFFICES ASSUME NEW u \in Callers, InCall(u)' PROVE (OwnFuture(u) /\ OwnAnswer(u))'
    BY DEF CallsOK
  <2>1. OwnFuture(u) /\ OwnAnswer(u)
    BY DEF Inv, SharedInv, CallsOK
  <2> QED  BY <2>1, SameScenario DEF OwnFuture, OwnAnswer
<1>2. WaitedForIsReachable'
  <2> SUFFICES ASSUME NEW u \in Callers, InCall(u)', Pending(caller[u].fut)',
                      SlotOf[caller'[u].key] \in Lasting
               PROVE  current'[SlotOf[caller'[u].key]] = caller'[u].fut
    BY DEF WaitedForIsReachable
  <2>1. Pending(caller[u].fut)
    BY DEF Pending
  <2> QED  BY <2>1 DEF Inv, SharedInv, WaitedForIsReachable
<1> QED  BY <1>1, <1>2, SameScenario DEF Inv, SharedInv, SlotsApart, PendingOK

(* A pending future that is settled is not waited for any more; what it is *)
(* settled with must belong to the slot of those who waited.               *)
LEMMA SettledWell ==
    ASSUME Inv, UNCHANGED <<current, scenario>>,
           \A g \in Futs :
                \/ future'[g] = future[g]
                \/ /\ future'[g].state # "pending"
                   /\ future'[g].val.kind = "answer" =>
                        /\ future'[g].val.key \in scope
                        /\ current[SlotOf[future'[g].val.key]] = g,
           \A u \in Callers :
                InCall(u)' => /\ InCall(u)
                              /\ caller'[u].key = caller[u].key
                              /\ caller'[u].fut = caller[u].fut,
           QuestionsOK'
    PROVE  SharedInv'
<1>1. CallsOK'
  <2> SUFFICES ASSUME NEW u \in Callers, InCall(u)' PROVE (OwnFuture(u) /\ OwnAnswer(u))'
    BY DEF CallsOK
  <2>1. OwnFuture(u) /\ OwnAnswer(u)
    BY DEF Inv, SharedInv, CallsOK
  <2>2. OwnFuture(u)'
    BY <2>1, SameScenario DEF OwnFuture
  <2>3. OwnAnswer(u)'
    <3>1. CASE future'[caller[u].fut] = future[caller[u].fut]
      BY <2>1, <3>1, SameScenario DEF OwnAnswer
    <3>2. CASE future'[caller[u].fut] # future[caller[u].fut]
      BY <2>1, <3>2, SameScenario, SlotFacts DEF OwnFuture, OwnAnswer, Inv
    <3> QED  BY <3>1, <3>2
  <2> QED  BY <2>2, <2>3
<1>2. WaitedForIsReachable'
  <2> SUFFICES ASSUME NEW u \in Callers, InCall(u)', Pending(caller[u].fut)',
                      SlotOf[caller'[u].key] \in Lasting
               PROVE  current'[SlotOf[caller'[u].key]] = caller'[u].fut
    BY DEF WaitedForIsReachable
  <2>1. OwnFuture(u)
    BY DEF Inv, SharedInv, CallsOK
  <2>2. Pending(caller[u].fut)
    BY <2>1 DEF Pending, OwnFuture
  <2> QED  BY <2>2 DEF Inv, SharedInv, WaitedForIsReachable
<1>3. PendingOK'
  BY SameScenario DEF Inv, SharedInv, PendingOK
<1> QED  BY <1>1, <1>2, <1>3, SameScenario DEF Inv, SharedInv, SlotsApart

LEMMA TaskShares ==
    ASSUME Inv, NEW t \in Callers, TaskStep(t)
    PROVE  SharedInv'
<1>1. CASE Wake(t)
  <2>1. caller[t].key \in scope
    BY <1>1 DEF Wake, Inv, SharedInv, CallsOK, InCall, OwnFuture
  <2>2. QuestionsOK'
    BY <1>1, <2>1, AskedQuestions, SameScenario DEF Wake, Inv, SharedInv, QuestionsOK
  <2>3. \A u \in Callers :
            InCall(u)' => /\ InCall(u)
                          /\ caller'[u].key = caller[u].key
                          /\ caller'[u].fut = caller[u].fut
    BY <1>1, Types DEF Wake, Inv, InCall, Call
  <2> QED  BY <1>1, <2>2, <2>3, CallsGoOn DEF Wake
<1>2. CASE TimeOut(t)
  <2>1. QuestionsOK'
    BY <1>2, SameScenario DEF TimeOut, Inv, SharedInv, QuestionsOK
  <2>2. \A u \in Callers :
            InCall(u)' => /\ InCall(u)
                          /\ caller'[u].key = caller[u].key
                          /\ caller'[u].fut = caller[u].fut
    BY <1>2, Types DEF TimeOut, Inv, InCall, Call
  <2>3. \A g \in Futs :
            \/ future'[g] = future[g]
            \/ future'[g].state # "pending" /\ future'[g].val.kind # "answer"
    BY <1>2, Types DEF TimeOut, Inv, Settle, Without
  <2> QED  BY <1>2, <2>1, <2>2, <2>3, SettledWell DEF TimeOut
<1>3. ASSUME NEW pc \in {"idle", "dead"}, caller[t].pc = "wait", Leaves(t, pc)
      PROVE  SharedInv'
  <2>1. UNCHANGED <<requests, answers, scenario>>
    BY <1>3 DEF Leaves
  <2>2. ~InCall(t)' /\ \A u \in Callers \ {t} : caller'[u] = caller[u]
    BY <1>3, Types DEF Inv, Leaves, InCall, NoCall, Call
  <2>3. \A s \in InUse : /\ current'[s] = current[s] \/ current'[s] = 0
                         /\ s \in Lasting => current'[s] = current[s]
    BY <1>3, Types DEF Inv, Leaves, SlotAfter, Lasting
  <2>4. \A g \in Futs : future'[g] = FreeFuture \/ future'[g] = future[g]
    BY <1>3 DEF Leaves
  <2>5. ASSUME NEW u \in Callers, InCall(u)'
        PROVE  /\ u # t /\ InCall(u) /\ caller'[u] = caller[u] /\ OwnFuture(u) /\ OwnAnswer(u)
               /\ future'[caller[u].fut] = future[caller[u].fut]
    <3>1. u # t /\ InCall(u) /\ caller'[u] = caller[u] /\ OwnFuture(u) /\ OwnAnswer(u)
      BY <2>2, <2>5 DEF InCall, Inv, SharedInv, CallsOK
    <3>2. caller[u].fut \notin Unused'
      BY <2>5, <3>1 DEF Unused
    <3> QED  BY <1>3, <3>1, <3>2 DEF Leaves, OwnFuture
  <2>6. CallsOK'
    <3> SUFFICES ASSUME NEW u \in Callers, InCall(u)' PROVE (OwnFuture(u) /\ OwnAnswer(u))'
      BY DEF CallsOK
    <3>1. OwnFuture(u)'
      BY <2>1, <2>3, <2>5, SameScenario, SlotFacts DEF OwnFuture, Inv
    <3>2. OwnAnswer(u)'
      BY <2>1, <2>5, SameScenario DEF OwnAnswer
    <3> QED  BY <3>1, <3>2
  <2>7. WaitedForIsReachable'
    <3> SUFFICES ASSUME NEW u \in Callers, InCall(u)', Pending(caller[u].fut)',
                        SlotOf[caller'[u].key] \in Lasting
                 PROVE  current'[SlotOf[caller'[u].key]] = caller'[u].fut
      BY DEF WaitedForIsReachable
    <3>1. Pending(caller[u].fut)
      BY <2>5 DEF Pending
    <3>2. SlotOf[caller[u].key] \in InUse
      BY <2>5, SlotFacts DEF OwnFuture, Inv
    <3> QED  BY <2>3, <2>5, <3>1, <3>2 DEF Inv, SharedInv, WaitedForIsReachable
  <2>8. SlotsApart'
    BY <2>1, <2>3, SameScenario DEF Inv, SharedInv, SlotsApart
  <2>9. PendingOK'
    BY <2>1, <2>4, SameScenario DEF Inv, SharedInv, PendingOK, FreeFuture, Without
  <2>10. QuestionsOK'
    BY <2>1, SameScenario DEF Inv, SharedInv, QuestionsOK
  <2> QED  BY <2>6, <2>7, <2>8, <2>9, <2>10 DEF SharedInv
<1>4. CASE Return(t)
  BY <1>3, <1>4 DEF Return
<1>5. CASE DieCancelled(t)
  BY <1>3, <1>5 DEF DieCancelled
<1> QED  BY <1>1, <1>2, <1>4, <1>5 DEF TaskStep

LEMMA ListenShares ==
    ASSUME Inv, Listen \/ ListenLimited
    PROVE  SharedInv'
<1>1. /\ UNCHANGED <<current, caller, requests, scenario>>
      /\ answers # << >> /\ answers' = Tail(answers)
  BY DEF Listen, ListenLimited
<1>2. Head(answers).key \in scope
  BY <1>1, Types DEF Inv, SharedInv, QuestionsOK
<1>3. QuestionsOK'
  <2>1. \A i \in DOMAIN Tail(answers) : Tail(answers)[i].key \in scope
    BY <1>1, Types DEF Inv, SharedInv, QuestionsOK
  <2> QED  BY <1>1, <2>1, SameScenario DEF Inv, SharedInv, QuestionsOK
<1>4. \A g \in Futs :
        \/ future'[g] = future[g]
        \/ /\ future'[g].state # "pending"
           /\ future'[g].val.kind = "answer" =>
                /\ future'[g].val.key \in scope
                /\ current[SlotOf[future'[g].val.key]] = g
  <2>1. CASE Listen
    BY <1>2, <2>1, Types DEF Inv, Listen, Settle
  <2>2. CASE ListenLimited
    BY <2>2, Types DEF Inv, ListenLimited, Without
  <2> QED  BY <2>1, <2>2
<1>5. \A u \in Callers : InCall(u)' => InCall(u) /\ caller'[u] = caller[u]
  BY <1>1 DEF InCall
<1> QED  BY <1>1, <1>3, <1>4, <1>5, SettledWell

LEMMA QuietStepShares ==
    ASSUME Inv, BackoffOver \/ Reply \/ Tick \/ UNCHANGED vars
    PROVE  SharedInv'
<1>1. UNCHANGED <<future, current, scenario>>
  BY DEF BackoffOver, Reply, Tick, vars
<1>2. \A u \in Callers :
        InCall(u)' => /\ InCall(u)
                      /\ caller'[u].key = caller[u].key
                      /\ caller'[u].fut = caller[u].fut
  <2>1. CASE Tick
    BY <2>1, Types DEF Tick, Inv, InCall, Call
  <2>2. CASE UNCHANGED caller
    BY <2>2 DEF InCall
  <2> QED  BY <2>1, <2>2 DEF BackoffOver, Reply, vars
<1>3. QuestionsOK'
  <2>1. CASE Reply
    <3>1. PICK kind \in {"answer", "error"} :
            answers' = Append(answers, [kind |-> kind, key |-> Head(requests).key, age |-> 0])
      BY <2>1 DEF Reply
    <3>2. requests # << >> /\ requests' = Tail(requests) /\ scenario' = scenario
      BY <2>1 DEF Reply
    <3>3. Head(requests).key \in scope
      BY <3>2, Types DEF Inv, SharedInv, QuestionsOK
    <3>4. \A i \in DOMAIN answers' : answers'[i].key \in scope
      BY <3>1, <3>3, Types DEF Inv, SharedInv, QuestionsOK
    <3>5. \A i \in DOMAIN requests' : requests'[i].key \in scope
      BY <3>2, Types DEF Inv, SharedInv, QuestionsOK
    <3> QED  BY <3>2, <3>4, <3>5, SameScenario DEF QuestionsOK
  <2>2. CASE Tick
    <3>1. requests' = Aged(requests) /\ answers' = Aged(answers)
      BY <2>2 DEF Tick
    <3>2. \A i \in DOMAIN requests' : requests'[i].key = requests[i].key
      BY <3>1, AgedKeys, Types DEF Inv
    <3>3. \A i \in DOMAIN answers' : answers'[i].key = answers[i].key
      BY <3>1, AgedKeys, Types DEF Inv
    <3>4. DOMAIN requests' = DOMAIN requests /\ DOMAIN answers' = DOMAIN answers
      BY <3>1 DEF Aged
    <3> QED  BY <1>1, <3>2, <3>3, <3>4, SameScenario DEF Inv, SharedInv, QuestionsOK
  <2>3. CASE UNCHANGED <<requests, answers>>
    BY <1>1, <2>3, SameScenario DEF Inv, SharedInv, QuestionsOK
  <2> QED  BY <2>1, <2>2, <2>3 DEF BackoffOver, vars
<1> QED  BY <1>1, <1>2, <1>3, CallsGoOn

LEMMA InvStep == Inv /\ [Next]_vars => Inv'
<1> SUFFICES ASSUME Inv, [Next]_vars PROVE Inv'
  OBVIOUS
<1>1. TypeOK'
  BY TypeStep DEF Inv, SharedInv
<1>2. ASSUME NEW t \in Callers, NEW k \in Keys, NEW force \in BOOLEAN,
             Join(t, k, force) \/ Create(t, k, force)
      PROVE  SharedInv'
  BY <1>2, JoinShares, CreateShares
<1>3. ASSUME NEW t \in Callers, TaskStep(t) PROVE SharedInv'
  BY <1>3, TaskShares
<1>4. ASSUME Listen \/ ListenLimited PROVE SharedInv'
  BY <1>4, ListenShares
<1>5. ASSUME BackoffOver \/ Reply \/ Tick \/ UNCHANGED vars PROVE SharedInv'
  BY <1>5, QuietStepShares
<1>6. SharedInv'
  BY <1>2, <1>3, <1>4, <1>5 DEF Next
<1> QED  BY <1>1, <1>6 DEF Inv

LEMMA InvAlways == Spec => []Inv
<1>1. Init => Inv
  BY TypeInit, SharedInit DEF Inv
<1> QED  BY <1>1, InvStep, PTL DEF Spec

-----------------------------------------------------------------------------
(* A prompt broker refuses nothing, so no call is put off.                 *)
Calm ==
    /\ ~backoff
    /\ \A i \in DOMAIN answers : answers[i].kind = "answer"
    /\ \A t \in Callers : caller[t].pc # "sleep"
CalmInv == prompt => Calm

(* What the tasks ask for is settled from the start. *)
LEMMA ScenarioStays == [Next]_vars => scenario' = scenario
<1>1. ASSUME NEW t \in Callers, NEW k \in Keys, NEW force \in BOOLEAN,
             Join(t, k, force) \/ Create(t, k, force)
      PROVE  scenario' = scenario
  BY <1>1 DEF Join, Create
<1>2. ASSUME NEW t \in Callers, TaskStep(t) PROVE scenario' = scenario
  BY <1>2 DEF TaskStep, Wake, TimeOut, Return, DieCancelled, Leaves
<1>3. Listen \/ ListenLimited \/ BackoffOver \/ Reply => scenario' = scenario
  BY DEF Listen, ListenLimited, BackoffOver, Reply
<1>4. Tick \/ UNCHANGED vars => scenario' = scenario
  BY DEF Tick, vars
<1> QED  BY <1>1, <1>2, <1>3, <1>4 DEF Next

LEMMA CalmInit == Init => CalmInv
BY DEF Init, CalmInv, Calm, NoCall

LEMMA CalmStep == Inv /\ CalmInv /\ [Next]_vars => CalmInv'
<1> SUFFICES ASSUME Inv, CalmInv, [Next]_vars, prompt' PROVE Calm'
  BY DEF CalmInv
<1>1. prompt /\ Calm
  BY ScenarioStays, SameScenario DEF CalmInv
<1>2. ASSUME NEW t \in Callers, NEW k \in Keys, NEW force \in BOOLEAN,
             Join(t, k, force) \/ Create(t, k, force)
      PROVE  Calm'
  <2>1. CASE Join(t, k, force)
    BY <1>1, <2>1, Types DEF Inv, Join, Began, Calm
  <2>2. CASE Create(t, k, force)
    BY <1>1, <2>2, Types DEF Inv, Create, Began, Calm
  <2> QED  BY <1>2, <2>1, <2>2
<1>3. ASSUME NEW t \in Callers, TimeOut(t) PROVE Calm'
  BY <1>1, <1>3, Types DEF Inv, TimeOut, Calm, Call
<1>4. ASSUME NEW t \in Callers, NEW pc \in {"idle", "dead"}, Leaves(t, pc) PROVE Calm'
  BY <1>1, <1>4, Types DEF Inv, Leaves, Calm
<1>5. ASSUME NEW t \in Callers, TaskStep(t) PROVE Calm'
  BY <1>1, <1>3, <1>4, <1>5 DEF TaskStep, Wake, Return, DieCancelled, Calm
<1>6. CASE Listen
  <2>1. answers # << >> /\ answers \in Seq(Result)
    BY <1>6, Types DEF Inv, Listen
  <2>2. \A i \in DOMAIN Tail(answers) :
          i + 1 \in DOMAIN answers /\ Tail(answers)[i] = answers[i + 1]
    BY <2>1
  <2> QED  BY <1>1, <1>6, <2>2 DEF Listen, Calm
<1>7. ~ListenLimited
  <2> SUFFICES ASSUME ListenLimited PROVE FALSE
    OBVIOUS
  <2>1. /\ Head(answers) = answers[1] /\ 1 \in DOMAIN answers
        /\ Head(answers).kind = "error"
    BY Types DEF Inv, ListenLimited
  <2> QED  BY <1>1, <2>1 DEF Calm
<1>8. CASE Reply
  <2>1. answers' = Append(answers, [kind |-> "answer", key |-> Head(requests).key, age |-> 0])
    BY <1>1, <1>8 DEF Reply
  <2>2. /\ answers \in Seq(Result) /\ requests # << >> /\ requests \in Seq(Result)
    BY <1>8, Types DEF Inv, Reply
  <2>3. [kind |-> "answer", key |-> Head(requests).key, age |-> 0] \in Result
    BY <2>2, TailType, AgeFacts DEF Result, Kinds
  <2> QED  BY <1>1, <1>8, <2>1, <2>2, <2>3 DEF Reply, Calm
<1>9. CASE Tick
  <2>1. \A u \in Callers : caller'[u].pc = caller[u].pc
    BY <1>9, Types DEF Inv, Tick, Call
  <2>2. ASSUME NEW i \in DOMAIN answers
        PROVE  [answers[i] EXCEPT !.age = Older(@)].kind = answers[i].kind
    <3>1. answers[i] \in Result
      BY ElementOfSeq, LenProperties, Types DEF Inv
    <3> QED  BY <3>1 DEF Result
  <2> QED  BY <1>1, <1>9, <2>1, <2>2 DEF Tick, Aged, Calm
<1>10. CASE UNCHANGED vars
  BY <1>1, <1>10 DEF vars, Calm
<1> QED
  BY <1>1, <1>2, <1>5, <1>6, <1>7, <1>8, <1>9, <1>10 DEF Next, BackoffOver, Calm

-----------------------------------------------------------------------------
(* How old an answer gets: while the broker answers in time, every request *)
(* under way and every answer not yet read can be told a creator that      *)
(* of its slot that still waits and has time left, a different one for     *)
(* each; an answer that is not yet read is no older than that creator's    *)
(* call.  Which answer of a slot goes to which creator does not matter, so *)
(* this survives answers that are lost or taken by another future.         *)
Owner(t) ==
    /\ caller[t].pc = "wait" /\ caller[t].creator
    /\ Pending(caller[t].fut) /\ caller[t].left # 0
Backing(m) ==
    /\ m \in [1 .. Len(answers) + Len(requests) -> Callers]
    /\ \A i, j \in DOMAIN m : m[i] = m[j] => i = j
    /\ \A i \in DOMAIN m : Owner(m[i])
    /\ \A i \in 1 .. Len(answers) : answers[i].age + caller[m[i]].left <= Timeout
    /\ \A i \in 1 .. Len(answers) : SlotOf[caller[m[i]].key] = SlotOf[answers[i].key]
    /\ \A i \in 1 .. Len(requests) :
         SlotOf[caller[m[Len(answers) + i]].key] = SlotOf[requests[i].key]
Backed == \E m : Backing(m)

(* Who joins a call came later than who made it, and a future has one      *)
(* maker.                                                                  *)
Together(t, u) ==
    /\ caller[t].pc = "wait" /\ caller[u].pc = "wait"
    /\ caller[t].fut = caller[u].fut /\ caller[t].creator
Senior ==
    \A t, u \in Callers : Together(t, u) =>
        /\ caller[t].left <= caller[u].left
        /\ caller[u].creator => t = u

Sorted == \A i, j \in 1 .. Len(answers) : i <= j => answers[j].age <= answers[i].age

YoungOK ==
    /\ \A f \in Futs : future[f].val.kind = "answer" => future[f].val.age <= Timeout
    /\ cache.val.kind = "answer" => cache.val.age <= cache.age + Timeout

Aging == Senior /\ Sorted /\ Backed /\ YoungOK
AgingInv == prompt => Aging

LEMMA CallFacts ==
    ASSUME TypeOK, NEW t \in Callers
    PROVE  /\ caller[t] \in Call /\ caller[t].left \in 0 .. Timeout
           /\ caller[t].since \in Nat /\ caller[t].fut \in {0} \cup Futs
           /\ Timeout \in Nat
<1>1. caller[t] \in Call /\ Timeout \in Nat
  BY Types, RequestAssumption
<1>2. /\ caller[t].left \in 0 .. Timeout /\ caller[t].since \in Ages
      /\ caller[t].fut \in {0} \cup Futs
  BY <1>1 DEF Call
<1> QED  BY <1>1, <1>2 DEF Ages

LEMMA AnswerFacts ==
    ASSUME TypeOK
    PROVE  /\ requests \in Seq(Result) /\ answers \in Seq(Result)
           /\ Len(answers) \in Nat /\ Len(requests) \in Nat
           /\ \A i \in 1 .. Len(answers) : answers[i] \in Result /\ answers[i].age \in Nat
<1>1. requests \in Seq(Result) /\ answers \in Seq(Result)
  BY Types
<1>2. \A i \in 1 .. Len(answers) : answers[i] \in Result
  BY <1>1
<1>3. \A r \in Result : r.age \in Nat
  BY AgeFacts DEF Result, Ages
<1> QED  BY <1>1, <1>2, <1>3

LEMMA AgingInit == Init => AgingInv
<1> SUFFICES ASSUME Init PROVE Aging
  BY DEF AgingInv
<1>1. Senior /\ Sorted /\ YoungOK
  BY DEF Init, Senior, Together, Sorted, YoungOK, NoCall, FreeFuture, Without
<1>2. Backing([i \in 1 .. 0 |-> CHOOSE t \in Callers : TRUE])
  BY DEF Init, Backing
<1> QED  BY <1>1, <1>2 DEF Aging, Backed

(* Nothing new is asked or answered, and whoever waits goes on waiting.    *)
LEMMA BackedKept ==
    ASSUME Inv, Backed, UNCHANGED <<answers, requests>>,
           \A t \in Callers : Owner(t) => /\ Owner(t)' /\ caller'[t].left = caller[t].left
                                         /\ caller'[t].key = caller[t].key
    PROVE  Backed'
<1>1. PICK m : Backing(m)
  BY DEF Backed
<1>2. /\ \A i \in 1 .. Len(answers) : i \in DOMAIN m
      /\ \A i \in 1 .. Len(requests) : Len(answers) + i \in DOMAIN m
  BY <1>1, AnswerFacts DEF Backing, Inv
<1>3. \A i \in DOMAIN m : /\ Owner(m[i])' /\ caller'[m[i]].left = caller[m[i]].left
                         /\ caller'[m[i]].key = caller[m[i]].key
  BY <1>1 DEF Backing
<1>4. Backing(m)'
  BY <1>1, <1>2, <1>3 DEF Backing
<1> QED  BY <1>4 DEF Backed

LEMMA JoinAging ==
    ASSUME Inv, Aging, NEW t \in Callers, NEW k \in Keys, NEW force \in BOOLEAN,
           Join(t, k, force)
    PROVE  Aging'
<1>1. /\ UNCHANGED <<future, current, requests, answers, cache, backoff, scenario>>
      /\ caller' = Began(t, k, "wait", current[SlotOf[k]], FALSE)
      /\ caller[t].pc = "idle"
  BY DEF Join, AsksBroker
<1>2. /\ caller'[t].pc = "wait" /\ caller'[t].left = Timeout /\ ~caller'[t].creator
      /\ \A u \in Callers \ {t} : caller'[u] = caller[u]
  BY <1>1, Types DEF Inv, Began, NoCall, Call
<1>3. Senior'
  <2> SUFFICES ASSUME NEW u \in Callers, NEW v \in Callers, Together(u, v)'
               PROVE  /\ caller'[u].left <= caller'[v].left
                      /\ caller'[v].creator => u = v
    BY DEF Senior
  <2>1. u # t
    BY <1>2 DEF Together
  <2>2. CASE v = t
    BY <1>2, <2>1, <2>2, CallFacts DEF Inv
  <2>3. CASE v # t
    BY <1>2, <2>1, <2>3 DEF Together, Aging, Senior
  <2> QED  BY <2>2, <2>3
<1>4. Backed'
  <2>1. ASSUME NEW u \in Callers, Owner(u) PROVE Owner(u)' /\ caller'[u] = caller[u]
    BY <1>1, <1>2, <2>1 DEF Owner, Pending
  <2> QED  BY <1>1, <2>1, BackedKept DEF Aging
<1>5. Sorted' /\ YoungOK'
  BY <1>1, SameScenario DEF Aging, Sorted, YoungOK
<1> QED  BY <1>3, <1>4, <1>5 DEF Aging

LEMMA CreateAging ==
    ASSUME Inv, Aging, Calm, NEW t \in Callers, NEW k \in Keys, NEW force \in BOOLEAN,
           Create(t, k, force)
    PROVE  Aging'
<1> DEFINE f == Fresh
<1>1. /\ k \in scope /\ caller[t].pc = "idle"
      /\ UNCHANGED <<answers, cache, backoff, scenario>> /\ requests' = Asked(k)
  BY DEF Create, AsksBroker, Calm
<1>2. f \in Unused /\ f \in Futs /\ f # 0
  BY <1>1, FreshIsUnused, SlotFacts DEF Inv
<1>3. /\ future'[f].state = "pending" /\ future'[f].val.kind = "nothing"
      /\ \A g \in Futs \ {f} : future'[g] = future[g]
  BY <1>2, Types DEF Inv, Settle, Create, Without
<1>4. /\ caller'[t].pc = "wait" /\ caller'[t].left = Timeout /\ caller'[t].creator
      /\ caller'[t].fut = f /\ caller'[t].key = k
      /\ \A u \in Callers \ {t} : caller'[u] = caller[u]
  BY Types DEF Inv, Create, Began, NoCall, Call, Calm
<1> HIDE DEF f
<1>5. \A u \in Callers \ {t} : caller[u].pc = "wait" => caller[u].fut \in Futs \ {f}
  BY <1>2 DEF Unused, InCall, Inv, SharedInv, CallsOK, OwnFuture
<1>6. Senior'
  BY <1>4, <1>5, CallFacts DEF Aging, Senior, Together, Inv
<1>7. \A u \in Callers : Owner(u) => u # t /\ Owner(u)' /\ caller'[u] = caller[u]
  BY <1>1, <1>3, <1>4, <1>5 DEF Owner, Pending
<1>8. Owner(t)'
  BY <1>2, <1>3, <1>4, RequestAssumption DEF Owner, Pending
<1>9. Backed'
  <2>1. CASE requests' = requests
    BY <1>1, <1>7, <2>1, BackedKept DEF Aging
  <2>2. CASE requests' = Append(requests, Answer(k, 0))
    <3> DEFINE n == Len(answers) + Len(requests)
    <3>1. PICK m : Backing(m)
      BY DEF Aging, Backed
    <3>0. PICK w : w = [i \in 1 .. n + 1 |-> IF i = n + 1 THEN t ELSE m[i]]
      OBVIOUS
    <3>2. /\ Len(answers) \in Nat /\ Len(requests) \in Nat
          /\ Len(requests') = Len(requests) + 1
      BY <2>2, AnswerFacts DEF Inv
    <3>3. m \in [1 .. n -> Callers] /\ \A i \in 1 .. n : m[i] # t /\ Owner(m[i])
      BY <1>7, <3>1 DEF Backing
    <3>4. /\ w \in [1 .. n + 1 -> Callers] /\ w[n + 1] = t
          /\ \A i \in 1 .. n : w[i] = m[i]
      BY <3>0, <3>2, <3>3
    <3>5. ASSUME NEW i \in 1 .. n + 1 PROVE Owner(w[i])'
      <4>1. i \in 1 .. n \/ i = n + 1
        BY <3>2
      <4> QED  BY <1>7, <1>8, <3>3, <3>4, <4>1
    <3>6. ASSUME NEW i \in 1 .. n + 1, NEW j \in 1 .. n + 1, w[i] = w[j] PROVE i = j
      <4>1. /\ i \in 1 .. n \/ i = n + 1
            /\ j \in 1 .. n \/ j = n + 1
        BY <3>2
      <4>2. \A x, y \in 1 .. n : m[x] = m[y] => x = y
        BY <3>1, <3>3 DEF Backing
      <4> QED  BY <3>3, <3>4, <3>6, <4>1, <4>2
    <3>7. ASSUME NEW i \in 1 .. Len(answers')
          PROVE  answers'[i].age + caller'[w[i]].left <= Timeout
      <4>1. i \in 1 .. n /\ i \in 1 .. Len(answers)
        BY <1>1, <3>2
      <4> QED  BY <1>1, <1>7, <3>1, <3>3, <3>4, <4>1 DEF Backing
    <3>8. Len(answers') + Len(requests') = n + 1
      BY <1>1, <3>2
    <3>9. ASSUME NEW i \in 1 .. Len(answers')
          PROVE  SlotOf[caller'[w[i]].key] = SlotOf[answers'[i].key]
      <4>1. i \in 1 .. n /\ i \in 1 .. Len(answers)
        BY <1>1, <3>2
      <4> QED  BY <1>1, <1>7, <3>1, <3>3, <3>4, <4>1 DEF Backing
    <3>10. ASSUME NEW i \in 1 .. Len(requests')
           PROVE  SlotOf[caller'[w[Len(answers') + i]].key] = SlotOf[requests'[i].key]
      <4>1. /\ requests \in Seq(Result) /\ Answer(k, 0).key = k /\ n \in Nat
            /\ Len(answers') = Len(answers)
        BY <1>1, <3>2, AnswerFacts DEF Inv, Answer
      <4>2. CASE i \in 1 .. Len(requests)
        <5>1. Len(answers) + i \in 1 .. n /\ requests'[i] = requests[i]
          BY <2>2, <3>2, <4>1, <4>2
        <5>2. w[Len(answers) + i] = m[Len(answers) + i]
          BY <3>4, <5>1
        <5>3. caller'[m[Len(answers) + i]] = caller[m[Len(answers) + i]]
          BY <1>7, <3>3, <5>1
        <5> QED  BY <3>1, <4>1, <4>2, <5>1, <5>2, <5>3 DEF Backing
      <4>3. CASE i = Len(requests) + 1
        <5>1. Len(answers) + i = n + 1 /\ requests'[i] = Answer(k, 0)
          BY <2>2, <3>2, <4>1, <4>3
        <5> QED  BY <1>4, <3>4, <4>1, <5>1
      <4> QED  BY <3>2, <4>2, <4>3
    <3> HIDE DEF n
    <3>11. Backing(w)'
      BY <3>4, <3>5, <3>6, <3>7, <3>8, <3>9, <3>10 DEF Backing
    <3> QED  BY <3>11 DEF Backed
  <2> QED  BY <1>1, <2>1, <2>2 DEF Asked
<1>10. Sorted'
  BY <1>1 DEF Aging, Sorted
<1>11. YoungOK'
  BY <1>1, <1>3, SameScenario DEF Aging, YoungOK
<1> QED  BY <1>6, <1>9, <1>10, <1>11 DEF Aging

LEMMA TaskAging ==
    ASSUME Inv, Aging, Calm, NEW t \in Callers, TaskStep(t)
    PROVE  Aging'
<1>1. ~Wake(t)
  BY DEF Wake, Calm
<1>2. UNCHANGED <<requests, answers, backoff, scenario>>
  BY <1>1 DEF TaskStep, TimeOut, Return, DieCancelled, Leaves
<1>3. CASE TimeOut(t)
  <2>1. caller[t].pc = "wait" /\ caller[t].left = 0 /\ cache' = cache
    BY <1>3 DEF TimeOut
  <2>2. ASSUME NEW u \in Callers
        PROVE  /\ caller'[u].pc = caller[u].pc /\ caller'[u].left = caller[u].left
               /\ caller'[u].fut = caller[u].fut /\ caller'[u].creator = caller[u].creator
               /\ caller'[u].key = caller[u].key
    BY <1>3, Types DEF TimeOut, Inv, Call
  <2>3. \A g \in Futs : future'[g] = future[g] \/ (g = caller[t].fut /\ future'[g].val.kind = "nothing")
    BY <1>3, Types DEF TimeOut, Inv, Settle, Without
  <2>4. ASSUME NEW u \in Callers, Owner(u)
        PROVE  /\ Owner(u)' /\ caller'[u].left = caller[u].left
               /\ caller'[u].key = caller[u].key
    <3>1. caller[u].fut # caller[t].fut
      BY <2>1, <2>4, CallFacts DEF Owner, Aging, Senior, Together, Inv
    <3>2. caller[u].fut \in Futs
      BY <2>4, CallFacts DEF Owner, Pending, Inv
    <3> QED  BY <2>2, <2>3, <2>4, <3>1, <3>2 DEF Owner, Pending
  <2>5. Backed'
    BY <1>2, <2>4, BackedKept DEF Aging
  <2>6. Senior'
    BY <2>2 DEF Aging, Senior, Together
  <2>7. YoungOK' /\ Sorted'
    BY <1>2, <2>1, <2>3, SameScenario DEF Aging, YoungOK, Sorted
  <2> QED  BY <2>5, <2>6, <2>7 DEF Aging
<1>4. ASSUME NEW pc \in {"idle", "dead"}, caller[t].pc = "wait", ~Pending(caller[t].fut),
             Leaves(t, pc),
             \/ cache' = cache
             \/ Return(t) /\ cache' = [full |-> TRUE, age |-> caller[t].since, val |-> Outcome(t)]
      PROVE  Aging'
  <2>1. caller'[t].pc = pc /\ \A u \in Callers \ {t} : caller'[u] = caller[u]
    BY <1>4, Types DEF Inv, Leaves, NoCall, Call
  <2>2. \A g \in Futs : \/ future'[g] = future[g]
                        \/ g \in Unused' /\ future'[g].val.kind = "nothing"
    BY <1>4 DEF Leaves, FreeFuture, Without
  <2>3. ASSUME NEW u \in Callers, Owner(u) PROVE Owner(u)' /\ caller'[u] = caller[u]
    <3>1. u # t
      BY <1>4, <2>3 DEF Owner
    <3>2. caller[u].fut \in Futs
      BY <2>3, CallFacts DEF Owner, Pending, Inv
    <3>3. caller[u].fut \notin Unused'
      BY <2>1, <2>3, <3>1 DEF Unused, InCall, Owner
    <3> QED  BY <2>1, <2>2, <2>3, <3>1, <3>2, <3>3 DEF Owner, Pending
  <2>4. Backed'
    BY <1>2, <2>3, BackedKept DEF Aging
  <2>5. Senior'
    BY <2>1 DEF Aging, Senior, Together
  <2>6. Sorted'
    BY <1>2 DEF Aging, Sorted
  <2>7. \A g \in Futs' : future'[g].val.kind = "answer" => future'[g].val.age <= Timeout
    BY <1>2, <2>2, SameScenario DEF Aging, YoungOK
  <2>8. cache'.val.kind = "answer" => cache'.val.age <= cache'.age + Timeout
    <3>1. CASE cache' = cache
      BY <3>1 DEF Aging, YoungOK
    <3>2. CASE cache' = [full |-> TRUE, age |-> caller[t].since, val |-> Outcome(t)]
      <4> SUFFICES ASSUME Outcome(t).kind = "answer"
                   PROVE  Outcome(t).age <= caller[t].since + Timeout
        BY <3>2
      <4>1. Outcome(t) = future[caller[t].fut].val
        BY DEF Outcome, Without
      <4>2. caller[t].fut \in Futs
        BY <1>4 DEF Inv, SharedInv, CallsOK, InCall, OwnFuture
      <4>3. future[caller[t].fut].val \in Result /\ future[caller[t].fut].val.age <= Timeout
        BY <4>1, <4>2, Types DEF Inv, Aging, YoungOK, Future
      <4>4. Outcome(t).age \in Nat
        BY <4>1, <4>3 DEF Result, Ages
      <4> QED  BY <4>1, <4>3, <4>4, CallFacts DEF Inv
    <3> QED  BY <1>4, <3>1, <3>2
  <2> QED  BY <2>4, <2>5, <2>6, <2>7, <2>8 DEF Aging, YoungOK
<1>5. CASE Return(t)
  BY <1>4, <1>5 DEF Return
<1>6. CASE DieCancelled(t)
  <2>1. caller[t].pc = "wait" /\ ~Pending(caller[t].fut) /\ Leaves(t, "dead") /\ cache' = cache
    BY <1>6 DEF DieCancelled, Pending
  <2> QED  BY <1>4, <2>1
<1> QED  BY <1>1, <1>3, <1>5, <1>6 DEF TaskStep

(* The oldest answer is read: the creator that it settles may be that of   *)
(* another of its slot, which is then left to the creator of the oldest.   *)
LEMMA ListenAging ==
    ASSUME Inv, Aging, Calm, Listen \/ ListenLimited
    PROVE  Aging'
<1> DEFINE f == current[SlotOf[Head(answers).key]]
           n == Len(answers) + Len(requests)
<1>1. /\ answers # << >> /\ Head(answers) = answers[1] /\ 1 \in 1 .. Len(answers)
      /\ Len(answers) \in Nat /\ Len(requests) \in Nat
      /\ Len(Tail(answers)) = Len(answers) - 1
      /\ \A i \in 1 .. Len(answers) - 1 : Tail(answers)[i] = answers[i + 1]
  <2>1. answers # << >> /\ answers \in Seq(Result) /\ Len(requests) \in Nat
    BY AnswerFacts DEF Inv, Listen, ListenLimited
  <2> QED  BY <2>1
<1>2. Listen
  BY <1>1 DEF ListenLimited, Calm
<1>3. /\ answers' = Tail(answers)
      /\ UNCHANGED <<current, caller, requests, cache, backoff, scenario>>
      /\ future' = IF Pending(f) THEN Settle(f, "done", Head(answers)) ELSE future
  BY <1>2 DEF Listen
<1>4. \A g \in Futs : future'[g] = future[g] \/ (g = f /\ future'[g].val = answers[1])
  BY <1>1, <1>3, Types DEF Inv, Settle
<1> HIDE DEF f
<1>5. PICK m : Backing(m)
  BY DEF Aging, Backed
<1>6. /\ m \in [1 .. n -> Callers] /\ 1 \in 1 .. n
      /\ \A i \in 1 .. n : Owner(m[i])
      /\ \A i, j \in 1 .. n : m[i] = m[j] => i = j
  BY <1>1, <1>5 DEF Backing
<1>7. answers[1].age <= Timeout
  <2>1. answers[1].age + caller[m[1]].left <= Timeout /\ m[1] \in Callers
    BY <1>1, <1>5, <1>6 DEF Backing
  <2>2. caller[m[1]].left \in Nat /\ Timeout \in Nat
    BY <2>1, CallFacts DEF Inv
  <2>3. answers[1].age \in Nat
    BY <1>1, AnswerFacts DEF Inv
  <2> QED  BY <2>1, <2>2, <2>3
<1>8. YoungOK'
  BY <1>3, <1>4, <1>7, SameScenario DEF Aging, YoungOK
<1>9. Senior'
  BY <1>3 DEF Aging, Senior, Together
<1>10. Sorted'
  <2> SUFFICES ASSUME NEW i \in 1 .. Len(answers) - 1, NEW j \in 1 .. Len(answers) - 1, i <= j
               PROVE  answers[j + 1].age <= answers[i + 1].age
    BY <1>1, <1>3 DEF Sorted
  <2>1. i + 1 \in 1 .. Len(answers) /\ j + 1 \in 1 .. Len(answers) /\ i + 1 <= j + 1
    BY <1>1
  <2> QED  BY <2>1 DEF Aging, Sorted
<1>11. ASSUME NEW u \in Callers, Owner(u), caller[u].fut # f
       PROVE  Owner(u)'
  <2>1. caller[u].fut \in Futs
    BY <1>11, CallFacts DEF Owner, Pending, Inv
  <2> QED  BY <1>3, <1>4, <1>11, <2>1 DEF Owner, Pending
<1>12. ASSUME NEW u \in Callers, NEW v \in Callers, Owner(u), Owner(v),
              caller[u].fut = f, caller[v].fut = f
       PROVE  u = v
  BY <1>12 DEF Owner, Aging, Senior, Together
<1>20. ASSUME NEW u \in Callers, Owner(u), caller[u].fut = f
       PROVE  SlotOf[caller[u].key] = SlotOf[answers[1].key]
  <2>1. OwnFuture(u)
    BY <1>20 DEF Owner, InCall, Inv, SharedInv, CallsOK
  <2>2. SlotOf[Head(answers).key] \in InUse
    <3>1. answers[1].key \in scope
      BY <1>1, AnswerFacts DEF Inv, SharedInv, QuestionsOK
    <3> QED  BY <1>1, <3>1, SlotFacts DEF Inv
  <2> QED  BY <1>1, <1>20, <2>1, <2>2 DEF OwnFuture, f
<1> DEFINE Hit(i) == caller[m[i]].fut = f
<1>0. PICK w : w = [i \in 1 .. n - 1 |-> IF Hit(i + 1) THEN m[1] ELSE m[i + 1]]
  OBVIOUS
<1>13. ASSUME NEW i \in 1 .. n, NEW j \in 1 .. n, Hit(i), Hit(j) PROVE i = j
  BY <1>6, <1>12, <1>13
<1>14. ASSUME NEW i \in 1 .. n - 1
       PROVE  /\ i + 1 \in 1 .. n /\ i + 1 # 1
              /\ w[i] \in Callers /\ Owner(w[i]) /\ caller[w[i]].fut # f
  <2>1. i + 1 \in 1 .. n /\ i + 1 # 1
    BY <1>1
  <2>2. Hit(i + 1) => ~Hit(1)
    BY <1>6, <1>13, <2>1
  <2>3. w[i] = IF Hit(i + 1) THEN m[1] ELSE m[i + 1]
    BY <1>0
  <2> QED  BY <1>6, <2>1, <2>2, <2>3
<1>15. ASSUME NEW i \in 1 .. n - 1, NEW j \in 1 .. n - 1, w[i] = w[j] PROVE i = j
  <2>1. /\ i + 1 \in 1 .. n /\ j + 1 \in 1 .. n /\ 1 \in 1 .. n
        /\ i + 1 # 1 /\ j + 1 # 1
    BY <1>1, <1>6
  <2>2. Hit(i + 1) <=> Hit(j + 1)
    <3>1. m[i + 1] # m[1] /\ m[j + 1] # m[1]
      BY <1>6, <2>1
    <3> QED  BY <1>0, <1>15, <3>1
  <2>3. i + 1 = j + 1
    <3>1. CASE Hit(i + 1)
      BY <1>13, <2>1, <2>2, <3>1
    <3>2. CASE ~Hit(i + 1)
      BY <1>0, <1>6, <1>15, <2>1, <2>2, <3>2
    <3> QED  BY <3>1, <3>2
  <2> QED  BY <2>3
<1>16. ASSUME NEW i \in 1 .. Len(answers) - 1
       PROVE  answers[i + 1].age + caller[w[i]].left <= Timeout
  <2>1. i \in 1 .. n - 1 /\ i + 1 \in 1 .. Len(answers) /\ 1 <= i + 1
    BY <1>1
  <2>2. CASE Hit(i + 1)
    <3>1. w[i] = m[1] /\ m[1] \in Callers
      BY <1>0, <1>6, <2>1, <2>2
    <3>2. answers[1].age + caller[m[1]].left <= Timeout
      BY <1>1, <1>5 DEF Backing
    <3>3. answers[i + 1].age <= answers[1].age
      BY <1>1, <2>1 DEF Aging, Sorted
    <3>4. /\ answers[1].age \in Nat /\ answers[i + 1].age \in Nat
          /\ caller[m[1]].left \in Nat /\ Timeout \in Nat
      BY <1>1, <2>1, <3>1, AnswerFacts, CallFacts DEF Inv
    <3> QED  BY <3>1, <3>2, <3>3, <3>4
  <2>3. CASE ~Hit(i + 1)
    <3>1. w[i] = m[i + 1]
      BY <1>0, <2>1, <2>3
    <3> QED  BY <1>5, <2>1, <3>1 DEF Backing
  <2> QED  BY <2>2, <2>3
<1>17. w \in [1 .. n - 1 -> Callers]
  BY <1>0, <1>14
<1>21. ASSUME NEW i \in 1 .. n - 1
       PROVE  SlotOf[caller[w[i]].key] = SlotOf[caller[m[i + 1]].key]
  <2>1. i + 1 \in 1 .. n /\ m[1] \in Callers /\ m[i + 1] \in Callers
    BY <1>6, <1>14
  <2>2. CASE Hit(i + 1)
    <3>1. w[i] = m[1]
      BY <1>0, <2>2
    <3>2. SlotOf[caller[m[1]].key] = SlotOf[answers[1].key]
      BY <1>1, <1>5 DEF Backing
    <3>3. SlotOf[caller[m[i + 1]].key] = SlotOf[answers[1].key]
      BY <1>6, <1>20, <2>1, <2>2
    <3> QED  BY <3>1, <3>2, <3>3
  <2>3. CASE ~Hit(i + 1)
    BY <1>0, <2>3
  <2> QED  BY <2>2, <2>3
<1> HIDE DEF Hit
<1>18. Len(answers') + Len(requests') = n - 1 /\ Len(answers') = Len(answers) - 1
  BY <1>1, <1>3
<1>19. Backing(w)'
  <2>1. w \in [1 .. Len(answers') + Len(requests') -> Callers] /\ DOMAIN w = 1 .. n - 1
    BY <1>17, <1>18
  <2>2. \A i \in 1 .. n - 1 : Owner(w[i])'
    BY <1>11, <1>14
  <2>3. \A i \in 1 .. Len(answers') : answers'[i].age + caller'[w[i]].left <= Timeout
    BY <1>1, <1>3, <1>16, <1>18
  <2>4. ASSUME NEW i \in 1 .. Len(answers')
        PROVE  SlotOf[caller'[w[i]].key] = SlotOf[answers'[i].key]
    <3>1. i \in 1 .. n - 1 /\ i + 1 \in 1 .. Len(answers) /\ answers'[i] = answers[i + 1]
      BY <1>1, <1>3, <1>18
    <3> QED  BY <1>3, <1>5, <1>21, <3>1 DEF Backing
  <2>5. ASSUME NEW i \in 1 .. Len(requests')
        PROVE  SlotOf[caller'[w[Len(answers') + i]].key] = SlotOf[requests'[i].key]
    <3>1. /\ Len(answers') + i \in 1 .. n - 1 /\ (Len(answers') + i) + 1 = Len(answers) + i
          /\ i \in 1 .. Len(requests) /\ requests'[i] = requests[i]
      BY <1>1, <1>3, <1>18
    <3> QED  BY <1>3, <1>5, <1>21, <3>1 DEF Backing
  <2> HIDE DEF n
  <2> QED  BY <1>15, <2>1, <2>2, <2>3, <2>4, <2>5 DEF Backing
<1> QED  BY <1>8, <1>9, <1>10, <1>19 DEF Aging, Backed

LEMMA ReplyAging ==
    ASSUME Inv, Aging, prompt, Reply
    PROVE  Aging'
<1> DEFINE x == [kind |-> "answer", key |-> Head(requests).key, age |-> 0]
<1>1. /\ requests # << >> /\ requests' = Tail(requests) /\ answers' = Append(answers, x)
      /\ UNCHANGED <<future, current, caller, cache, backoff, scenario>>
  BY DEF Reply
<1>2. requests \in Seq(Result) /\ answers \in Seq(Result)
  BY AnswerFacts DEF Inv
<1>3. x.age = 0 /\ x.key = requests[1].key
  BY <1>1, <1>2
<1> HIDE DEF x
<1>4. /\ Len(answers) \in Nat /\ Len(requests) \in Nat \ {0}
      /\ Len(requests') = Len(requests) - 1 /\ Len(answers') = Len(answers) + 1
      /\ answers'[Len(answers) + 1] = x
      /\ \A i \in 1 .. Len(answers) : answers'[i] = answers[i]
  BY <1>1, <1>2
<1>5. PICK m : Backing(m)
  BY DEF Aging, Backed
<1>6. Len(answers') + Len(requests') = Len(answers) + Len(requests)
  BY <1>4
<1>7. ASSUME NEW i \in 1 .. Len(answers')
      PROVE  answers'[i].age + caller'[m[i]].left <= Timeout
  <2>1. CASE i \in 1 .. Len(answers)
    BY <1>1, <1>4, <1>5, <2>1 DEF Backing
  <2>2. CASE i = Len(answers) + 1
    <3>1. m[i] \in Callers
      BY <1>4, <1>5, <2>2 DEF Backing
    <3> QED  BY <1>1, <1>3, <1>4, <2>2, <3>1, CallFacts DEF Inv
  <2> QED  BY <1>4, <2>1, <2>2
<1>11. ASSUME NEW i \in 1 .. Len(answers')
       PROVE  SlotOf[caller'[m[i]].key] = SlotOf[answers'[i].key]
  <2>1. CASE i \in 1 .. Len(answers)
    BY <1>1, <1>4, <1>5, <2>1 DEF Backing
  <2>2. CASE i = Len(answers) + 1
    <3>1. SlotOf[caller[m[Len(answers) + 1]].key] = SlotOf[requests[1].key]
      BY <1>4, <1>5 DEF Backing
    <3> QED  BY <1>1, <1>3, <1>4, <2>2, <3>1
  <2> QED  BY <1>4, <2>1, <2>2
<1>12. ASSUME NEW i \in 1 .. Len(requests')
       PROVE  SlotOf[caller'[m[Len(answers') + i]].key] = SlotOf[requests'[i].key]
  <2>1. /\ i + 1 \in 1 .. Len(requests) /\ Len(answers') + i = Len(answers) + (i + 1)
        /\ requests'[i] = requests[i + 1]
    BY <1>1, <1>2, <1>4
  <2> QED  BY <1>1, <1>5, <2>1 DEF Backing
<1>8. Backing(m)'
  <2>1. \A u \in Callers : Owner(u)' <=> Owner(u)
    BY <1>1 DEF Owner, Pending
  <2> QED  BY <1>5, <1>6, <1>7, <1>11, <1>12, <2>1 DEF Backing
<1>9. Sorted'
  BY <1>3, <1>4, AnswerFacts DEF Aging, Sorted, Inv
<1>10. Senior' /\ YoungOK'
  BY <1>1, SameScenario DEF Aging, Senior, Together, YoungOK
<1> QED  BY <1>8, <1>9, <1>10 DEF Aging, Backed

LEMMA OlderFacts ==
    ASSUME NEW a \in Ages, NEW b \in Ages
    PROVE  /\ Older(a) \in Nat /\ Older(a) <= a + 1
           /\ a <= b => Older(a) <= Older(b)
           /\ a <= b + Timeout => Older(a) <= Older(b) + Timeout
BY RequestAssumption DEF Ages, MaxAge, Older

LEMMA TickAging ==
    ASSUME Inv, Aging, prompt, Tick
    PROVE  Aging'
<1>1. /\ UNCHANGED <<future, current, backoff, scenario>> /\ InTime
      /\ requests' = Aged(requests) /\ answers' = Aged(answers)
      /\ cache' = [cache EXCEPT !.age = Older(@),
                      !.val.age = IF cache.val.kind = "answer" THEN Older(@) ELSE @]
  BY DEF Tick
<1>2. /\ requests \in Seq(Result) /\ answers \in Seq(Result)
      /\ Len(answers) \in Nat /\ Len(requests) \in Nat
  BY AnswerFacts DEF Inv
<1>3. /\ Len(answers') = Len(answers) /\ Len(requests') = Len(requests)
      /\ \A i \in 1 .. Len(answers) : /\ answers'[i].age = Older(answers[i].age)
                                      /\ answers'[i].key = answers[i].key
      /\ \A i \in 1 .. Len(requests) : requests'[i].key = requests[i].key
  <2>1. DOMAIN answers = 1 .. Len(answers) /\ DOMAIN requests = 1 .. Len(requests)
    BY <1>2
  <2>2. ASSUME NEW i \in 1 .. Len(answers) PROVE answers'[i].age = Older(answers[i].age)
    <3>1. answers[i] \in Result
      BY <1>2
    <3> QED  BY <1>1, <2>1, <3>1 DEF Aged, Result
  <2>4. /\ \A i \in 1 .. Len(answers) : answers'[i].key = answers[i].key
        /\ \A i \in 1 .. Len(requests) : requests'[i].key = requests[i].key
    BY <1>1, <1>2, <2>1, AgedKeys DEF Aged
  <2>3. Len(answers') = Len(answers) /\ Len(requests') = Len(requests)
    BY <1>1, <1>2, AgedType
  <2> QED  BY <2>2, <2>3, <2>4
<1>4. ASSUME NEW u \in Callers
      PROVE  /\ caller'[u].pc = caller[u].pc /\ caller'[u].fut = caller[u].fut
             /\ caller'[u].creator = caller[u].creator /\ caller'[u].key = caller[u].key
             /\ caller[u].pc = "wait" => caller'[u].left = caller[u].left - 1
  <2>1. caller[u] \in Call
    BY Types DEF Inv
  <2>2. CASE InCall(u)
    BY <2>1, <2>2 DEF Tick, Call
  <2>3. CASE ~InCall(u)
    BY <2>3 DEF Tick, InCall
  <2> QED  BY <2>2, <2>3
<1>5. Senior'
  BY <1>4, CallFacts DEF Aging, Senior, Together, Inv
<1>6. Sorted'
  <2> SUFFICES ASSUME NEW i \in 1 .. Len(answers), NEW j \in 1 .. Len(answers), i <= j
               PROVE  Older(answers[j].age) <= Older(answers[i].age)
    BY <1>3 DEF Sorted
  <2>1. answers[i].age \in Ages /\ answers[j].age \in Ages
    BY AnswerFacts DEF Inv, Result
  <2> QED  BY <2>1, OlderFacts DEF Aging, Sorted
<1>7. YoungOK'
  <2>1. cache \in [full : BOOLEAN, age : Ages, val : Result]
    BY Types DEF Inv
  <2>2. cache.age \in Ages /\ cache.val.age \in Ages /\ cache.val \in Result
    BY <2>1 DEF Result
  <2>3. /\ cache'.age = Older(cache.age) /\ cache'.val.kind = cache.val.kind
        /\ cache.val.kind = "answer" => cache'.val.age = Older(cache.val.age)
    BY <1>1, <2>1, <2>2 DEF Result
  <2> QED  BY <1>1, <2>2, <2>3, OlderFacts, SameScenario DEF Aging, YoungOK
<1>8. Backed'
  <2>1. PICK m : Backing(m)
    BY DEF Aging, Backed
  <2>2. ASSUME NEW i \in 1 .. Len(answers) + Len(requests)
        PROVE  m[i] \in Callers /\ Owner(m[i]) /\ Owner(m[i])'
    <3>1. m[i] \in Callers /\ Owner(m[i])
      BY <2>1 DEF Backing
    <3>2. requests \o answers # << >>
      <4>1. Len(requests \o answers) = Len(requests) + Len(answers)
        BY <1>2, ConcatProperties
      <4> QED  BY <1>2, <4>1, EmptySeq
    <3>3. caller[m[i]].left > 1
      BY <1>1, <3>1, <3>2 DEF InTime, Owner
    <3> QED  BY <1>1, <1>4, <3>1, <3>3, CallFacts DEF Owner, Pending, Inv
  <2>3. ASSUME NEW i \in 1 .. Len(answers)
        PROVE  answers'[i].age + caller'[m[i]].left <= Timeout
    <3>1. /\ m[i] \in Callers /\ caller'[m[i]].left = caller[m[i]].left - 1
          /\ answers[i].age + caller[m[i]].left <= Timeout
      BY <1>2, <1>4, <2>1, <2>2 DEF Backing, Owner
    <3>2. answers[i].age \in Ages /\ caller[m[i]].left \in Nat /\ Timeout \in Nat
      BY <3>1, AnswerFacts, CallFacts DEF Inv, Result
    <3>3. /\ Older(answers[i].age) \in Nat /\ answers[i].age \in Nat
          /\ Older(answers[i].age) <= answers[i].age + 1
      BY <3>2, OlderFacts DEF Ages
    <3> QED  BY <1>3, <3>1, <3>2, <3>3
  <2>4. ASSUME NEW i \in 1 .. Len(answers)
        PROVE  SlotOf[caller'[m[i]].key] = SlotOf[answers'[i].key]
    BY <1>2, <1>3, <1>4, <2>1, <2>2 DEF Backing
  <2>5. ASSUME NEW i \in 1 .. Len(requests)
        PROVE  SlotOf[caller'[m[Len(answers) + i]].key] = SlotOf[requests'[i].key]
    <3>1. Len(answers) + i \in 1 .. Len(answers) + Len(requests)
      BY <1>2
    <3>2. SlotOf[caller[m[Len(answers) + i]].key] = SlotOf[requests[i].key]
      BY <2>1 DEF Backing
    <3> QED  BY <1>3, <1>4, <2>2, <3>1, <3>2
  <2>6. Backing(m)'
    BY <1>3, <2>1, <2>2, <2>3, <2>4, <2>5 DEF Backing
  <2> QED  BY <2>6 DEF Backed
<1> QED  BY <1>5, <1>6, <1>7, <1>8 DEF Aging

LEMMA AgingStep == Inv /\ CalmInv /\ AgingInv /\ [Next]_vars => AgingInv'
<1> SUFFICES ASSUME Inv, CalmInv, AgingInv, [Next]_vars PROVE AgingInv'
  OBVIOUS
<1> SUFFICES ASSUME prompt' PROVE Aging'
  BY DEF AgingInv
<1>1. scenario' = scenario
  BY ScenarioStays
<1>2. prompt /\ Calm /\ Aging
  BY <1>1, SameScenario DEF CalmInv, AgingInv
<1>3. ASSUME NEW t \in Callers, NEW k \in Keys, NEW force \in BOOLEAN,
             Join(t, k, force) \/ Create(t, k, force)
      PROVE  Aging'
  BY <1>2, <1>3, JoinAging, CreateAging
<1>4. ASSUME NEW t \in Callers, TaskStep(t) PROVE Aging'
  BY <1>2, <1>4, TaskAging
<1>5. ASSUME Listen \/ ListenLimited PROVE Aging'
  BY <1>2, <1>5, ListenAging
<1>6. ~BackoffOver
  BY <1>2 DEF BackoffOver, Calm
<1>7. CASE Reply
  BY <1>2, <1>7, ReplyAging
<1>8. CASE Tick
  BY <1>2, <1>8, TickAging
<1>9. CASE UNCHANGED vars
  <2>1. UNCHANGED <<future, caller, requests, answers, cache, scenario>>
    BY <1>9 DEF vars
  <2>2. \A u \in Callers : Owner(u) => Owner(u)'
    BY <2>1 DEF Owner, Pending
  <2>3. Backed'
    BY <1>2, <2>1, <2>2, BackedKept DEF Aging
  <2> QED
    BY <1>2, <2>1, <2>3, SameScenario DEF Aging, Senior, Together, Sorted, YoungOK
<1> QED  BY <1>3, <1>4, <1>5, <1>6, <1>7, <1>8, <1>9 DEF Next

-----------------------------------------------------------------------------
(* The requests and answers of a slot have as many creators that still     *)
(* wait, and these wait for the future in the slot or for a wiped one.     *)
OfSlot(s, q) == {i \in DOMAIN q : SlotOf[q[i].key] = s}

LEMMA WaitersOfSlot ==
    ASSUME Inv, NEW t \in Callers, Owner(t), NEW s \in InUse, SlotOf[caller[t].key] = s
    PROVE  \/ caller[t].fut = current[s] /\ Pending(current[s])
           \/ caller[t].fut \in Wiped(s)
<1> SUFFICES ASSUME caller[t].fut # current[s] PROVE caller[t].fut \in Wiped(s)
  BY DEF Owner
<1>1. InCall(t) /\ Pending(caller[t].fut) /\ caller[t].fut \in Futs
  BY DEF Owner, InCall, Inv, SharedInv, CallsOK, OwnFuture
<1>2. s \in ClearsOnExit
  BY <1>1, SlotFacts DEF Inv, SharedInv, WaitedForIsReachable, Lasting
<1> QED  BY <1>1, <1>2 DEF Wiped, WaitedFor

LEMMA Sharing ==
    ASSUME Inv, Aging, NEW s \in InUse
    PROVE  Under(s) <= (IF Pending(current[s]) THEN 1 ELSE 0) + Cardinality(Wiped(s))
<1> DEFINE A == OfSlot(s, answers)
           R == OfSlot(s, requests)
           n == Len(answers) + Len(requests)
           now == IF Pending(current[s]) THEN {current[s]} ELSE {}
           due == now \cup Wiped(s)
<1>1. PICK m : Backing(m)
  BY DEF Aging, Backed
<1>2. PICK h : h = [i \in 1 .. n |-> caller[m[i]].fut]
  OBVIOUS
<1>3. /\ requests \in Seq(Result) /\ answers \in Seq(Result)
      /\ Len(answers) \in Nat /\ Len(requests) \in Nat /\ n \in Nat
  BY AnswerFacts DEF Inv
<1>4. ASSUME NEW i \in A
      PROVE  i \in 1 .. n /\ i \in 1 .. Len(answers) /\ SlotOf[caller[m[i]].key] = s
  <2>1. i \in 1 .. Len(answers) /\ SlotOf[answers[i].key] = s
    BY <1>3 DEF OfSlot
  <2> QED  BY <1>1, <1>3, <2>1 DEF Backing
<1>5. ASSUME NEW i \in R
      PROVE  /\ Len(answers) + i \in 1 .. n /\ Len(answers) + i \notin 1 .. Len(answers)
             /\ SlotOf[caller[m[Len(answers) + i]].key] = s
  <2>1. i \in 1 .. Len(requests) /\ SlotOf[requests[i].key] = s
    BY <1>3 DEF OfSlot
  <2> QED  BY <1>1, <1>3, <2>1 DEF Backing
<1>6. \A i \in 1 .. n : m[i] \in Callers /\ Owner(m[i])
  BY <1>1 DEF Backing
<1>7. ASSUME NEW i \in 1 .. n, SlotOf[caller[m[i]].key] = s PROVE h[i] \in due
  BY <1>2, <1>6, <1>7, WaitersOfSlot
<1>8. ASSUME NEW i \in 1 .. n, NEW j \in 1 .. n, h[i] = h[j] PROVE i = j
  <2>1. m[i] = m[j]
    BY <1>2, <1>6, <1>8 DEF Owner, Aging, Senior, Together
  <2> QED  BY <1>1, <2>1 DEF Backing
<1> DEFINE B == {h[i] : i \in A}
           D == {h[Len(answers) + i] : i \in R}
<1>9. IsFiniteSet(due) /\ Cardinality(due) <= (IF Pending(current[s]) THEN 1 ELSE 0) + Cardinality(Wiped(s))
  <2>1. IsFiniteSet(Futs)
    BY SlotFacts, FS_Interval DEF Inv, Futs
  <2>2. IsFiniteSet(Wiped(s)) /\ Cardinality(Wiped(s)) \in Nat
    <3>1. Wiped(s) \subseteq Futs
      BY DEF Wiped, WaitedFor
    <3> QED  BY <2>1, <3>1, FS_Subset, FS_CardinalityType
  <2>3. IsFiniteSet(now) /\ Cardinality(now) = IF Pending(current[s]) THEN 1 ELSE 0
    BY FS_Singleton, FS_EmptySet
  <2> HIDE DEF now
  <2>4. /\ IsFiniteSet(due)
        /\ Cardinality(due) = Cardinality(now) + Cardinality(Wiped(s)) - Cardinality(now \cap Wiped(s))
    BY <2>2, <2>3, FS_Union
  <2>5. Cardinality(now \cap Wiped(s)) \in Nat
    <3>1. IsFiniteSet(now \cap Wiped(s))
      BY <2>3, FS_Subset
    <3> QED  BY <3>1, FS_CardinalityType
  <2> QED  BY <2>2, <2>3, <2>4, <2>5
<1> HIDE DEF A, R, n, due
<1>10. B \subseteq due /\ D \subseteq due /\ B \cap D = {}
  <2>1. B \subseteq due
    BY <1>4, <1>7
  <2>2. D \subseteq due
    BY <1>5, <1>7
  <2>3. ASSUME NEW i \in A, NEW j \in R PROVE h[i] # h[Len(answers) + j]
    BY <1>4, <1>5, <1>8
  <2> QED  BY <2>1, <2>2, <2>3
<1>11. IsFiniteSet(B) /\ IsFiniteSet(D) /\ IsFiniteSet(B \cup D)
  <2>1. B \cup D \subseteq due
    BY <1>10
  <2> HIDE DEF B, D
  <2> QED  BY <1>9, <1>10, <2>1, FS_Subset
<1>12. Cardinality(A) <= Cardinality(B)
  <2>1. [i \in A |-> h[i]] \in Injection(A, B)
    BY <1>4, <1>8 DEF Injection, IsInjective
  <2> HIDE DEF B
  <2> QED  BY <1>11, <2>1, FS_Injection
<1>13. Cardinality(R) <= Cardinality(D)
  <2>1. ASSUME NEW i \in R, NEW j \in R, h[Len(answers) + i] = h[Len(answers) + j] PROVE i = j
    <3>1. Len(answers) + i = Len(answers) + j
      BY <1>5, <1>8, <2>1
    <3>2. i \in Nat /\ j \in Nat
      BY <1>3 DEF R, OfSlot
    <3> QED  BY <1>3, <3>1, <3>2
  <2>2. [i \in R |-> h[Len(answers) + i]] \in Injection(R, D)
    BY <2>1 DEF Injection, IsInjective
  <2> HIDE DEF D
  <2> QED  BY <1>11, <2>2, FS_Injection
<1>14. Cardinality(B \cup D) = Cardinality(B) + Cardinality(D)
  <2> HIDE DEF B, D
  <2>1. Cardinality(B \cup D) = Cardinality(B) + Cardinality(D) - Cardinality(B \cap D)
    BY <1>11, FS_Union
  <2>2. Cardinality(B \cap D) = 0 /\ Cardinality(B) \in Nat /\ Cardinality(D) \in Nat
    BY <1>10, <1>11, FS_EmptySet, FS_CardinalityType
  <2> QED  BY <2>1, <2>2
<1>15. Cardinality(B \cup D) <= Cardinality(due)
  <2> HIDE DEF B, D
  <2> QED  BY <1>9, <1>10, FS_Subset
<1>16. Under(s) = Cardinality(R) + Cardinality(A)
  BY DEF Under, A, R, OfSlot
<1>17. /\ Cardinality(A) \in Nat /\ Cardinality(R) \in Nat /\ Cardinality(due) \in Nat
       /\ Cardinality(B) \in Nat /\ Cardinality(D) \in Nat /\ Cardinality(Wiped(s)) \in Nat
  <2>1. IsFiniteSet(A) /\ IsFiniteSet(R)
    <3>1. A \subseteq 1 .. Len(answers) /\ R \subseteq 1 .. Len(requests)
      BY <1>3 DEF A, R, OfSlot
    <3>2. IsFiniteSet(1 .. Len(answers)) /\ IsFiniteSet(1 .. Len(requests))
      BY <1>3, FS_Interval
    <3> QED  BY <3>1, <3>2, FS_Subset
  <2>2. IsFiniteSet(Wiped(s))
    <3>1. Wiped(s) \subseteq due
      BY DEF due
    <3> QED  BY <1>9, <3>1, FS_Subset
  <2> HIDE DEF B, D
  <2> QED  BY <1>9, <1>11, <2>1, <2>2, FS_CardinalityType
<1> HIDE DEF B, D
<1> QED  BY <1>9, <1>12, <1>13, <1>14, <1>15, <1>16, <1>17

-----------------------------------------------------------------------------
(* Only wiped futures are given up, if the broker answers in time and no   *)
(* more requests can be under way than it answers (MaxRequests): a pending *)
(* future in a slot has a request under way, so the time of those who wait *)
(* for it does not run out; and a pending future has a task in its call.   *)
RoomForAll == Cardinality(Callers) <= MaxRequests

Asks(s) == OfSlot(s, requests) # {} \/ OfSlot(s, answers) # {}
Reached(t) ==
    /\ caller[t].pc = "wait" /\ Pending(caller[t].fut)
    /\ current[SlotOf[caller[t].key]] = caller[t].fut
Served ==
    /\ \A s \in InUse : Pending(current[s]) => Asks(s)
    /\ \A t \in Callers : Reached(t) => caller[t].left # 0
    /\ \A f \in Futs : Pending(f) => \E t \in Callers : InCall(t) /\ caller[t].fut = f
ServedInv == prompt => Served

LEMMA OfAppend ==
    ASSUME NEW q \in Seq(Result), NEW x \in Result, NEW s
    PROVE  /\ SlotOf[x.key] = s => OfSlot(s, Append(q, x)) = OfSlot(s, q) \cup {Len(q) + 1}
           /\ SlotOf[x.key] # s => OfSlot(s, Append(q, x)) = OfSlot(s, q)
<1>1. /\ Len(q) \in Nat /\ DOMAIN q = 1 .. Len(q)
      /\ DOMAIN Append(q, x) = 1 .. Len(q) + 1
      /\ \A i \in 1 .. Len(q) : Append(q, x)[i] = q[i]
      /\ Append(q, x)[Len(q) + 1] = x
  OBVIOUS
<1> QED  BY <1>1 DEF OfSlot

LEMMA OfTailBack ==
    ASSUME NEW q \in Seq(Result), q # << >>, NEW s, NEW i \in OfSlot(s, q)
    PROVE  \/ i = 1 /\ SlotOf[Head(q).key] = s
           \/ i - 1 \in OfSlot(s, Tail(q))
<1>1. /\ Len(q) \in Nat \ {0} /\ DOMAIN q = 1 .. Len(q)
      /\ DOMAIN Tail(q) = 1 .. Len(q) - 1
      /\ \A j \in 1 .. Len(q) - 1 : Tail(q)[j] = q[j + 1]
      /\ Head(q) = q[1]
  OBVIOUS
<1>2. CASE i = 1
  BY <1>1, <1>2 DEF OfSlot
<1>3. CASE i # 1
  <2>1. i \in 1 .. Len(q) /\ i - 1 \in 1 .. Len(q) - 1 /\ Tail(q)[i - 1] = q[i]
    BY <1>1, <1>3 DEF OfSlot
  <2> QED  BY <1>1, <2>1 DEF OfSlot
<1> QED  BY <1>2, <1>3

LEMMA OfAged ==
    ASSUME NEW q \in Seq(Result), NEW s
    PROVE  OfSlot(s, Aged(q)) = OfSlot(s, q)
<1>1. DOMAIN Aged(q) = DOMAIN q
  BY DEF Aged
<1> QED  BY <1>1, AgedKeys DEF OfSlot

LEMMA ServedInit == Init => ServedInv
BY DEF Init, ServedInv, Served, Pending, Reached, NoCall, FreeFuture

LEMMA CardUpTo == ASSUME NEW n \in Nat PROVE Cardinality(1 .. n) = n
<1>1. Cardinality(1 .. n) = IF 1 > n THEN 0 ELSE n - 1 + 1
  BY FS_Interval
<1> QED  BY <1>1

(* A task that is about to ask is the creator of no request.               *)
LEMMA RoomToAsk ==
    ASSUME RoomForAll, Inv, Aging, NEW t \in Callers, caller[t].pc = "idle"
    PROVE  Len(requests) + Len(answers) < MaxRequests
<1> DEFINE n == Len(answers) + Len(requests)
           others == Callers \ {t}
<1>1. PICK m : Backing(m)
  BY DEF Aging, Backed
<1>2. n \in Nat /\ Len(answers) \in Nat /\ Len(requests) \in Nat
  BY AnswerFacts DEF Inv
<1>3. m \in Injection(1 .. n, others)
  <2>1. m \in [1 .. n -> others]
    BY <1>1 DEF Backing, Owner
  <2> QED  BY <1>1, <2>1 DEF Backing, Injection, IsInjective
<1>4. IsFiniteSet(others) /\ Cardinality(others) = Cardinality(Callers) - 1
  BY SlotFacts, FS_RemoveElement DEF Inv
<1> HIDE DEF n, others
<1>5. Cardinality(1 .. n) = n
  BY <1>2, CardUpTo
<1>6. Cardinality(1 .. n) <= Cardinality(others)
  BY <1>3, <1>4, FS_Injection
<1>7. n < Cardinality(Callers) /\ Cardinality(Callers) \in Nat
  BY <1>2, <1>4, <1>5, <1>6, SlotFacts DEF Inv
<1> QED  BY <1>2, <1>7, RequestAssumption DEF RoomForAll, n

(* Requests and answers stay and slots are at most emptied; what is        *)
(* pending was, and its tasks go on.                                       *)
LEMMA ServedKept ==
    ASSUME Inv, Served, UNCHANGED <<requests, answers, scenario>>,
           \A s \in InUse : current'[s] = current[s] \/ current'[s] = 0,
           \A f \in Futs : Pending(f)' => Pending(f),
           \A t \in Callers :
                \/ caller'[t].pc \notin {"sleep", "wait"}
                \/ /\ caller'[t].pc = caller[t].pc /\ caller'[t].key = caller[t].key
                   /\ caller'[t].fut = caller[t].fut /\ caller'[t].left = caller[t].left,
           \A t \in Callers, f \in Futs :
                Pending(f)' /\ InCall(t) /\ caller[t].fut = f => InCall(t)'
    PROVE  Served'
<1>1. \A s : Asks(s)' = Asks(s)
  BY DEF Asks, OfSlot
<1>2. InUse' = InUse /\ Futs' = Futs
  BY SameScenario
<1>3. ASSUME NEW s \in InUse, Pending(current[s])' PROVE Asks(s)'
  <2>1. current'[s] = current[s] /\ current[s] \in Futs
    BY <1>3, Types DEF Inv, Pending
  <2> QED  BY <1>1, <1>3, <2>1 DEF Served, Pending
<1>4. ASSUME NEW t \in Callers, Reached(t)' PROVE caller'[t].left # 0
  <2>1. /\ caller[t].pc = "wait" /\ caller'[t].key = caller[t].key
        /\ caller'[t].fut = caller[t].fut /\ caller'[t].left = caller[t].left
    BY <1>4 DEF Reached
  <2>2. OwnFuture(t) /\ SlotOf[caller[t].key] \in InUse
    BY <2>1, SlotFacts DEF Inv, SharedInv, CallsOK, InCall, OwnFuture
  <2>3. Pending(caller[t].fut)
    BY <1>4, <2>1, <2>2 DEF Reached, OwnFuture, Pending
  <2>4. current[SlotOf[caller[t].key]] = caller[t].fut
    BY <1>4, <2>1, <2>2, SlotFacts DEF Reached, OwnFuture, Inv
  <2> QED  BY <2>1, <2>3, <2>4 DEF Served, Reached
<1>5. ASSUME NEW f \in Futs, Pending(f)'
      PROVE  \E t \in Callers : InCall(t)' /\ caller'[t].fut = f
  <2>1. PICK t \in Callers : InCall(t) /\ caller[t].fut = f
    BY <1>5 DEF Served
  <2>2. InCall(t)'
    BY <1>5, <2>1
  <2> QED  BY <2>1, <2>2 DEF InCall
<1> QED  BY <1>2, <1>3, <1>4, <1>5 DEF Served

LEMMA JoinServed ==
    ASSUME Inv, Served, NEW t \in Callers, NEW k \in Keys, NEW force \in BOOLEAN,
           Join(t, k, force)
    PROVE  Served'
<1>1. /\ UNCHANGED <<future, current, requests, answers, backoff, scenario>>
      /\ caller' = Began(t, k, "wait", current[SlotOf[k]], FALSE)
      /\ caller[t].pc = "idle"
  BY DEF Join, AsksBroker
<1>2. /\ caller'[t].left # 0
      /\ \A u \in Callers \ {t} : caller'[u] = caller[u]
  BY <1>1, RequestAssumption, Types DEF Inv, Began, NoCall, Call
<1>3. \A s : Asks(s)' = Asks(s) /\ (Pending(current[s])' <=> Pending(current[s]))
  BY <1>1 DEF Asks, OfSlot, Pending
<1>4. \A u \in Callers \ {t} : Reached(u)' <=> Reached(u)
  BY <1>1, <1>2 DEF Reached, Pending
<1>5. ASSUME NEW f \in Futs, Pending(f)'
      PROVE  \E u \in Callers : InCall(u)' /\ caller'[u].fut = f
  <2>1. PICK u \in Callers : InCall(u) /\ caller[u].fut = f
    BY <1>1, <1>5 DEF Served, Pending
  <2> QED  BY <1>1, <1>2, <2>1 DEF InCall
<1>6. InUse' = InUse /\ Futs' = Futs
  BY <1>1, SameScenario
<1> QED  BY <1>2, <1>3, <1>4, <1>5, <1>6 DEF Served

LEMMA CreateServed ==
    ASSUME RoomForAll, Inv, Aging, Served, Calm,
           NEW t \in Callers, NEW k \in Keys, NEW force \in BOOLEAN, Create(t, k, force)
    PROVE  Served'
<1> DEFINE f == Fresh
           s == SlotOf[k]
<1>1. /\ k \in scope /\ s \in InUse /\ caller[t].pc = "idle"
      /\ UNCHANGED <<answers, backoff, scenario>>
  BY SlotFacts DEF Inv, Create, AsksBroker
<1>2. f \in Unused /\ f \in Futs /\ f # 0
  BY <1>1, FreshIsUnused, SlotFacts DEF Inv
<1>3. requests' = Append(requests, Answer(k, 0))
  BY <1>1, RoomToAsk DEF Create, Calm, Asked
<1>4. /\ \A r \in InUse \ {s} : current'[r] = current[r] /\ current[r] # f
      /\ current'[s] = f
  BY <1>1, <1>2, Types DEF Inv, Unused, Create
<1>5. /\ future'[f].state = "pending"
      /\ \A g \in Futs \ {f} : future'[g] = future[g]
  BY <1>2, Types DEF Inv, Settle, Create
<1>6. /\ caller'[t].left # 0 /\ caller'[t].fut = f /\ caller'[t].pc \in {"sleep", "wait"}
      /\ \A u \in Callers \ {t} : caller'[u] = caller[u]
  BY RequestAssumption, Types DEF Inv, Create, Began, NoCall, Call, Calm
<1>7. \A r : (Asks(r) \/ r = s) => Asks(r)'
  <2>1. requests \in Seq(Result) /\ Answer(k, 0) \in Result /\ Answer(k, 0).key = k
    BY <1>1, Types, Values DEF Inv, Answer
  <2>2. OfSlot(s, requests') = OfSlot(s, requests) \cup {Len(requests) + 1}
    BY <1>3, <2>1, OfAppend
  <2>3. \A r : r # s => OfSlot(r, requests') = OfSlot(r, requests)
    BY <1>3, <2>1, OfAppend
  <2>4. \A r : OfSlot(r, answers)' = OfSlot(r, answers)
    BY <1>1 DEF OfSlot
  <2> QED  BY <2>2, <2>3, <2>4 DEF Asks
<1> HIDE DEF f
<1>8. ASSUME NEW r \in InUse, Pending(current[r])' PROVE Asks(r)'
  <2>1. CASE r # s
    <3>1. current'[r] = current[r] /\ current[r] # f
      BY <1>4, <2>1
    <3>2. current[r] \in Futs
      BY <1>8, <3>1, Types DEF Inv, Pending
    <3>3. Pending(current[r])
      BY <1>5, <1>8, <3>1, <3>2 DEF Pending
    <3> QED  BY <1>7, <3>3 DEF Served
  <2> QED  BY <1>7, <2>1
<1>9. ASSUME NEW u \in Callers, Reached(u)' PROVE caller'[u].left # 0
  <2>1. CASE u # t
    <3>1. /\ caller'[u] = caller[u] /\ caller[u].pc = "wait" /\ OwnFuture(u)
          /\ caller[u].fut # f /\ SlotOf[caller[u].key] \in InUse
      BY <1>2, <1>6, <1>9, <2>1, SlotFacts
         DEF Reached, Unused, InCall, Inv, SharedInv, CallsOK, OwnFuture
    <3>2. Pending(caller[u].fut)
      BY <1>5, <1>9, <3>1 DEF Reached, OwnFuture, Pending
    <3>3. current[SlotOf[caller[u].key]] = caller[u].fut
      BY <1>4, <1>9, <3>1 DEF Reached
    <3> QED  BY <3>1, <3>2, <3>3 DEF Served, Reached
  <2> QED  BY <1>6, <2>1
<1>10. ASSUME NEW g \in Futs, Pending(g)'
       PROVE  \E u \in Callers : InCall(u)' /\ caller'[u].fut = g
  <2>1. CASE g = f
    BY <1>6, <2>1 DEF InCall
  <2>2. CASE g # f
    <3>1. Pending(g)
      BY <1>5, <1>10, <2>2 DEF Pending
    <3>2. PICK u \in Callers : InCall(u) /\ caller[u].fut = g
      BY <3>1 DEF Served
    <3> QED  BY <1>1, <1>6, <3>2 DEF InCall
  <2> QED  BY <2>1, <2>2
<1>11. InUse' = InUse /\ Futs' = Futs
  BY <1>1, SameScenario
<1> QED  BY <1>8, <1>9, <1>10, <1>11 DEF Served

(* A task that leaves does not free a future that is pending.              *)
LEMMA LeavesPending ==
    ASSUME Inv, Served, NEW t \in Callers, NEW pc \in {"idle", "dead"}, Leaves(t, pc),
           ~Pending(caller[t].fut)
    PROVE  /\ caller'[t].pc = pc /\ \A u \in Callers \ {t} : caller'[u] = caller[u]
           /\ \A g \in Futs : Pending(g)' <=> Pending(g)
<1>1. caller'[t].pc = pc /\ \A u \in Callers \ {t} : caller'[u] = caller[u]
  BY Types DEF Inv, Leaves, NoCall, Call
<1>2. ASSUME NEW g \in Futs, Pending(g) PROVE Pending(g)'
  <2>1. PICK u \in Callers : InCall(u) /\ caller[u].fut = g
    BY <1>2 DEF Served
  <2>2. g \notin Unused'
    BY <1>1, <1>2, <2>1 DEF Unused, InCall
  <2> QED  BY <1>2, <2>2 DEF Leaves, Pending
<1>3. ASSUME NEW g \in Futs, Pending(g)' PROVE Pending(g)
  BY <1>3 DEF Leaves, Pending, FreeFuture
<1> QED  BY <1>1, <1>2, <1>3

LEMMA TaskServed ==
    ASSUME Inv, Calm, Served, NEW t \in Callers, TaskStep(t)
    PROVE  Served'
<1>1. ~Wake(t)
  BY DEF Wake, Calm
<1>2. UNCHANGED <<requests, answers, scenario>>
  BY <1>1 DEF TaskStep, TimeOut, Return, DieCancelled, Leaves
<1>3. CASE TimeOut(t)
  <2>1. current' = current /\ caller[t].fut \in Futs
    BY <1>3 DEF TimeOut, Inv, SharedInv, CallsOK, InCall, OwnFuture
  <2>2. /\ \A g \in Futs : g = caller[t].fut \/ future'[g] = future[g]
        /\ future'[caller[t].fut].state # "pending"
    BY <1>3, <2>1, Types DEF TimeOut, Inv, Settle
  <2>3. \A g \in Futs : Pending(g)' => Pending(g)
    BY <2>2 DEF Pending
  <2>4. \A u \in Callers :
            /\ caller'[u].pc = caller[u].pc /\ caller'[u].key = caller[u].key
            /\ caller'[u].fut = caller[u].fut /\ caller'[u].left = caller[u].left
    BY <1>3, Types DEF TimeOut, Inv, Call
  <2>5. \A u \in Callers : InCall(u) => InCall(u)'
    BY <2>4 DEF InCall
  <2> QED  BY <1>2, <2>1, <2>3, <2>4, <2>5, ServedKept
<1>4. ASSUME NEW pc \in {"idle", "dead"}, Leaves(t, pc), ~Pending(caller[t].fut)
      PROVE  Served'
  <2>1. /\ caller'[t].pc = pc /\ \A u \in Callers \ {t} : caller'[u] = caller[u]
        /\ \A g \in Futs : Pending(g)' <=> Pending(g)
    BY <1>4, LeavesPending
  <2>2. \A r \in InUse : current'[r] = current[r] \/ current'[r] = 0
    BY <1>4, Types DEF Inv, Leaves, SlotAfter
  <2>3. ASSUME NEW u \in Callers, NEW g \in Futs, Pending(g)', InCall(u), caller[u].fut = g
        PROVE  InCall(u)'
    BY <1>4, <2>1, <2>3 DEF InCall
  <2>4. \A u \in Callers :
            caller'[u].pc \notin {"sleep", "wait"} \/ caller'[u] = caller[u]
    BY <2>1
  <2> QED  BY <1>2, <2>1, <2>2, <2>3, <2>4, ServedKept
<1>5. CASE Return(t)
  BY <1>4, <1>5 DEF Return
<1>6. CASE DieCancelled(t)
  BY <1>4, <1>6 DEF DieCancelled, Pending
<1> QED  BY <1>1, <1>3, <1>5, <1>6 DEF TaskStep

(* What a step of _listen_loop does, if the broker refuses nothing.        *)
LEMMA ListenFacts ==
    ASSUME Inv, Calm, Listen \/ ListenLimited
    PROVE  /\ Listen
           /\ answers # << >> /\ answers \in Seq(Result) /\ answers' = Tail(answers)
           /\ UNCHANGED <<current, caller, requests, backoff, scenario>>
           /\ SlotOf[Head(answers).key] \in InUse
           /\ \A g \in Futs :
                \/ future'[g] = future[g] /\ (g = current[SlotOf[Head(answers).key]] => ~Pending(g))
                \/ g = current[SlotOf[Head(answers).key]] /\ future'[g].state = "done"
<1> DEFINE f == current[SlotOf[Head(answers).key]]
<1>1. answers # << >> /\ answers \in Seq(Result) /\ Head(answers) = answers[1]
      /\ 1 \in DOMAIN answers
  BY Types DEF Listen, ListenLimited, Inv
<1>2. Listen
  BY <1>1 DEF ListenLimited, Calm
<1>3. /\ answers' = Tail(answers)
      /\ UNCHANGED <<current, caller, requests, backoff, scenario>>
      /\ future' = IF Pending(f) THEN Settle(f, "done", Head(answers)) ELSE future
  BY <1>2 DEF Listen
<1>4. SlotOf[Head(answers).key] \in InUse
  BY <1>1, SlotFacts DEF Inv, SharedInv, QuestionsOK
<1>5. \A g \in Futs :
        \/ future'[g] = future[g] /\ (g = f => ~Pending(g))
        \/ g = f /\ future'[g].state = "done"
  BY <1>3, Types DEF Inv, Settle
<1> QED  BY <1>1, <1>2, <1>3, <1>4, <1>5

LEMMA ListenServed ==
    ASSUME Inv, Calm, Served, Listen \/ ListenLimited
    PROVE  Served'
<1> DEFINE s == SlotOf[Head(answers).key]
           f == current[s]
<1>1. /\ answers # << >> /\ answers \in Seq(Result) /\ answers' = Tail(answers)
      /\ UNCHANGED <<current, caller, requests, backoff, scenario>>
      /\ s \in InUse
      /\ \A g \in Futs :
            \/ future'[g] = future[g] /\ (g = f => ~Pending(g))
            \/ g = f /\ future'[g].state = "done"
  BY ListenFacts
<1>2. \A g \in Futs : Pending(g)' => Pending(g) /\ g # f
  BY <1>1 DEF Pending
<1> HIDE DEF f
<1>3. ASSUME NEW r \in InUse, Pending(current[r])' PROVE Asks(r)'
  <2>1. current'[r] = current[r] /\ current[r] \in Futs
    BY <1>1, <1>3, Types DEF Inv, Pending
  <2>2. Pending(current[r]) /\ current[r] # f
    BY <1>2, <1>3, <2>1 DEF Pending
  <2>3. Asks(r) /\ r # s
    BY <2>2 DEF Served, f
  <2>4. CASE OfSlot(r, requests) # {}
    BY <1>1, <2>4 DEF Asks, OfSlot
  <2>5. ASSUME NEW i \in OfSlot(r, answers) PROVE Asks(r)'
    <3>1. i - 1 \in OfSlot(r, Tail(answers))
      BY <1>1, <2>3, <2>5, OfTailBack
    <3> QED  BY <1>1, <3>1 DEF Asks
  <2> QED  BY <2>3, <2>4, <2>5 DEF Asks
<1>4. ASSUME NEW u \in Callers, Reached(u)' PROVE caller'[u].left # 0
  <2>1. caller'[u] = caller[u] /\ caller[u].pc = "wait" /\ caller[u].fut \in Futs
    BY <1>1, <1>4 DEF Reached, Inv, SharedInv, CallsOK, InCall, OwnFuture
  <2>2. Reached(u)
    BY <1>1, <1>2, <1>4, <2>1 DEF Reached, Pending
  <2> QED  BY <2>1, <2>2 DEF Served
<1>5. ASSUME NEW g \in Futs, Pending(g)'
      PROVE  \E u \in Callers : InCall(u)' /\ caller'[u].fut = g
  BY <1>1, <1>2, <1>5 DEF Served, InCall
<1>6. InUse' = InUse /\ Futs' = Futs
  BY <1>1, SameScenario
<1> QED  BY <1>3, <1>4, <1>5, <1>6 DEF Served

LEMMA ReplyServed ==
    ASSUME Inv, Served, prompt, Reply
    PROVE  Served'
<1> DEFINE s == SlotOf[Head(requests).key]
           x == [kind |-> "answer", key |-> Head(requests).key, age |-> 0]
<1>1. /\ requests # << >> /\ requests \in Seq(Result) /\ answers \in Seq(Result)
      /\ requests' = Tail(requests) /\ answers' = Append(answers, x)
      /\ UNCHANGED <<future, current, caller, backoff, scenario>>
  BY Types DEF Reply, Inv
<1>2. x \in Result
  BY <1>1, TailType, AgeFacts DEF Result, Kinds
<1>3. ASSUME NEW r, Asks(r) PROVE Asks(r)'
  <2>1. /\ r = s => OfSlot(r, answers') = OfSlot(r, answers) \cup {Len(answers) + 1}
        /\ r # s => OfSlot(r, answers') = OfSlot(r, answers)
    BY <1>1, <1>2, OfAppend
  <2>2. CASE r = s \/ OfSlot(r, answers) # {}
    BY <2>1, <2>2 DEF Asks
  <2>3. ASSUME r # s, NEW i \in OfSlot(r, requests) PROVE Asks(r)'
    <3>1. i - 1 \in OfSlot(r, Tail(requests))
      BY <1>1, <2>3, OfTailBack
    <3> QED  BY <1>1, <3>1 DEF Asks
  <2> QED  BY <1>3, <2>2, <2>3 DEF Asks
<1> QED  BY <1>1, <1>3, SameScenario DEF Served, Reached, InCall, Pending

LEMMA TickServed ==
    ASSUME Inv, Served, prompt, Tick
    PROVE  Served'
<1>1. /\ UNCHANGED <<future, current, scenario>> /\ InTime
      /\ requests' = Aged(requests) /\ answers' = Aged(answers)
  BY DEF Tick
<1>2. \A r : Asks(r)' = Asks(r)
  BY <1>1, AnswerFacts, OfAged DEF Asks, Inv
<1>3. ASSUME NEW u \in Callers
      PROVE  /\ caller'[u].pc = caller[u].pc /\ caller'[u].key = caller[u].key
             /\ caller'[u].fut = caller[u].fut
             /\ caller[u].pc = "wait" => caller'[u].left = caller[u].left - 1
  <2>1. caller[u] \in Call
    BY Types DEF Inv
  <2>2. CASE InCall(u)
    BY <2>1, <2>2 DEF Tick, Call
  <2>3. CASE ~InCall(u)
    BY <2>3 DEF Tick, InCall
  <2> QED  BY <2>2, <2>3
<1>4. ASSUME NEW u \in Callers, Reached(u)' PROVE caller'[u].left # 0
  <2>1. /\ Reached(u) /\ SlotOf[caller[u].key] \in InUse
    BY <1>1, <1>3, <1>4, SlotFacts
       DEF Reached, Pending, Inv, SharedInv, CallsOK, InCall, OwnFuture
  <2>2. requests # << >> \/ answers # << >>
    BY <2>1 DEF Served, Reached, Asks, OfSlot
  <2>3. requests \o answers # << >>
    <3>1. requests \in Seq(Result) /\ answers \in Seq(Result)
      BY AnswerFacts DEF Inv
    <3>2. Len(requests \o answers) = Len(requests) + Len(answers)
      BY <3>1, ConcatProperties
    <3>3. Len(requests) \in Nat /\ Len(answers) \in Nat /\ (Len(requests) > 0 \/ Len(answers) > 0)
      BY <2>2, <3>1, EmptySeq, LenProperties
    <3>4. Len(<< >>) = 0
      BY EmptySeq
    <3> QED  BY <3>2, <3>3, <3>4
  <2>4. caller[u].left > 1 /\ caller[u].pc = "wait"
    BY <1>1, <2>1, <2>3 DEF InTime, Reached
  <2> QED  BY <1>3, <2>4, CallFacts DEF Inv
<1>5. \A s : Pending(current[s])' <=> Pending(current[s])
  BY <1>1 DEF Pending
<1>6. ASSUME NEW g \in Futs, Pending(g)'
      PROVE  \E u \in Callers : InCall(u)' /\ caller'[u].fut = g
  <2>1. PICK u \in Callers : InCall(u) /\ caller[u].fut = g
    BY <1>1, <1>6 DEF Served, Pending
  <2> QED  BY <1>3, <2>1 DEF InCall
<1>7. InUse' = InUse /\ Futs' = Futs
  BY <1>1, SameScenario
<1> QED  BY <1>2, <1>4, <1>5, <1>6, <1>7 DEF Served

LEMMA ServedStep ==
    ASSUME RoomForAll
    PROVE  Inv /\ CalmInv /\ AgingInv /\ ServedInv /\ [Next]_vars => ServedInv'
<1> SUFFICES ASSUME Inv, CalmInv, AgingInv, ServedInv, [Next]_vars PROVE ServedInv'
  OBVIOUS
<1> SUFFICES ASSUME prompt' PROVE Served'
  BY DEF ServedInv
<1>1. scenario' = scenario
  BY ScenarioStays
<1>2. prompt /\ Calm /\ Aging /\ Served
  BY <1>1, SameScenario DEF CalmInv, AgingInv, ServedInv
<1>3. ASSUME NEW t \in Callers, NEW k \in Keys, NEW force \in BOOLEAN,
             Join(t, k, force) \/ Create(t, k, force)
      PROVE  Served'
  BY <1>2, <1>3, JoinServed, CreateServed
<1>4. ASSUME NEW t \in Callers, TaskStep(t) PROVE Served'
  BY <1>2, <1>4, TaskServed
<1>5. ASSUME Listen \/ ListenLimited PROVE Served'
  BY <1>2, <1>5, ListenServed
<1>6. ~BackoffOver
  BY <1>2 DEF BackoffOver, Calm
<1>7. CASE Reply
  BY <1>2, <1>7, ReplyServed
<1>8. CASE Tick
  BY <1>2, <1>8, TickServed
<1>9. CASE UNCHANGED vars
  <2>1. UNCHANGED <<future, current, caller, requests, answers, scenario>>
    BY <1>9 DEF vars
  <2>2. /\ \A f \in Futs : Pending(f)' => Pending(f)
        /\ \A t \in Callers : InCall(t) => InCall(t)'
    BY <2>1 DEF Pending, InCall
  <2> QED  BY <1>2, <2>1, <2>2, ServedKept
<1> QED  BY <1>3, <1>4, <1>5, <1>6, <1>7, <1>8, <1>9 DEF Next

-----------------------------------------------------------------------------
(* The futures, calls and queues keep their types; in particular a call    *)
(* that creates a future always finds an unused one.                       *)
THEOREM SharedTypeCorrect == Spec => []TypeOK
<1>1. Inv => TypeOK
  BY DEF Inv
<1> QED  BY <1>1, InvAlways, PTL

(* Whatever is late, cancelled or refused: a call returns an answer to its *)
(* own question or none, where the slot serves one question only.          *)
THEOREM OwnAnswers == Spec => AnswersItsQuestion
<1> DEFINE Right(t) ==
        /\ InCall(t) /\ ~InCall(t)' /\ Outcome(t).kind = "answer"
        /\ SlotOf[caller[t].key] \in Own
        => Outcome(t).key = caller[t].key
<1>1. ASSUME Inv, NEW t \in Callers PROVE Right(t)
  <2> SUFFICES ASSUME InCall(t), Outcome(t).kind = "answer", SlotOf[caller[t].key] \in Own
               PROVE  Outcome(t).key = caller[t].key
    OBVIOUS
  <2>1. OwnFuture(t) /\ OwnAnswer(t)
    BY <1>1 DEF Inv, SharedInv, CallsOK
  <2>2. Outcome(t) = future[caller[t].fut].val
    BY DEF Outcome, Without
  <2>3. /\ Outcome(t).key \in scope
        /\ SlotOf[Outcome(t).key] = SlotOf[caller[t].key]
    BY <2>1, <2>2 DEF OwnAnswer
  <2>4. Outcome(t).key \in Keys /\ caller[t].key \in Keys
    BY <1>1, <2>1, <2>3, SlotFacts DEF Inv, OwnFuture
  <2> QED  BY <2>3, <2>4 DEF Own
<1>2. Inv => [\A t \in Callers : Right(t)]_vars
  BY <1>1
<1> QED  BY <1>2, InvAlways, PTL DEF AnswersItsQuestion

(* If the broker answers in time, tasks that ask at once share a request,  *)
(* for any number of tasks and any slots: there are no more requests than  *)
(* one for the future in the slot (_fetch_reconcile, get_balance) and one  *)
(* for each future that a finally clause took out of it.                   *)
THEOREM RequestsShared == Spec => []RequestsAreShared
<1>1. Inv /\ AgingInv => RequestsAreShared
  BY Sharing DEF AgingInv, RequestsAreShared
<1> QED  BY <1>1, AgingInit, AgingStep, CalmInit, CalmStep, InvAlways, PTL DEF Spec

(* If the broker answers in time, for any number of tasks and any bounds:  *)
(* what fetch_reconcile_snapshot hands out of its cache was true at the    *)
(* broker less than a timeout and the life of an entry ago, though a       *)
(* joiner stamps the entry with its own time.                              *)
THEOREM CacheRecent == Spec => []CacheIsRecent
<1>1. Inv /\ AgingInv => CacheIsRecent
  <2> SUFFICES ASSUME Inv, AgingInv, prompt, cache.age < TTL, cache.val.kind = "answer"
               PROVE  cache.val.age < Timeout + TTL
    BY DEF CacheIsRecent, CacheIsFresh
  <2>1. cache.val.age <= cache.age + Timeout
    BY DEF AgingInv, Aging, YoungOK
  <2>2. cache.age \in Nat /\ cache.val.age \in Nat
    BY Types, AgeFacts DEF Inv, Ages, Result
  <2> QED  BY <2>1, <2>2, RequestAssumption
<1> QED  BY <1>1, AgingInit, AgingStep, CalmInit, CalmStep, InvAlways, PTL DEF Spec

(* If the broker answers in time and answers as many requests as there are *)
(* tasks: a future that is waited for gets an answer, unless a finally     *)
(* clause took it out of its slot. No other caller is left with an empty   *)
(* result or the cancellation of another's wait.                           *)
THEOREM OnlyWipedEmpty ==
    ASSUME RoomForAll
    PROVE  Spec => OnlyWipedGoEmpty
<1> DEFINE Fed(f) ==
        prompt /\ Pending(f) /\ ~Pending(f)' =>
            future'[f].state = "done" \/ \E s \in InUse : f \in Wiped(s)
<1>1. ASSUME Inv, CalmInv, ServedInv, [Next]_vars, NEW f \in Futs PROVE Fed(f)
  <2> SUFFICES ASSUME prompt, Pending(f), ~Pending(f)', future'[f].state # "done"
               PROVE  \E s \in InUse : f \in Wiped(s)
    OBVIOUS
  <2>1. Calm /\ Served
    BY <1>1 DEF CalmInv, ServedInv
  <2>2. ~ \E t \in Callers, k \in Keys, force \in BOOLEAN : Join(t, k, force) \/ Create(t, k, force)
    <3> SUFFICES ASSUME NEW t \in Callers, NEW k \in Keys, NEW force \in BOOLEAN,
                        Join(t, k, force) \/ Create(t, k, force)
                 PROVE  Pending(f)'
      OBVIOUS
    <3>1. CASE Join(t, k, force)
      BY <3>1 DEF Join, Pending
    <3>2. CASE Create(t, k, force)
      BY <1>1, <3>2, Types DEF Create, Settle, Pending, Inv
    <3> QED  BY <3>1, <3>2
  <2>3. ASSUME NEW t \in Callers, TaskStep(t)
        PROVE  \E s \in InUse : f \in Wiped(s)
    <3>1. ~Wake(t)
      BY <2>1 DEF Wake, Calm
    <3>2. ~Return(t)
      BY <1>1, <2>1, LeavesPending DEF Return
    <3>3. ~DieCancelled(t)
      <4> SUFFICES ASSUME DieCancelled(t) PROVE Pending(f)'
        OBVIOUS
      <4>1. Leaves(t, "dead") /\ ~Pending(caller[t].fut)
        BY DEF DieCancelled, Pending
      <4> QED  BY <1>1, <2>1, <4>1, LeavesPending
    <3>4. TimeOut(t)
      BY <2>3, <3>1, <3>2, <3>3 DEF TaskStep
    <3>5. /\ caller[t].pc = "wait" /\ caller[t].left = 0 /\ Pending(caller[t].fut)
          /\ caller[t].fut = f
      BY <1>1, <3>4, Types DEF TimeOut, Settle, Pending, Inv
    <3> DEFINE s == SlotOf[caller[t].key]
    <3>6. s \in InUse /\ current[s] # f
      BY <1>1, <2>1, <3>5, SlotFacts
         DEF Served, Reached, Inv, SharedInv, CallsOK, InCall, OwnFuture
    <3>7. s \in ClearsOnExit
      BY <1>1, <3>5, <3>6, SlotFacts
         DEF Inv, SharedInv, WaitedForIsReachable, Lasting, InCall
    <3>8. f \in WaitedFor(s)
      BY <3>5 DEF WaitedFor, InCall
    <3>9. f \in Wiped(s)
      BY <3>6, <3>7, <3>8 DEF Wiped
    <3> HIDE DEF s
    <3> QED  BY <3>6, <3>9
  <2>4. ~(Listen \/ ListenLimited)
    BY <1>1, <2>1, ListenFacts DEF Pending
  <2>5. ~(BackoffOver \/ Reply \/ Tick \/ UNCHANGED vars)
    BY DEF BackoffOver, Reply, Tick, vars, Pending
  <2> QED  BY <1>1, <2>2, <2>3, <2>4, <2>5 DEF Next
<1>2. Inv /\ CalmInv /\ ServedInv /\ [Next]_vars => [\A f \in Futs : Fed(f)]_vars
  BY <1>1
<1>3. Spec => [](Inv /\ CalmInv /\ AgingInv /\ ServedInv)
  BY AgingInit, AgingStep, CalmInit, CalmStep, ServedInit, ServedStep, InvAlways, PTL
     DEF Spec
<1> QED  BY <1>2, <1>3, PTL DEF OnlyWipedGoEmpty, Spec
=============================================================================
