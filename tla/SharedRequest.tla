---------------------------- MODULE SharedRequest ----------------------------
(***************************************************************************)
(* One request of app/connection/ctrader_client.py that several tasks may  *)
(* make at once: get_balance, get_expected_margin, _fetch_reconcile and    *)
(* get_position_close_profit.  The first caller creates a future, stores   *)
(* it in an attribute (a slot) and sends the request; a caller that finds  *)
(* a pending future in the slot waits for that one.  _listen_loop gives an *)
(* answer to whatever future is in the slot when the answer is read.       *)
(*                                                                         *)
(* asyncio.wait_for cancels the future it waits for when its time is over, *)
(* so the first timeout of a shared future cancels it for all its waiters. *)
(*                                                                         *)
(* Time is a tick; ages and remaining times are relative and capped, so    *)
(* that the system may run for ever.                                       *)
(***************************************************************************)
EXTENDS Naturals, Sequences, FiniteSets

CONSTANTS
    Callers,        \* tasks of the program
    Keys,           \* what can be asked: the account, a symbol, a position
    Slots,          \* attributes that hold a future
    SlotOf,         \* key -> slot of its future
    Scenarios,      \* what is asked in one behaviour, and of what broker
    ClearsOnExit,   \* slots that the creator's finally clause empties
    Cached,         \* the slot whose answers fetch_reconcile_snapshot keeps
    FailsOnLimit,   \* slots that _fail_pending_on_rate_limit knows
    Timeout,        \* timeout = 10
    TTL,            \* _reconcile_cache_ttl_sec = 3.0
    MaxRequests     \* bound on unanswered requests; later ones are not answered

ASSUME RequestAssumption ==
    /\ IsFiniteSet(Callers) /\ IsFiniteSet(Slots)
    /\ SlotOf \in [Keys -> Slots]
    /\ Scenarios \subseteq [asked : SUBSET Keys, prompt : BOOLEAN]
    /\ ClearsOnExit \subseteq Slots /\ Cached \subseteq Slots
    /\ FailsOnLimit \subseteq Slots
    /\ {Timeout, TTL, MaxRequests} \subseteq Nat \ {0}

VARIABLES
    future,     \* id -> state and value of a future
    current,    \* slot -> the future stored in it, or 0
    caller,     \* task -> where it is in its call and how the last one ended
    requests,   \* at the broker, oldest first
    answers,    \* on the way back, oldest first
    cache,      \* _reconcile_cache_data and the age of _reconcile_cache_at
    backoff,    \* _api_backoff_until lies ahead
    scenario    \* requests of different slots never meet, so a behaviour is
                \* about some of the keys; a prompt broker answers within
                \* Timeout and never refuses

vars == <<future, current, caller, requests, answers, cache, backoff, scenario>>

scope == scenario.asked
prompt == scenario.prompt

-----------------------------------------------------------------------------
MaxAge == Timeout + TTL + 1
Ages == 0 .. MaxAge
(* Only the cache makes anything of an age. *)
Older(age) ==
    IF age = MaxAge \/ \A k \in scope : SlotOf[k] \notin Cached THEN age ELSE age + 1

(* Each caller refers to one future and each slot to another. *)
InUse == {SlotOf[k] : k \in scope}
Futs == 1 .. Cardinality(Callers) + Cardinality(InUse)

(* What a call returns or raises; the key and the age of the broker's data *)
(* matter for an answer only.                                              *)
Kinds == {"nothing", "answer", "empty", "error"}
NoKey == "no key"
Result == [kind : Kinds, key : Keys \cup {NoKey}, age : Ages]
Without(kind) == [kind |-> kind, key |-> NoKey, age |-> 0]
Answer(key, age) == [kind |-> "answer", key |-> key, age |-> age]

NoCall == [pc |-> "idle", key |-> NoKey, fut |-> 0, creator |-> FALSE,
           left |-> 0, expired |-> FALSE, since |-> 0]
FreeFuture == [state |-> "free", val |-> Without("nothing")]

Init ==
    /\ scenario \in Scenarios
    /\ future = [f \in Futs |-> FreeFuture]
    /\ current = [s \in InUse |-> 0]
    /\ caller = [t \in Callers |-> NoCall]
    /\ requests = <<>>
    /\ answers = <<>>
    /\ cache = [full |-> FALSE, age |-> 0, val |-> Without("nothing")]
    /\ backoff = FALSE

Pending(f) == f # 0 /\ future[f].state = "pending"
InCall(t) == caller[t].pc \in {"sleep", "wait"}
Unused == {f \in Futs : /\ \A s \in InUse : current[s] # f
                        /\ \A t \in Callers : InCall(t) => caller[t].fut # f}
Fresh == CHOOSE f \in Unused : TRUE

Settle(f, state, val) == [future EXCEPT ![f] = [state |-> state, val |-> val]]

-----------------------------------------------------------------------------
(* Variant: the cached answer never grows old. *)
CacheIsKept == cache.full

(* fetch_reconcile_snapshot: a recent answer is not asked for again. *)
CacheIsFresh == cache.full /\ cache.age < TTL

Began(t, k, pc, f, creator) ==
    [caller EXCEPT ![t] =
        [NoCall EXCEPT !.pc = pc, !.key = k, !.fut = f, !.creator = creator,
                       !.left = Timeout]]

AsksBroker(t, k, force) ==
    /\ k \in scope /\ caller[t].pc = "idle"
    /\ force \/ SlotOf[k] \notin Cached \/ ~CacheIsFresh

(* Requests over the bound are not answered. *)
Asked(k) == IF Len(requests) + Len(answers) < MaxRequests
            THEN Append(requests, Answer(k, 0)) ELSE requests

(* Variant: a call that joins another sends a request as well. *)
JoinAsking(t, k, force) ==
    /\ AsksBroker(t, k, force)
    /\ Pending(current[SlotOf[k]])
    /\ caller' = Began(t, k, "wait", current[SlotOf[k]], FALSE)
    /\ requests' = Asked(k)
    /\ UNCHANGED <<future, current, answers, cache, backoff, scenario>>

Join(t, k, force) ==
    /\ AsksBroker(t, k, force)
    /\ Pending(current[SlotOf[k]])
    /\ caller' = Began(t, k, "wait", current[SlotOf[k]], FALSE)
    /\ UNCHANGED <<future, current, requests, answers, cache, backoff, scenario>>

(* Variant: an unfinished future is not reused. *)
CreateAnyway(t, k, force) ==
    /\ AsksBroker(t, k, force)
    /\ LET f == Fresh IN
        /\ future' = Settle(f, "pending", Without("nothing"))
        /\ current' = [current EXCEPT ![SlotOf[k]] = f]
        /\ caller' = Began(t, k, IF backoff THEN "sleep" ELSE "wait", f, TRUE)
    /\ requests' = IF backoff THEN requests ELSE Asked(k)
    /\ UNCHANGED <<answers, cache, backoff, scenario>>

(* _send sleeps first if it is called during a backoff. *)
Create(t, k, force) ==
    /\ AsksBroker(t, k, force)
    /\ ~Pending(current[SlotOf[k]])
    /\ LET f == Fresh IN
        /\ future' = Settle(f, "pending", Without("nothing"))
        /\ current' = [current EXCEPT ![SlotOf[k]] = f]
        /\ caller' = Began(t, k, IF backoff THEN "sleep" ELSE "wait", f, TRUE)
    /\ requests' = IF backoff THEN requests ELSE Asked(k)
    /\ UNCHANGED <<answers, cache, backoff, scenario>>

(* The sleep is over, and does not look at a later backoff.  The caller's  *)
(* ten seconds start now.                                                  *)
Wake(t) ==
    /\ caller[t].pc = "sleep"
    /\ requests' = Asked(caller[t].key)
    /\ caller' = [caller EXCEPT ![t].pc = "wait"]
    /\ UNCHANGED <<future, current, answers, cache, backoff, scenario>>

(* Variant: the future is awaited without a limit. *)
WaitForEver(t) == UNCHANGED vars

(* wait_for gives up and cancels the future it waits for. *)
TimeOut(t) ==
    /\ caller[t].pc = "wait"
    /\ caller[t].left = 0
    /\ Pending(caller[t].fut)
    /\ future' = Settle(caller[t].fut, "cancelled", Without("nothing"))
    /\ caller' = [caller EXCEPT ![t].expired = TRUE]
    /\ UNCHANGED <<current, requests, answers, cache, backoff, scenario>>

Outcome(t) ==
    IF caller[t].expired THEN Without("empty") ELSE
    IF future[caller[t].fut].state = "failed" THEN Without("error")
    ELSE future[caller[t].fut].val

(* Variant: every creator empties the slot, whoever's future is in it. *)
SlotAlwaysEmptied(t) ==
    IF caller[t].creator THEN [current EXCEPT ![SlotOf[caller[t].key]] = 0] ELSE current

(* The finally clause of the creator. *)
SlotAfter(t) ==
    IF caller[t].creator /\ SlotOf[caller[t].key] \in ClearsOnExit
    THEN [current EXCEPT ![SlotOf[caller[t].key]] = 0] ELSE current

Leaves(t, pc) ==
    /\ UNCHANGED <<requests, answers, backoff, scenario>>
    /\ current' = SlotAfter(t)
    /\ caller' = [caller EXCEPT ![t] = [NoCall EXCEPT !.pc = pc]]
    /\ future' = [f \in Futs |-> IF f \in Unused' THEN FreeFuture ELSE future[f]]

(* The task runs again some time after its future was settled. *)
Return(t) ==
    /\ caller[t].pc = "wait"
    /\ ~Pending(caller[t].fut)
    /\ caller[t].expired \/ future[caller[t].fut].state # "cancelled"
    /\ Leaves(t, "idle")
    /\ cache' = IF SlotOf[caller[t].key] \in Cached /\ Outcome(t).kind # "error"
                THEN [full |-> TRUE, age |-> caller[t].since, val |-> Outcome(t)]
                ELSE cache

(* CancelledError of a future that another caller gave up: none of the     *)
(* handlers of Exception on the way takes it, and the task ends.           *)
DieCancelled(t) ==
    /\ caller[t].pc = "wait"
    /\ future[caller[t].fut].state = "cancelled" /\ ~caller[t].expired
    /\ Leaves(t, "dead")
    /\ UNCHANGED cache

-----------------------------------------------------------------------------
(* Variant: the answer goes to any request under way. *)
ListenAny ==
    /\ answers # <<>> /\ Head(answers).kind = "answer"
    /\ LET open == {f \in Futs : Pending(f) /\ \E s \in InUse : current[s] = f} IN
        future' = IF open # {} THEN Settle(CHOOSE f \in open : TRUE, "done", Head(answers)) ELSE future
    /\ answers' = Tail(answers)
    /\ UNCHANGED <<current, caller, requests, cache, backoff, scenario>>

(* _listen_loop reads an answer: the pending future of the slot takes it. *)
Listen ==
    /\ answers # <<>> /\ Head(answers).kind = "answer"
    /\ LET f == current[SlotOf[Head(answers).key]] IN
        future' = IF Pending(f) THEN Settle(f, "done", Head(answers)) ELSE future
    /\ answers' = Tail(answers)
    /\ UNCHANGED <<current, caller, requests, cache, backoff, scenario>>

(* _on_rate_limited *)
ListenLimited ==
    /\ answers # <<>> /\ Head(answers).kind = "error"
    /\ backoff' = TRUE
    /\ future' = [f \in Futs |->
            IF Pending(f) /\ \E s \in FailsOnLimit \cap InUse : current[s] = f
            THEN [state |-> "failed", val |-> Without("nothing")] ELSE future[f]]
    /\ answers' = Tail(answers)
    /\ UNCHANGED <<current, caller, requests, cache, scenario>>

BackoffOver ==
    /\ backoff
    /\ backoff' = FALSE
    /\ UNCHANGED <<future, current, caller, requests, answers, cache, scenario>>

(* The broker answers in the order of the requests, or refuses. *)
Reply ==
    /\ requests # <<>>
    /\ \E kind \in {"answer", "error"} :
        /\ prompt => kind = "answer"
        /\ answers' = Append(answers, [kind |-> kind, key |-> Head(requests).key,
                                       age |-> 0])
    /\ requests' = Tail(requests)
    /\ UNCHANGED <<future, current, caller, cache, backoff, scenario>>

(* Variant: time passes while a wait is over. *)
ReadyWhenAnswered(t) == caller[t].pc = "wait" /\ ~Pending(caller[t].fut)

(* Tasks that can run do so before time passes. *)
Ready(t) == caller[t].pc = "wait" /\ (~Pending(caller[t].fut) \/ caller[t].left = 0)

Aged(seq) == [i \in DOMAIN seq |-> [seq[i] EXCEPT !.age = Older(@)]]

(* A prompt broker has answered before a caller's last tick. *)
InTime ==
    requests \o answers # <<>> =>
        \A t \in Callers : caller[t].pc = "wait" => caller[t].left > 1

Tick ==
    /\ \A t \in Callers : ~Ready(t)
    /\ prompt => InTime
    /\ caller' = [t \in Callers |->
            IF InCall(t)
            THEN [caller[t] EXCEPT !.since = Older(@),
                                   !.left = IF caller[t].pc = "wait" THEN @ - 1 ELSE @]
            ELSE caller[t]]
    /\ requests' = Aged(requests)
    /\ answers' = Aged(answers)
    /\ cache' = [cache EXCEPT !.age = Older(@),
                    !.val.age = IF cache.val.kind = "answer" THEN Older(@) ELSE @]
    /\ UNCHANGED <<future, current, backoff, scenario>>

TaskStep(t) == Wake(t) \/ TimeOut(t) \/ Return(t) \/ DieCancelled(t)

Next ==
    \/ \E t \in Callers, k \in Keys, force \in BOOLEAN :
        Join(t, k, force) \/ Create(t, k, force)
    \/ \E t \in Callers : TaskStep(t)
    \/ Listen \/ ListenLimited \/ BackoffOver \/ Reply \/ Tick

(* asyncio runs every ready task, the backoff ends and time passes; the    *)
(* broker owes nothing.  Tick is strongly fair: calls that start and end   *)
(* without a tick between them do not hold time up for ever.               *)
Fairness ==
    /\ \A t \in Callers : WF_vars(TaskStep(t))
    /\ WF_vars(BackoffOver)
    /\ SF_vars(Tick)

Spec == Init /\ [][Next]_vars /\ Fairness

-----------------------------------------------------------------------------
TypeOK ==
    /\ future \in [Futs -> [state : {"free", "pending", "done", "failed", "cancelled"},
                            val : Result]]
    /\ current \in [InUse -> {0} \cup Futs]
    /\ caller \in [Callers -> [pc : {"idle", "sleep", "wait", "dead"},
                               key : Keys \cup {NoKey},
                               fut : {0} \cup Futs, creator : BOOLEAN,
                               left : 0 .. Timeout, expired : BOOLEAN,
                               since : Ages]]
    /\ requests \in Seq(Result) /\ answers \in Seq(Result)
    /\ Len(requests) + Len(answers) <= MaxRequests
    /\ cache \in [full : BOOLEAN, age : Ages, val : Result]
    /\ backoff \in BOOLEAN
    /\ scenario \in Scenarios

(* A slot that only a new request overwrites, and one that serves one      *)
(* question only.                                                          *)
Lasting == Slots \ ClearsOnExit
Own == {s \in Slots : \A k, l \in Keys : SlotOf[k] = s /\ SlotOf[l] = s => k = l}

(* The requests of a slot that are under way. *)
Under(s) ==
    LET Of(seq) == {i \in DOMAIN seq : SlotOf[seq[i].key] = s}
    IN Cardinality(Of(requests)) + Cardinality(Of(answers))

(* Futures that a finally clause took out of their slot while a task still *)
(* waits for them: no answer reaches them any more.                        *)
WaitedFor(s) ==
    {f \in Futs : /\ Pending(f)
                  /\ \E t \in Callers : /\ InCall(t) /\ caller[t].fut = f
                                        /\ SlotOf[caller[t].key] = s}
Wiped(s) == IF s \in ClearsOnExit THEN WaitedFor(s) \ {current[s]} ELSE {}

(* If the broker answers in time then parallel calls share a request: a    *)
(* slot has no more of them under way than one for the future in the slot  *)
(* and one for every future wiped from it.                                 *)
RequestsAreShared ==
    prompt => \A s \in InUse :
        Under(s) <= (IF Pending(current[s]) THEN 1 ELSE 0) + Cardinality(Wiped(s))

(* If the broker answers in time then every future gets an answer, but for *)
(* those that are wiped: no other call ends empty, or by a cancellation.   *)
OnlyWipedGoEmpty ==
    [][\A f \in Futs :
        prompt /\ Pending(f) /\ ~Pending(f)' =>
            future'[f].state = "done" \/ \E s \in InUse : f \in Wiped(s)]_vars

(* What the cache hands out was true at the broker less than a timeout and *)
(* the life of an entry ago: a joiner stamps the cache with the time of    *)
(* its own call, later than that of the request it joined.                 *)
CacheIsRecent ==
    prompt /\ CacheIsFresh /\ cache.val.kind = "answer" => cache.val.age < Timeout + TTL

(* A call returns the broker's answer to the question it asked, if its     *)
(* slot is not shared with another question: late answers included.        *)
AnswersItsQuestion ==
    [][\A t \in Callers :
        /\ InCall(t) /\ ~InCall(t)' /\ Outcome(t).kind = "answer"
        /\ SlotOf[caller[t].key] \in Own
        => Outcome(t).key = caller[t].key]_vars

(* Every call ends, whatever the broker leaves unanswered.                 *)
EveryCallEnds == \A t \in Callers : ~prompt /\ InCall(t) ~> ~InCall(t)

-----------------------------------------------------------------------------
(* Documented, and not so *)

(* A call that joins another one ends by an answer or by a timeout of its  *)
(* own; it does not end its task with somebody else's cancellation.        *)
NobodyCancelled == \A t \in Callers : caller[t].pc # "dead"

(* "Protection from parallel calls: the unfinished future is used again":  *)
(* if the broker answers in time a slot has one request under way.         *)
OneAtATime == prompt => \A s \in InUse : Under(s) <= 1

(* If the broker answers in time then every call ends with an answer.      *)
AnsweredInTime ==
    [][\A t \in Callers :
        prompt /\ InCall(t) /\ ~InCall(t)' =>
            caller'[t].pc = "idle" /\ Outcome(t).kind = "answer"]_vars

(* A call that sends a request of its own gets an answer that is no older  *)
(* than the call.                                                          *)
AnswerIsNew ==
    [][\A t \in Callers :
        prompt /\ InCall(t) /\ ~InCall(t)' /\ caller[t].creator /\ Outcome(t).kind = "answer" =>
            Outcome(t).age <= caller[t].since]_vars
=============================================================================
