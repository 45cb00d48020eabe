------------------------------ MODULE Broker ------------------------------
(***************************************************************************)
(* The broker at the other end of the connection, as the program sees it   *)
(* through app/connection/ctrader_client.py: limit orders that are         *)
(* accepted, filled, expired or cancelled, the positions their fills open, *)
(* and the ordered stream of execution events it pushes to the client.     *)
(* Nothing of this is in the repository; the module is what the client's   *)
(* requests and its handler of PROTO_OA_EXECUTION_EVENT assume.            *)
(*                                                                         *)
(* A client order id is a fresh uuid, used for one order only, so the      *)
(* terms of an order (pair, direction, limit price, fill price) are        *)
(* functions of the id.  A fill opens one position, named by the order.    *)
(***************************************************************************)
EXTENDS GridLevels

CONSTANTS
    Pairs,      \* watched symbols
    PairOf,     \* order -> pair
    DirOf,      \* order -> "LONG" or "SHORT"
    PriceOf,    \* order -> limit price
    EntryOf,    \* order -> price its fill opens the position at
    MaxEvents   \* bound on the events pushed and not yet read

Dirs == {"LONG", "SHORT"}

ASSUME TermsAssumption ==
    /\ PairOf \in [Orders -> Pairs]
    /\ DirOf \in [Orders -> Dirs]
    /\ PriceOf \in [Orders -> Nat]
    /\ EntryOf \in [Orders -> Nat]
    /\ MaxEvents \in Nat \ {0}

VARIABLES
    order,      \* order -> its state at the broker
    cancelReq,  \* resting orders with a cancel request under way
    closeReq,   \* open positions with a close request under way
    events      \* execution events pushed to the client, oldest first

brokerVars == <<order, cancelReq, closeReq, events>>

(* free: the id is not used yet.  dead: rejected, expired or cancelled. *)
OrderStates == {"free", "sent", "working", "open", "closed", "dead"}

EventTypes == {"ACCEPTED", "FILLED", "EXPIRED", "CANCELLED", "REJECTED",
               "ERROR", "CLOSED"}

Event == [type : EventTypes, ord : Orders]

Positions == {o \in Orders : order[o] = "open"}
WorkingOrders == {o \in Orders : order[o] = "working"}

(* What a Reconcile request answers: open positions and working orders. *)
Snapshot == [pos : SUBSET Orders, ords : SUBSET Orders]
CurrentSnapshot == [pos |-> Positions, ords |-> WorkingOrders]

BrokerInit ==
    /\ order = [o \in Orders |-> "free"]
    /\ cancelReq = {}
    /\ closeReq = {}
    /\ events = <<>>

(* Order o goes from one state to another, and the client is told.         *)
(* Requests that o no longer answers to are refused: the refusal changes   *)
(* nothing in the client, whose caller runs into its timeout.              *)
Turn(o, from, to, type) ==
    /\ order[o] = from
    /\ order' = [order EXCEPT ![o] = to]
    /\ cancelReq' = cancelReq \ {o}
    /\ closeReq' = closeReq \ {o}
    /\ Len(events) < MaxEvents
    /\ events' = Append(events, [type |-> type, ord |-> o])

Accept(o) == Turn(o, "sent", "working", "ACCEPTED")

(* A rejection comes as an execution event or as an order error event. *)
Reject(o) == \E type \in {"REJECTED", "ERROR"} : Turn(o, "sent", "dead", type)

Fill(o) == Turn(o, "working", "open", "FILLED")

(* GOOD_TILL_DATE: the order carries an expiration timestamp. *)
Expire(o) == Turn(o, "working", "dead", "EXPIRED")

(* The stop loss attached to the order closes the position. *)
StopOut(o) == Turn(o, "open", "closed", "CLOSED")

ServeCancel(o) == o \in cancelReq /\ Turn(o, "working", "dead", "CANCELLED")

ServeClose(o) == o \in closeReq /\ Turn(o, "open", "closed", "CLOSED")

BrokerStep ==
    \E o \in Orders : \/ Accept(o) \/ Reject(o) \/ Fill(o) \/ Expire(o)
                      \/ StopOut(o) \/ ServeCancel(o) \/ ServeClose(o)

(* ProtoOACancelOrderReq, ProtoOAClosePositionReq *)
RequestCancel(o) ==
    /\ cancelReq' = IF order[o] = "working" THEN cancelReq \cup {o} ELSE cancelReq
    /\ UNCHANGED <<order, closeReq, events>>

RequestClose(o) ==
    /\ closeReq' = IF order[o] = "open" THEN closeReq \cup {o} ELSE closeReq
    /\ UNCHANGED <<order, cancelReq, events>>
=============================================================================
