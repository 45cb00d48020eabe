------------------------------ MODULE BarFeed ------------------------------
(***************************************************************************)
(* The candles of one pair: the warm-up at the start of a session          *)
(* (_fetch_warmup_candles in src/main.py), the cache it leaves in the      *)
(* process (app/connection/warmup_cache.py) and the poll after each bar    *)
(* (_fetch_latest_bars, _merge_new_candles).  The market is the sequence   *)
(* of the bars that have closed; a bar's time is its place in it.          *)
(***************************************************************************)
EXTENDS Integers, Sequences, FiniteSetsExt

CONSTANTS
    Bars,            \* what a bar may look like
    Opening,         \* a bar that has just opened
    WarmBars,        \* config.warmup_bars_for_pair
    ChunkBars,       \* chunk_bars: what one request for history answers
    MaxLen,          \* _merge_new_candles keeps that many
    PollBars,        \* what the first poll of an empty buffer asks for
    MaxBars,         \* bound on the bars of the market
    MayServeForming, \* the history may end in the bar that is forming
    MayTimeOut       \* a request for history may time out

ASSUME BarFeedAssumption ==
    /\ Opening \in Bars
    /\ {WarmBars, ChunkBars, MaxLen, PollBars, MaxBars} \subseteq Nat \ {0}
    /\ WarmBars < MaxLen /\ WarmBars <= MaxBars
    /\ WarmBars > 1 /\ ChunkBars > 1 /\ PollBars > 2
    /\ MayServeForming \in BOOLEAN /\ MayTimeOut \in BOOLEAN

VARIABLES
    market,  \* the closed bars
    buffer,  \* _PairRuntime.candles
    cache    \* the entry of WarmupCandleCache; empty if there is none

feedVars == <<market, buffer, cache>>

Candle == [at : 1 .. MaxBars + 1, bar : Bars]

Last(candles) == IF candles = <<>> THEN 0 ELSE candles[Len(candles)].at

Full(n) == [at |-> n, bar |-> market[n]]
Forming == [at |-> Len(market) + 1, bar |-> Opening]

From(a, b) == [i \in 1 .. b + 1 - a |-> Full(a + i - 1)]

-----------------------------------------------------------------------------
(* try_get: as long as it was when stored, and as recent as the last bar.  *)
CacheHit == Len(cache) >= WarmBars /\ Last(cache) >= Len(market)

(* The history is asked for backwards in chunks, and ends at the first that *)
(* times out.  It is not filtered: the newest chunk may bring the bar that  *)
(* is forming.                                                             *)
History ==
    LET oldest == Max({1, Len(market) + 1 - WarmBars})
        starts == {oldest} \cup {n \in oldest .. Len(market) + 1 :
                                    MayTimeOut /\ (Len(market) + 1 - n) % ChunkBars = 0}
        whole  == {From(a, Len(market)) : a \in starts}
    IN whole \cup (IF MayServeForming THEN {Append(h, Forming) : h \in whole \ {<<>>}} ELSE {})

Warmup ==
    \/ /\ CacheHit
       /\ buffer' = cache
       /\ UNCHANGED cache
    \/ /\ ~CacheHit
       /\ buffer' \in History
       /\ cache' = IF buffer' = <<>> THEN cache ELSE buffer'

(* The first session of the process. *)
FeedInit ==
    /\ market \in [1 .. WarmBars -> Bars]
    /\ buffer \in History
    /\ cache = buffer

(* Variant: the newest bar replaces the last. *)
MergeOverLast(candles, new) ==
    IF new = <<>> THEN candles ELSE Append(SubSeq(candles, 1, Len(candles) - 1), new[Len(new)])

(* What stands at some places of a sequence, in order.  (SelectSeq, of     *)
(* which the provers know nothing.)                                        *)
Chosen(seq, places) ==
    [k \in 1 .. Cardinality(places) |->
        seq[CHOOSE i \in places : Cardinality({j \in places : j <= i}) = k]]

Merge(candles, new) ==
    LET seen == {candles[i].at : i \in DOMAIN candles}
        all  == candles \o Chosen(new, {i \in DOMAIN new : new[i].at \notin seen})
    IN SubSeq(all, Max({1, Len(all) + 1 - MaxLen}), Len(all))

-----------------------------------------------------------------------------
Synced == Last(buffer) >= Len(market)

(* What the poll may be answered: the bars from the last but one of the    *)
(* buffer on, the newest of all perhaps not there yet.                     *)
Answers ==
    LET oldest == IF buffer = <<>> THEN Len(market) + 1 - PollBars ELSE Last(buffer) - 1
    IN {From(Max({1, oldest}), n) : n \in Len(market) - 1 .. Len(market)}

(* "ok": an answer with a newer bar was merged, and the cache follows.     *)
GetsBars ==
    /\ ~Synced
    /\ \E new \in Answers :
        /\ \E i \in DOMAIN new : new[i].at > Last(buffer)
        /\ buffer' = Merge(buffer, new)
    /\ cache' = IF cache = <<>> THEN cache ELSE buffer'
    /\ UNCHANGED market

(* _run_bar_coordinator polls at the end of each bar.                      *)
BarCloses ==
    /\ Len(market) < MaxBars
    /\ \E bar \in Bars : market' = Append(market, bar)
    /\ UNCHANGED <<buffer, cache>>
=============================================================================
