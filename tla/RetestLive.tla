----------------------------- MODULE RetestLive -----------------------------
(***************************************************************************)
(* The breakout retest strategy on the bars the live session feeds it:     *)
(* _poll_pair and the bar coordinator of src/main.py, the warm-up with     *)
(* cold_start, and the reconnects between sessions.  What becomes of a     *)
(* signal is the subject of BreakoutLive; here it ends, and the strategy   *)
(* scans again.                                                            *)
(***************************************************************************)
EXTENDS BarFeed, Retest

CONSTANTS
    MayClose,  \* the trade window and the spread may stop an update
    MaxLag     \* bound on the bars a poll may be behind

ASSUME RetestLiveAssumption ==
    /\ Bars \subseteq [high : Int, low : Int, brk : BOOLEAN]
    /\ MayClose \in BOOLEAN /\ MaxLag \in Nat \ {0}

VARIABLES
    st,      \* the pair's state in the strategy
    signal,  \* the last signal
    acted    \* time of the last bar an update worked on; 0 since a warm-up

vars == <<feedVars, st, signal, acted>>

NoSignal == [at |-> 0, brkAt |-> 0, startAt |-> 0, retestAt |-> 0, entry |-> 0, stop |-> 0]

Init ==
    /\ FeedInit
    /\ st = ColdStart(buffer)
    /\ signal = NoSignal
    /\ acted = 0

Tick(candles, open, guard) ==
    LET u == Update(st, candles, open, guard) IN
    /\ st' = IF u.emit THEN [u.st EXCEPT !.phase = "ENTRY"] ELSE u.st
    /\ signal' = IF u.emit THEN SignalOf(u.st.setup, candles, SignalIdx(candles)) ELSE signal
    /\ acted' = IF open /\ Len(candles) >= UpdateBars
                THEN candles[SignalIdx(candles)].at ELSE acted

(* needs_update_without_new_bar: also for an entry, whose ticks only look  *)
(* at its age.                                                             *)
Forced == st.live

Poll ==
    \E open \in {TRUE, ~MayClose}, guard \in BOOLEAN :
        \/ GetsBars /\ Tick(buffer', open, guard)
        \/ /\ Synced /\ Forced
           /\ Tick(buffer, open, guard)
           /\ UNCHANGED feedVars

(* The market goes on; a bar the broker is late with, or a session that    *)
(* hangs, makes the next poll fetch several.                               *)
MarketCloses ==
    /\ buffer # <<>> => Len(market) < Last(buffer) + MaxLag
    /\ BarCloses
    /\ UNCHANGED <<st, signal, acted>>

(* The connection is lost: the next session warms up and starts cold.      *)
Reconnect ==
    /\ Warmup
    /\ st' = ColdStart(buffer')
    /\ signal' = NoSignal /\ acted' = 0
    /\ UNCHANGED market

(* release_signal_block: the order was refused, cancelled or closed.       *)
EntryEnds ==
    /\ st.phase = "ENTRY"
    /\ st' = Scanning
    /\ UNCHANGED <<feedVars, signal, acted>>

Next == Poll \/ MarketCloses \/ Reconnect \/ EntryEnds

Spec == Init /\ [][Next]_vars

-----------------------------------------------------------------------------
Times == 0 .. MaxBars + 1

TypeOK ==
    /\ market \in Seq(Bars) /\ Len(market) <= MaxBars
    /\ buffer \in Seq(Candle) /\ Len(buffer) <= MaxLen
    /\ cache \in Seq(Candle) /\ Len(cache) <= MaxLen
    /\ st.phase \in {"SCAN", "DISPLACEMENT", "RETEST", "ENTRY"}
    /\ st.live \in BOOLEAN /\ st.live => st.phase # "ENTRY"
    /\ {st.setup.brk, st.setup.start} \subseteq 0 .. Len(buffer)
    /\ {signal.at, signal.brkAt, acted} \subseteq Times

(* The buffer is a stretch of the market without gaps, of closed bars.     *)
BufferIsMarket ==
    \A i \in DOMAIN buffer :
        /\ buffer[i].at <= Len(market) => buffer[i] = Full(buffer[i].at)
        /\ i > 1 => buffer[i].at = buffer[i - 1].at + 1

(* A setup does not wait longer for its retest than it may, counted in     *)
(* bars of the market.                                                     *)
RetestTimesOut ==
    st.phase = "RETEST" => acted - st.setup.startAt <= RetestBars

(* The stop of a signal lies behind every bar from the breakout to the bar  *)
(* the signal was given on.                                                *)
StopIsBehind ==
    signal # NoSignal =>
        \A n \in signal.brkAt .. signal.at : signal.stop + StopBuffer <= market[n].low

-----------------------------------------------------------------------------
(* Documented, and not so *)

(* displacement_size: the largest distance from the level since the        *)
(* breakout, up to the bar the update worked on.                           *)
PeakIsTrue ==
    st.phase = "RETEST" =>
        \A n \in st.setup.brkAt .. acted : market[n].high <= st.setup.peak

(* A signal is given after a retest: since the impulse of its setup some   *)
(* bar has pulled back by the least share of the distance.                 *)
SignalHasRetest ==
    signal # NoSignal =>
        \E n \in signal.startAt + 1 .. signal.at :
            LET peak == Max({market[k].high : k \in signal.brkAt .. n})
            IN (peak - market[n].low) * 100 >= MinRetrace * peak

(* A signal from cold_start comes at most EmitBars after its retest.       *)
LiveSignalIsFresh ==
    signal.retestAt # 0 => signal.at - signal.retestAt <= EmitBars + 1

(* "Restores the FSM from history": a setup is not lost on the way.        *)
RestoresSetup ==
    st.phase \in {"DISPLACEMENT", "RETEST"} /\ acted # 0 => ColdStart(buffer) # Scanning

(* The stop is set behind the bars up to the last that has closed.         *)
StopCoversLastClosed ==
    [][signal' # signal /\ signal' # NoSignal =>
        \A n \in signal'.brkAt .. Len(market) : signal'.stop < market[n].low]_vars

(* A setup that waits for its retest can still get it.                     *)
RetestIsPossible ==
    st.phase = "RETEST" => \E low \in 0 .. st.setup.peak : Shallow(st.setup.peak, low) = "OK"
=============================================================================
