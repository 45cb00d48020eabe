------------------------------- MODULE Retest -------------------------------
(***************************************************************************)
(* BreakoutRetestScalpingV3Strategy (app/strategy/breakout_retest_v3.py):  *)
(* what it makes of the candles of a pair, from the breakout to the stop   *)
(* order.  Prices are distances from the broken level in the direction of  *)
(* the breakout, so that BUY and SELL are one case.  Whether a bar breaks  *)
(* a level (detect_levels, check_breakout_at) is a field of the bar.       *)
(***************************************************************************)
EXTENDS Integers, Sequences, FiniteSetsExt

CONSTANTS
    MinDisp, MaxDisp,        \* min_displacement_pips, max_displacement_pips
    DispBars,                \* max_bars_for_displacement
    RetestBars,              \* retest_timeout_bars
    MinRetrace, MaxRetrace,  \* percents of the displacement
    Tolerance,               \* retest_tolerance_pips; 0: none
    StopBuffer,              \* sl_buffer_pips
    UpdateBars, ColdBars,    \* fewest candles update and cold_start work on
    EmitBars                 \* COLD_START_LIVE_EMIT_MAX_BARS

ASSUME RetestAssumption ==
    /\ {MinDisp, MaxDisp, DispBars, RetestBars, MinRetrace, MaxRetrace, Tolerance, StopBuffer,
        UpdateBars, ColdBars, EmitBars} \subseteq Nat
    /\ MinDisp <= MaxDisp /\ MinRetrace <= MaxRetrace
    /\ UpdateBars > 1

(* BreakoutSetup.  The times of two of its bars and of the retest that     *)
(* cold_start found are not in the code; properties speak of them.         *)
NoSetup == [brk |-> 0, start |-> 0, peak |-> 0, brkAt |-> 0, startAt |-> 0, retestAt |-> 0]

(* PairStrategyState *)
Scanning == [phase |-> "SCAN", setup |-> NoSetup, live |-> FALSE]

SignalIdx(candles) == Len(candles) - 1

-----------------------------------------------------------------------------
(* check_displacement, once the bar is part of the peak *)
Displacement(peak, waited) ==
    IF peak > MaxDisp THEN "CANCELLED" ELSE
    IF peak >= MinDisp THEN "OK" ELSE
    IF waited >= DispBars THEN "CANCELLED" ELSE "WAIT"

(* check_shallow_retest, _retest_near_level *)
Shallow(peak, low) ==
    LET retrace == (peak - low) * 100
        near    == Tolerance = 0 \/ low <= Tolerance
    IN IF peak > 0 /\ retrace > MaxRetrace * peak THEN "CANCELLED" ELSE
       IF peak > 0 /\ retrace >= MinRetrace * peak /\ near THEN "OK" ELSE "WAIT"

Peak(candles, a, b) == Max({candles[i].bar.high : i \in a .. b})

(* _to_cancelled: the setup goes; the flag of cold_start stays as it is.   *)
Cancelled(st) == [Scanning EXCEPT !.live = st.live]

(* a breakout starts a setup, under whatever flag there is *)
BreaksAt(st, candles, i) ==
    [phase |-> "DISPLACEMENT", live |-> st.live,
     setup |-> [NoSetup EXCEPT !.brk = i, !.peak = candles[i].bar.high, !.brkAt = candles[i].at]]

(* Variant: the stop is set behind the bars since the impulse. *)
SignalOfImpulse(setup, candles, i) ==
    [at    |-> candles[i].at,
     brkAt |-> setup.brkAt,
     startAt |-> setup.startAt,
     retestAt |-> setup.retestAt,
     entry |-> candles[i].bar.high,
     stop  |-> Min({candles[k].bar.low : k \in setup.start .. i}) - StopBuffer]

(* build_signal, _local_structure_sl *)
SignalOf(setup, candles, i) ==
    [at    |-> candles[i].at,
     brkAt |-> setup.brkAt,
     startAt |-> setup.startAt,
     retestAt |-> setup.retestAt,
     entry |-> candles[i].bar.high,
     stop  |-> Min({candles[k].bar.low : k \in setup.brk .. i}) - StopBuffer]

-----------------------------------------------------------------------------
(* update: what becomes of the state, and whether there is a signal.  The  *)
(* guard is asked where a signal would start or be sent.                   *)

ScanTick(st, candles, i, guard) ==
    [st   |-> IF guard /\ candles[i].bar.brk THEN BreaksAt(st, candles, i) ELSE st,
     emit |-> FALSE]

DisplacementTick(st, candles, i) ==
    LET seen == [st.setup EXCEPT !.peak = Max({@, candles[i].bar.high})]
        out  == Displacement(seen.peak, i - seen.brk)
    IN [emit |-> FALSE,
        st   |-> IF out = "CANCELLED" THEN Cancelled(st) ELSE
                 IF out = "WAIT" THEN [st EXCEPT !.setup = seen]
                 ELSE [st EXCEPT !.phase = "RETEST",
                                 !.setup = [seen EXCEPT !.start = i, !.startAt = candles[i].at]]]

(* Variant: a setup that waits for its retest never times out. *)
RetestTickForEver(st, candles, i, guard) ==
    LET seen == [st.setup EXCEPT !.peak = Max({@, candles[i].bar.high})]
        out  == Shallow(seen.peak, candles[i].bar.low)
    IN IF st.live THEN [emit |-> guard, st |-> [st EXCEPT !.live = FALSE]]
       ELSE IF out = "CANCELLED" THEN [emit |-> FALSE, st |-> Cancelled(st)]
       ELSE [emit |-> out = "OK" /\ guard, st |-> [st EXCEPT !.setup = seen]]

(* Variant: the flag of cold_start stays up. *)
RetestTickStillLive(st, candles, i, guard) ==
    LET seen == [st.setup EXCEPT !.peak = Max({@, candles[i].bar.high})]
        out  == Shallow(seen.peak, candles[i].bar.low)
    IN IF i - st.setup.start > RetestBars \/ out = "CANCELLED" THEN [emit |-> FALSE, st |-> Cancelled(st)]
       ELSE [emit |-> (st.live \/ out = "OK") /\ guard, st |-> [st EXCEPT !.setup = seen]]

RetestTick(st, candles, i, guard) ==
    LET seen == [st.setup EXCEPT !.peak = Max({@, candles[i].bar.high})]
        out  == Shallow(seen.peak, candles[i].bar.low)
    IN IF i - st.setup.start > RetestBars THEN [emit |-> FALSE, st |-> Cancelled(st)]
       ELSE IF st.live THEN [emit |-> guard, st |-> [st EXCEPT !.live = FALSE]]
       ELSE IF out = "CANCELLED" THEN [emit |-> FALSE, st |-> Cancelled(st)]
       ELSE [emit |-> out = "OK" /\ guard, st |-> [st EXCEPT !.setup = seen]]

(* open: in the trade window, and under the spread limit. *)
Update(st, candles, open, guard) ==
    LET i == SignalIdx(candles) IN
    IF Len(candles) < UpdateBars \/ ~open THEN [st |-> st, emit |-> FALSE] ELSE
    CASE st.phase = "SCAN"         -> ScanTick(st, candles, i, guard)
      [] st.phase = "DISPLACEMENT" -> DisplacementTick(st, candles, i)
      [] st.phase = "RETEST"       -> RetestTick(st, candles, i, guard)
      [] OTHER                     -> [st |-> st, emit |-> FALSE]

-----------------------------------------------------------------------------
(* cold_start: the newest breakout of the history whose setup would be     *)
(* waiting for its retest, or had it.                                      *)

Restored(candles, i) ==
    LET n       == Len(candles)
        disp(j) == Displacement(Peak(candles, i, j), j - i)
        ends    == {j \in i + 1 .. n - 1 : disp(j) # "WAIT"}
        start   == Min(ends)
        wait(j) == IF j - start > RetestBars THEN "CANCELLED"
                   ELSE Shallow(Peak(candles, i, j), candles[j].bar.low)
        rets    == {j \in start + 1 .. n - 1 : wait(j) # "WAIT"}
        found(j, live, retestAt) ==
            [phase |-> "RETEST", live |-> live,
             setup |-> [brk |-> i, start |-> start, peak |-> Peak(candles, i, j),
                        brkAt |-> candles[i].at, startAt |-> candles[start].at,
                        retestAt |-> retestAt]]
    IN IF ends = {} THEN Scanning
       ELSE IF disp(start) # "OK" THEN Scanning
       ELSE IF rets = {} THEN found(n - 1, FALSE, 0)
       ELSE LET j == Min(rets) IN
            IF wait(j) = "CANCELLED" THEN Scanning
            ELSE found(j, n - 1 - j <= EmitBars, candles[j].at)

ColdStart(candles) ==
    LET n    == Len(candles)
        from == Max({3, UpdateBars - 1, n - RetestBars - 4})
        good == {i \in from .. n - 1 : candles[i].bar.brk /\ Restored(candles, i) # Scanning}
    IN IF n < ColdBars \/ good = {} THEN Scanning ELSE Restored(candles, Max(good))
=============================================================================
