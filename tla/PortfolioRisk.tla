---------------------------- MODULE PortfolioRisk ----------------------------
(***************************************************************************)
(* What decides whether a grid signal becomes an order: the mode of the    *)
(* portfolio and its rejection counter (app/trading/portfolio_manager.py), *)
(* the thresholds, the size, the exposure limits and the execution check   *)
(* of app/trading/trading_engine.py.  What becomes of the orders is the    *)
(* subject of DualGridEngine: here a level is its volume, and the levels   *)
(* the broker, the sweeps and the reconciliation take away are any.        *)
(*                                                                         *)
(* The bar handler alone changes this state, one bar at a time: a bar is a *)
(* first step up to the mode and a second that trades.  Volumes are        *)
(* hundredths of a lot or less, money is whole, thresholds are percents.   *)
(***************************************************************************)
EXTENDS Integers, Sequences, FiniteSetsExt, SequencesExt

(* MAX_LOT is a volume the broker takes.  Nothing checks it: the client     *)
(* rounds a limit in between up, beyond MAX_LOT and beyond what was         *)
(* compared with the limits of exposure.                                   *)
CONSTANTS
    Pairs,
    Margin,              \* pair -> expected margin of a unit of volume
    Balances,            \* what get_balance may answer
    Profits,             \* what the open positions may have earned together
    RawVolumes,          \* equity * RISK_PER_TRADE over the distance of the stop
    AdoptedVolumes,      \* volumes of positions the reconciliation may find
    MinVolume, StepVolume,
    MaxLot,
    MaxLevels,           \* MAX_GRID_LEVELS
    Scores, EntryScore, AddScore, ConservativeScore, ImbalanceScore,
    Target, Drawdown, ExitDrawdown,
    PairExposure, TotalExposure,
    SoftImbalance, HardImbalance,
    ConservativeVolume, WarnVolume,
    ConservativeAfter, FreezeAfter   \* rejections in a row

NoPair == "none"

ASSUME PortfolioAssumption ==
    /\ NoPair \notin Pairs
    /\ Margin \in [Pairs -> Nat]
    /\ Balances \cup RawVolumes \subseteq Nat
    /\ Profits \subseteq Int
    /\ {MinVolume, StepVolume, MaxLot, MaxLevels} \subseteq Nat \ {0}
    /\ {ConservativeVolume, WarnVolume} \subseteq Nat
    /\ AdoptedVolumes \subseteq Nat
    /\ MaxLot % StepVolume = 0 /\ MaxLot >= MinVolume
    /\ ConservativeAfter \in Nat /\ FreezeAfter \in Nat
    /\ ConservativeAfter <= FreezeAfter
    /\ Drawdown < ExitDrawdown /\ ExitDrawdown < 0 /\ 0 < Target

VARIABLES
    grids,       \* pair -> direction -> volumes of the levels
    priced,      \* pairs in _margin_per_lot_by_pair
    baseline,    \* baseline_equity; 0 before the first bar
    rejections,  \* consecutive_execution_rejections, no further than FreezeAfter
    halted,
    lastMode,    \* _last_degradation_mode
    bar          \* the bar under way, once its mode is known

vars == <<grids, priced, baseline, rejections, halted, lastMode, bar>>

Dirs == {"LONG", "SHORT"}
Other(d) == IF d = "LONG" THEN "SHORT" ELSE "LONG"
Modes == {"NORMAL", "CONSERVATIVE", "FREEZE", "EXIT"}

(* current_atr against its baseline, as far as the thresholds tell it      *)
(* apart: over ATR_SPIKE_MULTIPLIER, over FREEZE_ATR_SPIKE_MULTIPLIER.     *)
Atrs == {"calm", "spike", "extreme"}

NoBar == [pair |-> NoPair, equity |-> 0, mode |-> "NORMAL", atr |-> "calm"]

Init ==
    /\ grids \in [Pairs -> [Dirs -> {<<>>} \cup {<<v>> : v \in AdoptedVolumes}]]
    /\ priced = {} /\ baseline = 0 /\ rejections = 0
    /\ halted = FALSE /\ lastMode = "NORMAL"
    /\ bar = NoBar

-----------------------------------------------------------------------------
(* Exposure *)

Lots(grid) == FoldSeq(+, 0, grid)
PairLots(p) == Lots(grids[p]["LONG"]) + Lots(grids[p]["SHORT"])

(* estimated_total_margin: pairs without a margin yet count for nothing.   *)
TotalMargin == MapThenSumSet(LAMBDA p : PairLots(p) * Margin[p], priced)

(* Variant: a side alone is no imbalance. *)
OverweightOfTwo(p, d, threshold) ==
    LET own == Lots(grids[p][d]) other == Lots(grids[p][Other(d)]) IN
    own > other /\ other > 0 /\ (own - other) * 100 >= threshold * (own + other)

(* The heavier side of a pair, if the imbalance has reached a threshold.   *)
Overweight(p, d, threshold) ==
    LET own == Lots(grids[p][d]) other == Lots(grids[p][Other(d)]) IN
    own > other /\ (own - other) * 100 >= threshold * (own + other)

(* can_expand, but for halted, which ends the bar before *)
CanExpand(p, d, equity, volume) ==
    /\ Margin[p] > 0
    /\ ~Overweight(p, d, HardImbalance)
    /\ (PairLots(p) + volume) * Margin[p] * 100 <= equity * PairExposure
    /\ (TotalMargin + volume * Margin[p]) * 100 <= equity * TotalExposure

-----------------------------------------------------------------------------
(* Volumes: app/trading/volume.py *)

Rounded(volume, percent) == (volume * percent + 50) \div 100
UpToStep(volume) == ((volume + StepVolume - 1) \div StepVolume) * StepVolume

(* resolve_order_volume *)
Resolved(volume) == UpToStep(Max({volume, MinVolume}))

(* _calculate_position_size *)
Size(raw, mode) ==
    LET wanted == IF mode = "CONSERVATIVE" THEN Rounded(raw, ConservativeVolume) ELSE raw
    IN Min({Resolved(wanted), MaxLot})

-----------------------------------------------------------------------------
(* The first step of a bar: levels, margin, balance, mode *)

(* _reconcile_positions and _check_pending_orders_ttl at the head of a bar *)
(* drop the levels that are gone and adopt positions without one; a level  *)
(* a time is as good as all at once.  Bound: adopted levels are no more    *)
(* than orders may make.                                                   *)
Reconcile(p, d) ==
    /\ ~halted /\ bar = NoBar
    /\ \E grid \in {RemoveAt(grids[p][d], i) : i \in DOMAIN grids[p][d]}
                   \cup {Append(grids[p][d], v) : v \in AdoptedVolumes} :
        /\ Len(grid) <= MaxLevels
        /\ grids' = [grids EXCEPT ![p][d] = grid]
    /\ UNCHANGED <<priced, baseline, rejections, halted, lastMode, bar>>

(* A sweep or a global close reaches the grids of all pairs; levels it     *)
(* leaves in part are left to the next reconciliation.                     *)
Swept == {[p \in Pairs |-> [d \in Dirs |-> IF <<p, d>> \in gone THEN <<>> ELSE grids[p][d]]] :
            gone \in SUBSET (Pairs \X Dirs)}

(* The margin is known, the balance is not: the bar ends early. *)
Blind(p) ==
    /\ ~halted /\ bar = NoBar
    /\ priced' = priced \cup {p}
    /\ UNCHANGED <<grids, baseline, rejections, halted, lastMode, bar>>

(* Variant: the baseline follows the balance. *)
BaselineFollows(equity) == IF baseline = 0 THEN equity ELSE (baseline + equity) \div 2

(* initialize_baseline *)
BaselineWith(equity) == IF baseline = 0 THEN equity ELSE baseline

Reaches(profit, percent) == profit * 100 >= percent * baseline'
Within(profit, percent) == profit * 100 <= percent * baseline'

(* check_global_tp_sl *)
ClosesAll(profit) == Reaches(profit, Target) \/ Within(profit, Drawdown)

(* determine_degradation_mode *)
ModeOf(profit, atr) ==
    IF Within(profit, ExitDrawdown) THEN "EXIT" ELSE
    IF atr = "extreme" \/ rejections >= FreezeAfter THEN "FREEZE" ELSE
    IF atr # "calm" \/ rejections >= ConservativeAfter THEN "CONSERVATIVE" ELSE "NORMAL"

Halting ==
    /\ halted' = TRUE
    /\ grids' \in Swept
    /\ UNCHANGED <<lastMode, bar>>

(* _handle_degradation_transition sweeps when Freeze or Exit begins; in     *)
(* Exit the worst position is closed, and a close that fails halts.        *)
Moded(p, equity, mode, atr) ==
    /\ lastMode' = mode
    /\ LET quiet == {"FREEZE", "EXIT"} IN
        IF mode = "EXIT" \/ (mode \in quiet /\ lastMode \notin quiet)
        THEN grids' \in Swept ELSE UNCHANGED grids
    /\ \/ mode = "EXIT" /\ halted' \in BOOLEAN /\ UNCHANGED bar
       \/ /\ mode # "EXIT"
          /\ bar' = [pair |-> p, equity |-> equity, mode |-> mode, atr |-> atr]
          /\ UNCHANGED halted

Assess(p) ==
    /\ ~halted /\ bar = NoBar
    /\ priced' = priced \cup {p}
    /\ UNCHANGED rejections
    /\ \E equity \in Balances, profit \in Profits, atr \in Atrs :
        /\ baseline' = BaselineWith(equity)
        /\ \/ baseline' = 0 /\ halted' = TRUE /\ UNCHANGED <<grids, lastMode, bar>>
           \/ baseline' # 0 /\ ClosesAll(profit) /\ Halting
           \/ /\ baseline' # 0 /\ ~ClosesAll(profit)
              /\ Moded(p, equity, ModeOf(profit, atr), atr)

-----------------------------------------------------------------------------
(* The second step: _process_grid_signal *)

(* Variant: the mode is not looked at when a level is added. *)
CanAddInAnyMode(d) == Len(grids[bar.pair][d]) \in 1 .. MaxLevels - 1

(* _can_add_level; whether the price is far enough from the last level is  *)
(* left open.                                                              *)
CanAdd(d) ==
    /\ Len(grids[bar.pair][d]) \in 1 .. MaxLevels - 1
    /\ bar.mode \notin {"FREEZE", "EXIT"}

(* _effective_add_threshold *)
Threshold(d) ==
    AddScore
    + (IF bar.mode = "CONSERVATIVE" THEN ConservativeScore ELSE 0)
    + (IF Overweight(bar.pair, d, SoftImbalance) THEN ImbalanceScore ELSE 0)

Accepted(d, score) ==
    \/ grids[bar.pair][d] = <<>> /\ score >= EntryScore
    \/ score >= Threshold(d) /\ CanAdd(d)

(* A setup the thresholds let through, of a volume the limits let through. *)
Wanted(d, volume) ==
    /\ bar # NoBar /\ bar.equity > 0
    /\ \E score \in Scores : Accepted(d, score)
    /\ CanExpand(bar.pair, d, bar.equity, volume)

BarOver == bar' = NoBar /\ UNCHANGED <<priced, baseline, halted, lastMode>>

(* No setup, the wrong mode or time, too low a score, too large a volume,  *)
(* an order of the grid resting at the broker, or an order that could not  *)
(* be tracked.                                                             *)
Nothing ==
    /\ bar # NoBar
    /\ BarOver
    /\ UNCHANGED <<grids, rejections>>

Rejection == rejections' = Min({rejections + 1, FreezeAfter})

(* No distance for a stop, or no pip value. *)
NoSize ==
    /\ bar # NoBar /\ bar.equity > 0
    /\ \E d \in Dirs, score \in Scores : Accepted(d, score)
    /\ BarOver /\ Rejection
    /\ UNCHANGED grids

(* The execution check says no, or the broker does.                        *)
Refused ==
    /\ \E d \in Dirs, raw \in RawVolumes : Wanted(d, Size(raw, bar.mode))
    /\ BarOver /\ Rejection
    /\ UNCHANGED grids

(* _execution_check, once the windows are full: an elevated ATR is always  *)
(* too much, an elevated spread makes the order smaller.                   *)
Approved(full) == full => bar.atr = "calm"
Multipliers(full) == IF full THEN {100, WarnVolume} ELSE {100}

(* Variant: the order is as large as what the risk gives, whatever was     *)
(* checked.                                                                *)
PlaceUncut(d, raw, full, percent) ==
    /\ Wanted(d, Size(raw, bar.mode)) /\ Approved(full)
    /\ grids' = [grids EXCEPT ![bar.pair][d] = Append(@, Resolved(Rounded(raw, percent)))]
    /\ rejections' = 0
    /\ BarOver

(* The client rounds the volume once more. *)
Place(d, raw, full, percent) ==
    /\ Wanted(d, Size(raw, bar.mode)) /\ Approved(full)
    /\ grids' = [grids EXCEPT ![bar.pair][d] =
            Append(@, Resolved(Rounded(Size(raw, bar.mode), percent)))]
    /\ rejections' = 0
    /\ BarOver

(* An order of the pair's other grid rests at the broker: its level is     *)
(* entered here too, with the volume of the new setup.                     *)
Duplicate(d, raw, full, percent) ==
    /\ Wanted(d, Size(raw, bar.mode)) /\ Approved(full)
    /\ grids[bar.pair][Other(d)] # <<>>
    /\ grids' = [grids EXCEPT ![bar.pair][d] =
            Append(@, Rounded(Size(raw, bar.mode), percent))]
    /\ BarOver
    /\ UNCHANGED rejections

Next ==
    \/ \E p \in Pairs, d \in Dirs : Reconcile(p, d)
    \/ \E p \in Pairs : Blind(p) \/ Assess(p)
    \/ Nothing \/ NoSize \/ Refused
    \/ \E d \in Dirs, raw \in RawVolumes, full \in BOOLEAN :
        \E percent \in Multipliers(full) :
            Place(d, raw, full, percent) \/ Duplicate(d, raw, full, percent)

Spec == Init /\ [][Next]_vars

-----------------------------------------------------------------------------
TypeOK ==
    /\ grids \in [Pairs -> [Dirs -> Seq(Nat)]]
    /\ priced \subseteq Pairs
    /\ baseline \in Balances \cup {0}
    /\ rejections \in 0 .. FreezeAfter
    /\ halted \in BOOLEAN /\ lastMode \in Modes
    /\ bar \in [pair : Pairs \cup {NoPair}, equity : Balances \cup {0},
                mode : Modes, atr : Atrs]

Opens(p, d) == bar.pair = p /\ grids'[p][d] # grids[p][d]

(* Whatever the roundings after the check, a level that is opened leaves   *)
(* its pair and the account within their shares of the equity, as far as   *)
(* margins are known.                                                      *)
OpensWithinLimits ==
    [][\A p \in Pairs, d \in Dirs : Opens(p, d) =>
        /\ PairLots(p)' * Margin[p] * 100 <= bar.equity * PairExposure
        /\ TotalMargin' * 100 <= bar.equity * TotalExposure]_vars

(* A grid alone is all the imbalance there is, and its second level waits  *)
(* for the other side: MAX_GRID_LEVELS is beyond a one-sided grid.         *)
LoneGridStaysSingle ==
    [][\A p \in Pairs, d \in Dirs :
        Opens(p, d) /\ grids[p][d] # <<>> => Lots(grids[p][Other(d)]) > 0]_vars

(* A Freeze of rejected orders ends with the first level of some grid and  *)
(* in no other way: while every grid that gets setups has a level, it      *)
(* stays.                                                                  *)
FreezeEndsByFirstLevel ==
    [][rejections = FreezeAfter /\ rejections' # FreezeAfter =>
        \E p \in Pairs, d \in Dirs : grids[p][d] = <<>> /\ Len(grids'[p][d]) = 1]_vars
=============================================================================
