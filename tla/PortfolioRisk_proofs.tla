------------------------ MODULE PortfolioRisk_proofs ------------------------
(***************************************************************************)
(* Types of the portfolio's state, and how a Freeze of rejected orders     *)
(* ends, for all thresholds, balances and volumes.                         *)
(***************************************************************************)
EXTENDS PortfolioRisk, TLAPS

Grid == Seq(Nat)
BarType == [pair : Pairs \cup {NoPair}, equity : Balances \cup {0}, mode : Modes, atr : Atrs]

(* While a bar is under way the counter stands still: its mode is the one  *)
(* the counter gave.                                                       *)
FrozenBar ==
    bar # NoBar => /\ bar.pair \in Pairs
                   /\ rejections = FreezeAfter => bar.mode \in {"FREEZE", "EXIT"}

RiskInv == TypeOK /\ FrozenBar

-----------------------------------------------------------------------------
LEMMA MinOfTwo ==
    ASSUME NEW a \in Int, NEW b \in Int
    PROVE  Min({a, b}) = IF a <= b THEN a ELSE b
<1> DEFINE m == IF a <= b THEN a ELSE b
<1>1. m \in {a, b} /\ \A y \in {a, b} : m =< y
  OBVIOUS
<1>2. \A x \in {a, b} : (\A y \in {a, b} : x =< y) => x = m
  OBVIOUS
<1> HIDE DEF m
<1>3. Min({a, b}) = m
  BY <1>1, <1>2 DEF Min
<1> QED  BY <1>3 DEF m

LEMMA MaxOfTwo ==
    ASSUME NEW a \in Int, NEW b \in Int
    PROVE  Max({a, b}) = IF a >= b THEN a ELSE b
<1> DEFINE m == IF a >= b THEN a ELSE b
<1>1. m \in {a, b} /\ \A y \in {a, b} : m >= y
  OBVIOUS
<1>2. \A x \in {a, b} : (\A y \in {a, b} : x >= y) => x = m
  OBVIOUS
<1> HIDE DEF m
<1>3. Max({a, b}) = m
  BY <1>1, <1>2 DEF Max
<1> QED  BY <1>3 DEF m

LEMMA ResolvedNat ==
    ASSUME NEW v \in Nat
    PROVE  Resolved(v) \in Nat
<1>1. MinVolume \in Nat /\ StepVolume \in Nat \ {0}
  BY PortfolioAssumption
<1>2. Max({v, MinVolume}) \in Nat
  BY <1>1, MaxOfTwo
<1>3. ASSUME NEW w \in Nat PROVE UpToStep(w) \in Nat
  <2>1. w + StepVolume - 1 \in Nat
    BY <1>1
  <2>2. (w + StepVolume - 1) \div StepVolume \in Nat
    BY <1>1, <2>1
  <2> QED  BY <1>1, <2>2 DEF UpToStep
<1> QED  BY <1>2, <1>3 DEF Resolved

LEMMA RoundedNat ==
    ASSUME NEW v \in Nat, NEW percent \in Nat
    PROVE  Rounded(v, percent) \in Nat
<1>1. v * percent + 50 \in Nat
  OBVIOUS
<1> QED  BY <1>1 DEF Rounded

LEMMA SizeNat ==
    ASSUME NEW raw \in RawVolumes, NEW mode
    PROVE  Size(raw, mode) \in Nat
<1>1. raw \in Nat /\ MaxLot \in Nat /\ ConservativeVolume \in Nat
  BY PortfolioAssumption
<1> DEFINE wanted == IF mode = "CONSERVATIVE" THEN Rounded(raw, ConservativeVolume) ELSE raw
<1>2. wanted \in Nat
  BY <1>1, RoundedNat
<1> HIDE DEF wanted
<1>3. Resolved(wanted) \in Nat
  BY <1>2, ResolvedNat
<1>4. Size(raw, mode) = Min({Resolved(wanted), MaxLot})
  BY DEF Size, wanted
<1> QED  BY <1>1, <1>3, <1>4, MinOfTwo

(* A level is dropped. *)
LEMMA RemovedGrid ==
    ASSUME NEW g \in Grid, NEW i \in DOMAIN g
    PROVE  RemoveAt(g, i) \in Grid
BY DEF RemoveAt, Grid

LEMMA SetGrid ==
    ASSUME TypeOK, NEW p \in Pairs, NEW d \in Dirs, NEW g \in Grid
    PROVE  [grids EXCEPT ![p][d] = g] \in [Pairs -> [Dirs -> Grid]]
BY DEF TypeOK, Grid

LEMMA SweptGrids ==
    ASSUME TypeOK, NEW g \in Swept
    PROVE  g \in [Pairs -> [Dirs -> Grid]]
<1>1. PICK gone \in SUBSET (Pairs \X Dirs) :
        g = [p \in Pairs |-> [d \in Dirs |-> IF <<p, d>> \in gone THEN <<>> ELSE grids[p][d]]]
  BY DEF Swept
<1>2. << >> \in Grid /\ \A p \in Pairs, d \in Dirs : grids[p][d] \in Grid
  BY DEF TypeOK, Grid
<1> QED  BY <1>1, <1>2

-----------------------------------------------------------------------------
LEMMA RiskInit == Init => RiskInv
<1> SUFFICES ASSUME Init PROVE RiskInv
  OBVIOUS
<1>1. \A v \in AdoptedVolumes : <<v>> \in Grid
  BY PortfolioAssumption DEF Grid
<1>2. grids \in [Pairs -> [Dirs -> Grid]]
  <2>1. {<< >>} \cup {<<v>> : v \in AdoptedVolumes} \subseteq Grid
    <3>1. << >> \in Grid
      BY DEF Grid
    <3> QED  BY <1>1, <3>1
  <2> QED  BY <2>1 DEF Init
<1>3. bar \in BarType
  BY DEF Init, NoBar, BarType, Modes, Atrs
<1>4. rejections \in 0 .. FreezeAfter
  BY PortfolioAssumption DEF Init
<1> QED  BY <1>2, <1>3, <1>4 DEF Init, RiskInv, TypeOK, FrozenBar, Grid, BarType, Modes

LEMMA ReconcileStep ==
    ASSUME RiskInv, NEW p \in Pairs, NEW d \in Dirs, Reconcile(p, d)
    PROVE  RiskInv'
<1>1. grids[p][d] \in Grid
  BY DEF RiskInv, TypeOK, Grid
<1>2. PICK grid \in {RemoveAt(grids[p][d], i) : i \in DOMAIN grids[p][d]}
                    \cup {Append(grids[p][d], v) : v \in AdoptedVolumes} :
        grids' = [grids EXCEPT ![p][d] = grid]
  BY DEF Reconcile
<1>3. grid \in Grid
  <2>1. \A v \in AdoptedVolumes : Append(grids[p][d], v) \in Grid
    BY <1>1, PortfolioAssumption DEF Grid
  <2> QED  BY <1>1, <1>2, <2>1, RemovedGrid
<1> QED  BY <1>2, <1>3, SetGrid DEF Reconcile, RiskInv, TypeOK, FrozenBar, Grid

LEMMA AssessStep ==
    ASSUME RiskInv, NEW p \in Pairs, Assess(p)
    PROVE  RiskInv'
<1>1. priced' \subseteq Pairs /\ rejections' = rejections
  BY DEF Assess, RiskInv, TypeOK
<1>2. PICK equity \in Balances, profit \in Profits, atr \in Atrs :
        /\ baseline' = BaselineWith(equity)
        /\ \/ baseline' = 0 /\ halted' = TRUE /\ UNCHANGED <<grids, lastMode, bar>>
           \/ baseline' # 0 /\ ClosesAll(profit) /\ Halting
           \/ /\ baseline' # 0 /\ ~ClosesAll(profit)
              /\ Moded(p, equity, ModeOf(profit, atr), atr)
  BY DEF Assess
<1>3. baseline' \in Balances \cup {0}
  BY <1>2 DEF BaselineWith, RiskInv, TypeOK
<1>4. /\ ModeOf(profit, atr) \in Modes
      /\ rejections = FreezeAfter => ModeOf(profit, atr) \in {"FREEZE", "EXIT"}
  BY PortfolioAssumption DEF ModeOf, Modes
<1> DEFINE mode == ModeOf(profit, atr)
<1> HIDE DEF mode
<1>5. CASE halted' \in BOOLEAN /\ UNCHANGED <<grids, lastMode, bar>>
  BY <1>1, <1>3, <1>5 DEF RiskInv, TypeOK, FrozenBar, Grid
<1>6. CASE Halting
  <2>1. grids' \in [Pairs -> [Dirs -> Grid]]
    BY <1>6, SweptGrids DEF Halting, RiskInv
  <2> QED  BY <1>1, <1>3, <1>6, <2>1 DEF Halting, RiskInv, TypeOK, FrozenBar, Grid
<1>7. CASE Moded(p, equity, mode, atr)
  <2>1. grids' \in [Pairs -> [Dirs -> Grid]]
    BY <1>7, SweptGrids DEF Moded, RiskInv, TypeOK, Grid
  <2>2. lastMode' = mode /\ mode \in Modes
    BY <1>4, <1>7 DEF Moded, mode
  <2>3. CASE mode = "EXIT" /\ halted' \in BOOLEAN /\ UNCHANGED bar
    BY <1>1, <1>3, <2>1, <2>2, <2>3 DEF RiskInv, TypeOK, FrozenBar, Grid
  <2>4. CASE /\ bar' = [pair |-> p, equity |-> equity, mode |-> mode, atr |-> atr]
             /\ UNCHANGED halted
    <3>1. bar' \in BarType
      BY <2>2, <2>4 DEF BarType
    <3>2. FrozenBar'
      BY <1>1, <1>4, <2>4 DEF FrozenBar, mode
    <3> QED  BY <1>1, <1>3, <2>1, <2>2, <2>4, <3>1, <3>2 DEF RiskInv, TypeOK, Grid, BarType
  <2> QED  BY <1>7, <2>3, <2>4 DEF Moded
<1> QED  BY <1>2, <1>5, <1>6, <1>7 DEF mode

(* A bar that ends, with a level more or none. *)
LEMMA BarEnd ==
    ASSUME RiskInv, BarOver, rejections' \in 0 .. FreezeAfter,
           grids' \in [Pairs -> [Dirs -> Grid]]
    PROVE  RiskInv'
<1>1. bar' = NoBar /\ UNCHANGED <<priced, baseline, halted, lastMode>>
  BY DEF BarOver
<1>2. bar' \in BarType
  BY <1>1 DEF NoBar, BarType, Modes, Atrs
<1> QED  BY <1>1, <1>2 DEF RiskInv, TypeOK, FrozenBar, Grid, BarType

LEMMA RejectionCounts ==
    ASSUME RiskInv, Rejection
    PROVE  /\ rejections' \in 0 .. FreezeAfter
           /\ rejections = FreezeAfter => rejections' = FreezeAfter
<1>1. rejections \in Int /\ FreezeAfter \in Nat /\ rejections \in 0 .. FreezeAfter
  BY PortfolioAssumption DEF RiskInv, TypeOK
<1>2. rejections' = IF rejections + 1 <= FreezeAfter THEN rejections + 1 ELSE FreezeAfter
  BY <1>1, MinOfTwo DEF Rejection
<1> QED  BY <1>1, <1>2

LEMMA TradeStep ==
    ASSUME RiskInv, NEW d \in Dirs, NEW raw \in RawVolumes, NEW full \in BOOLEAN,
           NEW percent \in Multipliers(full),
           Place(d, raw, full, percent) \/ Duplicate(d, raw, full, percent)
    PROVE  RiskInv'
<1>1. bar.pair \in Pairs /\ grids[bar.pair][d] \in Grid
  BY DEF Place, Duplicate, Wanted, RiskInv, FrozenBar, TypeOK, Grid
<1>2. percent \in Nat
  BY PortfolioAssumption DEF Multipliers
<1>3. Rounded(Size(raw, bar.mode), percent) \in Nat
  BY <1>2, SizeNat, RoundedNat
<1>4. Resolved(Rounded(Size(raw, bar.mode), percent)) \in Nat
  BY <1>3, ResolvedNat
<1>5. PICK v \in Nat : grids' = [grids EXCEPT ![bar.pair][d] = Append(@, v)]
  BY <1>3, <1>4 DEF Place, Duplicate
<1>6. grids' \in [Pairs -> [Dirs -> Grid]]
  <2>1. Append(grids[bar.pair][d], v) \in Grid
    BY <1>1, <1>5 DEF Grid
  <2> QED  BY <1>1, <1>5, <2>1, SetGrid DEF RiskInv
<1>7. rejections' \in 0 .. FreezeAfter
  BY PortfolioAssumption DEF Place, Duplicate, RiskInv, TypeOK
<1> QED  BY <1>6, <1>7, BarEnd DEF Place, Duplicate

LEMMA RiskStep == RiskInv /\ [Next]_vars => RiskInv'
<1> SUFFICES ASSUME RiskInv, [Next]_vars PROVE RiskInv'
  OBVIOUS
<1>1. ASSUME NEW p \in Pairs, NEW d \in Dirs, Reconcile(p, d) PROVE RiskInv'
  BY <1>1, ReconcileStep
<1>2. ASSUME NEW p \in Pairs, Blind(p) PROVE RiskInv'
  BY <1>2 DEF Blind, RiskInv, TypeOK, FrozenBar
<1>3. ASSUME NEW p \in Pairs, Assess(p) PROVE RiskInv'
  BY <1>3, AssessStep
<1>4. grids \in [Pairs -> [Dirs -> Grid]] /\ rejections \in 0 .. FreezeAfter
  BY DEF RiskInv, TypeOK, Grid
<1>5. CASE Nothing
  BY <1>4, <1>5, BarEnd DEF Nothing
<1>6. CASE NoSize \/ Refused
  BY <1>4, <1>6, BarEnd, RejectionCounts DEF NoSize, Refused
<1>7. ASSUME NEW d \in Dirs, NEW raw \in RawVolumes, NEW full \in BOOLEAN,
             NEW percent \in Multipliers(full),
             Place(d, raw, full, percent) \/ Duplicate(d, raw, full, percent)
      PROVE  RiskInv'
  BY <1>7, TradeStep
<1>8. CASE UNCHANGED vars
  BY <1>8 DEF vars, RiskInv, TypeOK, FrozenBar
<1> QED  BY <1>1, <1>2, <1>3, <1>5, <1>6, <1>7, <1>8 DEF Next

LEMMA RiskAlways == Spec => []RiskInv
BY RiskInit, RiskStep, PTL DEF Spec

-----------------------------------------------------------------------------
(* The state of the portfolio keeps its types: volumes stay natural through *)
(* all roundings, and the counter between its bounds.                       *)
THEOREM RiskTypeCorrect == Spec => []TypeOK
<1>1. RiskInv => TypeOK
  BY DEF RiskInv
<1> QED  BY <1>1, RiskAlways, PTL

(* For all thresholds, balances and volumes: what ends a Freeze of         *)
(* rejected orders is the first level of a grid, which alone is not looked *)
(* at for the mode (_process_grid_signal, _can_add_level).                 *)
THEOREM FreezeEnds == Spec => FreezeEndsByFirstLevel
<1> DEFINE Ends ==
        rejections = FreezeAfter /\ rejections' # FreezeAfter =>
            \E p \in Pairs, d \in Dirs : grids[p][d] = <<>> /\ Len(grids'[p][d]) = 1
<1>1. ASSUME RiskInv, [Next]_vars, rejections = FreezeAfter, rejections' # FreezeAfter
      PROVE  \E p \in Pairs, d \in Dirs : grids[p][d] = <<>> /\ Len(grids'[p][d]) = 1
  <2>1. PICK d \in Dirs, raw \in RawVolumes, full \in BOOLEAN :
            \E percent \in Multipliers(full) : Place(d, raw, full, percent)
    BY <1>1, RejectionCounts DEF Next, vars, Reconcile, Blind, Assess, Nothing, NoSize, Refused,
       Duplicate
  <2>2. PICK percent \in Multipliers(full) : Place(d, raw, full, percent)
    BY <2>1
  <2>3. bar.pair \in Pairs /\ bar.mode \in {"FREEZE", "EXIT"}
    BY <1>1, <2>2 DEF Place, Wanted, RiskInv, FrozenBar
  <2>4. grids[bar.pair][d] = << >>
    BY <2>2, <2>3 DEF Place, Wanted, Accepted, CanAdd
  <2>5. \E v : grids'[bar.pair][d] = Append(<< >>, v)
    BY <1>1, <2>2, <2>3, <2>4 DEF Place, RiskInv, TypeOK
  <2>6. Len(grids'[bar.pair][d]) = 1
    BY <2>5
  <2> QED  BY <2>3, <2>4, <2>6
<1>2. RiskInv /\ [Next]_vars => Ends
  BY <1>1
<1> QED  BY <1>2, RiskAlways, PTL DEF Spec, FreezeEndsByFirstLevel
=============================================================================
