----------------------------- MODULE MCPortfolio -----------------------------
(* Instance of PortfolioRisk for TLC: money that two pairs compete for. *)
EXTENDS PortfolioRisk

CONSTANTS p1, p2

Margins == [p \in Pairs |-> IF p = p1 THEN 1 ELSE 2]
Results == {-2, -1, 0, 3}
MaxDrawdown == -10
ExitAt == -5
=============================================================================
