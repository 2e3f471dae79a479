---------------------------- MODULE MCRiskOracle ----------------------------
(* Two runs and one Worker; right clocks, runners' clocks off by one tick either way,   *)
(* an edge clock that may be a tick behind.                                             *)
EXTENDS RiskOracle

RightClocks == {0}
WrongClocks == {-1, 1}
OneBehind == {-1, 0}

\* Without answeredAt, edge and latest, which no action and no property here reads.
SystemView == <<vars, request, answer, shown, checkedAt, known>>
=============================================================================
