---------------------------- MODULE MCPublication ----------------------------
(* Two runs on true clocks; MCRiskOracle has runners whose clocks are wrong. *)
EXTENDS Publication

TrueClocks == {0}
=============================================================================
