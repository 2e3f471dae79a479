---------------------------- MODULE MCReserveVault ----------------------------
(* A word of 44 and 6 basis points, the least the arithmetic fits; a third     *)
(* liquid and at most half in Aave, so that as with the source's quarter and   *)
(* two fifths the exposure cap is the stricter; every amount of every token.   *)
EXTENDS ReserveVault

Single == {1}
=============================================================================
