-------------------------- MODULE MCDeliveryContract --------------------------
(* A small instance: ages of 2, 4 and 7 ticks, a millisecond of 2 or 3 ticks, *)
(* clocks off by at most one tick.                                            *)
EXTENDS DeliveryContract

OffByOne == {-1, 0, 1}
=============================================================================
