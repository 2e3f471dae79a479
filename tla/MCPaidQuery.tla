----------------------------- MODULE MCPaidQuery -----------------------------
(* Two requests that present the same authorization or none, between two     *)
(* publications.                                                             *)
EXTENDS PaidQuery

CONSTANTS r1, r2, a1

OneLag == {1}

(* What no action and no property reads any more is left out of the compared state:   *)
(* what a request kept for its own stages once it is over, the newest row once nobody *)
(* can read it.  What is left out never decides what happens to the rest.             *)
If(needed, value) == IF needed THEN <<value>> ELSE <<>>

Open(r) == pc[r] \in Calling
Sold(r) == answer[r].code = 200
Expired(r) == answer[r].why = "expired"
Moving(r) == r \in settlements \cup payers

KeptOf(r) ==
  <<pc[r], answer[r].code, Expired(r),
    If(Open(r) \/ Sold(r) \/ Moving(r), <<auth[r], receipt[r]>>),
    If(Open(r), since[r]),
    If(Open(r) \/ Sold(r), held[r]),
    If(pc[r] = "settling" \/ Expired(r), admission[r].at),
    If(Sold(r) \/ Expired(r), answer[r].at)>>

MayRead ==
  \E r \in Requests : pc[r] \in {"reading", "read", "supported", "verifying"}

MayArrive == now + Budget <= MaxTime /\ \E r \in Requests : pc[r] = "idle"

Kept ==
  <<now, If(MayRead \/ MayArrive, newest), assessments, settlements, charged, payers, events,
    [r \in Requests |-> KeptOf(r)]>>
=============================================================================
