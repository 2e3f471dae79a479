------------------------------ MODULE PublicBoard ------------------------------
(***************************************************************************)
(* What the published assessments promise their readers: one place that      *)
(* shows the newest assessment.  It is announced, offered for a while, and   *)
(* withdrawn for good; an older one is never shown again.                    *)
(***************************************************************************)
EXTENDS Integers

VARIABLES newest,  \* the assessment on the board, named by its time and its run
          stage    \* "empty", "announced", "offered", "withdrawn"
vars == <<newest, stage>>

Nothing == [at |-> -1, run |-> 0]

Init == newest = Nothing /\ stage = "empty"

\* A newer assessment takes the place of the last one, at first without being offered;
\* one without a score, or that comes too late, never is.
Announce ==
  /\ newest' # newest /\ newest' # Nothing
  /\ newest'.at >= newest.at
  /\ stage' \in {"announced", "withdrawn"}

\* It is whole, and its time has come.
Offer == stage = "announced" /\ stage' = "offered" /\ UNCHANGED newest

Withdraw ==
  stage \in {"announced", "offered"} /\ stage' = "withdrawn" /\ UNCHANGED newest

Next == Announce \/ Offer \/ Withdraw

Spec == Init /\ [][Next]_vars
=============================================================================
