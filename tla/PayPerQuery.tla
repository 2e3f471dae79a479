----------------------------- MODULE PayPerQuery -----------------------------
(***************************************************************************)
(* What the paid endpoint promises, without the Worker, its awaits and its  *)
(* timers: a request is closed once, as sold, challenged, refused or        *)
(* dropped; it is sold only against a transfer of the authorization it      *)
(* presents; it is challenged to pay only if nothing it did can still take  *)
(* the buyer's money, unless whoever holds its order answered that it was   *)
(* not successful.  Closes adds that it is closed in the end.               *)
(***************************************************************************)
CONSTANTS Requests, Authorizations, NoAuthorization

VARIABLES outcome,     \* "new", "open", then how the request was closed
          purse,       \* the authorization the request presents
          orders,      \* open settlement orders: requests that may still charge
          disclaimed,  \* requests told "not successful" of an order left open
          spent,       \* requests whose order charged their authorization
          charged      \* authorizations whose transfer happened

vars == <<outcome, purse, orders, disclaimed, spent, charged>>

Init ==
  /\ outcome = [r \in Requests |-> "new"]
  /\ purse = [r \in Requests |-> NoAuthorization]
  /\ orders = {} /\ disclaimed = {} /\ spent = {} /\ charged = {}

Open(r) ==
  /\ outcome[r] = "new" /\ outcome' = [outcome EXCEPT ![r] = "open"]
  /\ \E a \in Authorizations \cup {NoAuthorization} : purse' = [purse EXCEPT ![r] = a]
  /\ UNCHANGED <<orders, disclaimed, spent, charged>>

Order(r) ==
  /\ outcome[r] = "open" /\ purse[r] # NoAuthorization
  /\ r \notin orders \cup spent
  /\ orders' = orders \cup {r}
  /\ UNCHANGED <<outcome, purse, disclaimed, spent, charged>>

\* An order charges an authorization nobody charged before, or lapses.
Charge(r) ==
  /\ r \in orders /\ purse[r] \notin charged
  /\ orders' = orders \ {r} /\ spent' = spent \cup {r}
  /\ charged' = charged \cup {purse[r]}
  /\ UNCHANGED <<outcome, purse, disclaimed>>

Lapse(r) ==
  /\ r \in orders /\ orders' = orders \ {r}
  /\ UNCHANGED <<outcome, purse, disclaimed, spent, charged>>

\* An order is answered "not successful" and may charge all the same.
Disclaim(r) ==
  /\ r \in orders \ disclaimed /\ disclaimed' = disclaimed \cup {r}
  /\ UNCHANGED <<outcome, purse, orders, spent, charged>>

Close(r, how) ==
  /\ outcome[r] \in {"new", "open"}
  /\ how = "sold" => outcome[r] = "open" /\ purse[r] \in charged
  /\ how = "challenged" => r \notin orders \cup spent \/ r \in disclaimed
  /\ outcome' = [outcome EXCEPT ![r] = how]
  /\ UNCHANGED <<purse, orders, disclaimed, spent, charged>>

Closings == {"sold", "challenged", "refused", "dropped"}

Next ==
  \E r \in Requests :
    \/ Open(r) \/ Order(r) \/ Charge(r) \/ Lapse(r) \/ Disclaim(r)
    \/ \E how \in Closings : Close(r, how)

Spec == Init /\ [][Next]_vars

\* The rest of the promise: an open request is closed in the end.
Closes == \A r \in Requests : outcome[r] = "open" ~> outcome[r] \in Closings
=============================================================================
