------------------------------ MODULE PaidQuery ------------------------------
(***************************************************************************)
(* The paid endpoint: Worker requests (worker/src/index.ts, supabase.ts,    *)
(* payment.ts, facilitator.ts, telemetry.ts) between a database whose       *)
(* newest publication changes under them, a facilitator that settles on     *)
(* chain in its own time, and buyers who may present one authorization in   *)
(* several requests.  A request is cut into steps at its awaits; what the   *)
(* Worker decides between two awaits is one action.                         *)
(*                                                                         *)
(* One clock, in units of the shortest timeout; DeliveryContract treats     *)
(* clocks that differ.                                                      *)
(***************************************************************************)
EXTENDS AssessmentDelivery, FiniteSets

CONSTANTS
  Requests,          \* HTTP requests
  Authorizations,    \* signed transfers buyers may present
  NoAuthorization,   \* no PAYMENT-SIGNATURE, or one purchase does not match
  CallTimeout,       \* abort timer of a database read, getSupported, verify
  SettleTimeout,     \* SETTLEMENT_TIMEOUT_MS
  TimerLag,          \* how late an abort timer may fire
  ObservationLags,   \* how old a new publication's data may be
  MaxPublications,   \* bound on publications (model checking only)
  MaxTime            \* bound on the clock (model checking only)

ASSUME PaidQueryAssumption ==
  /\ NoAuthorization \notin Authorizations
  /\ CallTimeout \in Nat \ {0} /\ SettleTimeout \in Nat \ {0} /\ TimerLag \in Nat
  /\ ObservationLags \subseteq Nat /\ MaxPublications \in Nat /\ MaxTime \in Nat

VARIABLES
  now,          \* the clock
  newest,       \* what the newest assessments row and its companions look like
  assessments,  \* every assessments row inserted so far
  pc,           \* where each request is
  auth,         \* the authorization each request presents
  since,        \* when the call a request awaits was started
  held,         \* the assessment each request holds
  admission,    \* history: when a request was admitted to settle, and its deadline
  settlements,  \* requests whose settle call may still end in a transfer
  receipt,      \* what the facilitator answered a settle call
  charged,      \* authorizations whose transfer is on chain
  payers,       \* requests whose own settle call made a transfer
  answer,       \* the reply of each finished request
  telemetry,    \* requests whose usage event is on its way (ctx.waitUntil)
  query_events  \* the query_events table

database == <<newest, assessments>>
chain == <<settlements, receipt, charged, payers>>
events == <<telemetry, query_events>>
request == <<pc, auth, since, held, admission, answer>>
vars == <<now, database, request, chain, events>>

Calling == {"reading", "read", "supported", "verifying", "settling"}
Final == {"done", "gone"}

\* Faulty variant: the database read has no abort timer.
LimitWithoutRead ==
  [reading |-> MaxTime + 1, read |-> MaxTime + 1, supported |-> CallTimeout,
   verifying |-> CallTimeout, settling |-> SettleTimeout]

\* The abort timer of the call each stage awaits.
Limit == [reading |-> CallTimeout, read |-> CallTimeout, supported |-> CallTimeout,
          verifying |-> CallTimeout, settling |-> SettleTimeout]

Overdue(r) == pc[r] \in Calling /\ now >= since[r] + Limit[pc[r]]

\* The longest a request can take: it starts only while that fits under MaxTime.
Budget == 3 * (CallTimeout + TimerLag) + SettleTimeout + TimerLag

\* A settle answer with success: false: a refusal, or settlement_pending, the transaction
\* broadcast but not confirmed.  settleSchema drops errorReason: they look the same.
Unsuccessful == {"refused", "pending"}

NoAnswer == [code |-> 0, why |-> "none", at |-> NoTime]
NotAdmitted == [at |-> NoTime, expires |-> NoTime]

FirstRow == Assess(1, 0, 0, 50, TRUE)

Init ==
  /\ now = 0
  /\ newest = [assessment |-> FirstRow, snapshot |-> TRUE, evidence |-> TRUE]
  /\ assessments = {FirstRow}
  /\ pc = [r \in Requests |-> "idle"]
  /\ auth = [r \in Requests |-> NoAuthorization]
  /\ since = [r \in Requests |-> 0]
  /\ held = [r \in Requests |-> Unavailable("NO_ASSESSMENT")]
  /\ admission = [r \in Requests |-> NotAdmitted]
  /\ answer = [r \in Requests |-> NoAnswer]
  /\ settlements = {} /\ receipt = [r \in Requests |-> "none"]
  /\ charged = {} /\ payers = {}
  /\ telemetry = {} /\ query_events = {}

------------------------------------------------------------------------------
(* Small steps the handlers share. *)

Reply(r, code, why) ==
  /\ pc' = [pc EXCEPT ![r] = "done"]
  /\ answer' = [answer EXCEPT ![r] = [code |-> code, why |-> why, at |-> now]]

Await(r, stage) ==
  /\ pc' = [pc EXCEPT ![r] = stage]
  /\ since' = [since EXCEPT ![r] = now]
  /\ UNCHANGED answer

Hold(r, a) == held' = [held EXCEPT ![r] = a]

\* validateAssessment does not throw and what it returns can be sold.
Sellable(a, t) == ~Invalid(a, t) /\ Usable(ValidateAssessment(a, t))

\* Faulty variant: the margin of another call's timeout.
ShortValidity(a, t) == Sellable(a, t + CallTimeout)

\* The admission check: sellable for as long as the bounded settle call may take.
SufficientValidity(a, t) == Sellable(a, t + SettleTimeout)

------------------------------------------------------------------------------
(* The request handler. *)

\* A request of the wrong path, method, media type or body.
BadRequest(r) ==
  /\ pc[r] = "idle"
  /\ Reply(r, 422, "invalid")
  /\ UNCHANGED <<now, database, auth, since, held, admission, chain, events>>

Arrive(r, a) ==
  /\ pc[r] = "idle" /\ now + Budget <= MaxTime
  /\ auth' = [auth EXCEPT ![r] = a]
  /\ Await(r, "reading")
  /\ UNCHANGED <<now, database, held, admission, chain, events>>

\* statement_timestamp() of the read: the answer still has to travel.
DatabaseAnswers(r) ==
  /\ pc[r] = "reading"
  /\ pc' = [pc EXCEPT ![r] = "read"]
  /\ Hold(r, DatabaseResult(newest, now))
  /\ UNCHANGED <<now, database, auth, since, admission, answer, chain, events>>

\* latestAssessment returns, the handler looks at the status and enters purchase.
ReadReturns(r) ==
  /\ pc[r] = "read"
  /\ IF Sellable(held[r], now)
     THEN Await(r, "supported") /\ Hold(r, ValidateAssessment(held[r], now))
     ELSE Reply(r, 503, "unavailable") /\ UNCHANGED <<since, held>>
  /\ UNCHANGED <<now, database, auth, admission, chain, events>>

\* getSupported returns: check again, then challenge or verify.
SupportedReturns(r) ==
  /\ pc[r] = "supported"
  /\ IF ~Sellable(held[r], now)
     THEN Reply(r, 503, "unavailable") /\ UNCHANGED <<since, held>>
     ELSE /\ Hold(r, ValidateAssessment(held[r], now))
          /\ IF auth[r] = NoAuthorization
             THEN Reply(r, 402, "required") /\ UNCHANGED since
             ELSE Await(r, "verifying")
  /\ UNCHANGED <<now, database, auth, admission, chain, events>>

\* verify says no, or gives no payer.
VerifyRefuses(r) ==
  /\ pc[r] = "verifying"
  /\ Reply(r, 402, "required")
  /\ UNCHANGED <<now, database, auth, since, held, admission, chain, events>>

\* Faulty variant: the newest assessment is fetched again before settlement.
VerifyRefetches(r) ==
  /\ pc[r] = "verifying"
  /\ LET a == DatabaseResult(newest, now) IN
     IF SufficientValidity(a, now) /\ ~Invalid(a, now)
     THEN /\ Hold(r, a)
          /\ Await(r, "settling")
          /\ admission' = [admission EXCEPT ![r] = [at |-> now, expires |-> a.expires_at]]
          /\ settlements' = settlements \cup {r}
     ELSE /\ Reply(r, 503, "validity")
          /\ UNCHANGED <<since, held, admission, settlements>>
  /\ UNCHANGED <<now, database, auth, receipt, charged, payers, events>>

\* verify says yes: admission check, then the settle call goes out.
VerifyAccepts(r) ==
  /\ pc[r] = "verifying"
  /\ IF SufficientValidity(held[r], now) /\ ~Invalid(held[r], now)
     THEN /\ Hold(r, ValidateAssessment(held[r], now))
          /\ Await(r, "settling")
          /\ admission' = [admission EXCEPT ![r] = [at |-> now, expires |-> held[r].expires_at]]
          /\ settlements' = settlements \cup {r}
     ELSE /\ Reply(r, 503, "validity")
          /\ UNCHANGED <<since, held, admission, settlements>>
  /\ UNCHANGED <<now, database, auth, receipt, charged, payers, events>>

\* Faulty variants: a settlement is delivered without looking at the assessment again;
\* an expired one sends the buyer back to pay.
SettleTrusted(r) ==
  /\ pc[r] = "settling" /\ receipt[r] # "none"
  /\ IF receipt[r] \in Unsuccessful
     THEN Reply(r, 402, "required") /\ UNCHANGED telemetry
     ELSE Reply(r, 200, "paid") /\ telemetry' = telemetry \cup {r}
  /\ UNCHANGED <<now, database, auth, since, held, admission, chain, query_events>>

SettleRechallenges(r) ==
  /\ pc[r] = "settling" /\ receipt[r] # "none"
  /\ IF receipt[r] \in Unsuccessful \/ ~Sellable(held[r], now)
     THEN Reply(r, 402, "required") /\ UNCHANGED <<held, telemetry>>
     ELSE /\ Hold(r, ValidateAssessment(held[r], now))
          /\ Reply(r, 200, "paid")
          /\ telemetry' = telemetry \cup {r}
  /\ UNCHANGED <<now, database, auth, since, admission, chain, query_events>>

\* settle answers: not successful, too late for this assessment, or paid.
SettleReturns(r) ==
  /\ pc[r] = "settling" /\ receipt[r] # "none"
  /\ CASE receipt[r] \in Unsuccessful ->
            Reply(r, 402, "required") /\ UNCHANGED <<held, telemetry>>
       [] receipt[r] = "settled" /\ ~Sellable(held[r], now) ->
            Reply(r, 503, "expired") /\ UNCHANGED <<held, telemetry>>
       [] receipt[r] = "settled" /\ Sellable(held[r], now) ->
            /\ Hold(r, ValidateAssessment(held[r], now))
            /\ Reply(r, 200, "paid")
            /\ telemetry' = telemetry \cup {r}
  /\ UNCHANGED <<now, database, auth, since, admission, chain, query_events>>

\* Faulty variants: the exception reaches the platform; every failure is a challenge.
CallThrows(r) ==
  /\ pc[r] \in Calling
  /\ Reply(r, 500, "failed")
  /\ UNCHANGED <<now, database, auth, since, held, admission, chain, events>>

CallChallenges(r) ==
  /\ pc[r] \in Calling
  /\ Reply(r, 402, "required")
  /\ UNCHANGED <<now, database, auth, since, held, admission, chain, events>>

\* A call throws: transport error, status, schema, unmatched receipt, or the abort
\* timer.  Whatever the facilitator was doing goes on.
CallFails(r) ==
  /\ pc[r] \in Calling
  /\ Reply(r, 503, "failed")
  /\ UNCHANGED <<now, database, auth, since, held, admission, chain, events>>

\* The platform drops the request: the buyer disconnects or the isolate ends.
Dropped(r) ==
  /\ pc[r] \in Calling
  /\ pc' = [pc EXCEPT ![r] = "gone"]
  /\ UNCHANGED <<now, database, auth, since, held, admission, answer, chain, events>>

------------------------------------------------------------------------------
(* The facilitator and the chain (external): a settle call is answered once, or   *)
(* never, whether or not the Worker still waits for it, and a transfer may follow *)
(* silence as well as an answer that leaves it open.                              *)

\* The transaction confirms; the settle call is told so unless it has its answer.
FacilitatorTransfers(r) ==
  /\ r \in settlements /\ auth[r] \notin charged
  /\ charged' = charged \cup {auth[r]} /\ payers' = payers \cup {r}
  /\ settlements' = settlements \ {r}
  /\ receipt' = [receipt EXCEPT ![r] = IF @ = "none" THEN "settled" ELSE @]
  /\ UNCHANGED <<now, database, request, events>>

\* The authorization was used before: the same transfer may be reported again.
FacilitatorReplays(r) ==
  /\ r \in settlements /\ receipt[r] = "none" /\ auth[r] \in charged
  /\ settlements' = settlements \ {r}
  /\ receipt' = [receipt EXCEPT ![r] = "settled"]
  /\ UNCHANGED <<now, database, request, charged, payers, events>>

FacilitatorRefuses(r) ==
  /\ r \in settlements /\ receipt[r] = "none"
  /\ settlements' = settlements \ {r}
  /\ receipt' = [receipt EXCEPT ![r] = "refused"]
  /\ UNCHANGED <<now, database, request, charged, payers, events>>

\* settlement_pending: not successful, yet the transaction may still confirm.
FacilitatorPends(r) ==
  /\ r \in settlements /\ receipt[r] = "none"
  /\ receipt' = [receipt EXCEPT ![r] = "pending"]
  /\ UNCHANGED <<now, database, request, settlements, charged, payers, events>>

\* The call never reaches the facilitator, or the transaction is dropped or reverts.
SettleCallLost(r) ==
  /\ r \in settlements
  /\ settlements' = settlements \ {r}
  /\ UNCHANGED <<now, database, request, receipt, charged, payers, events>>

------------------------------------------------------------------------------
(* Telemetry: one best-effort insert per paid reply, keyed by the transaction. *)

Event(r) ==
  [id |-> auth[r], assessment_id |-> held[r].assessment_id,
   score |-> held[r].score, freshness_status |-> held[r].freshness_status]

\* Faulty variant: no primary key on the transaction.
RecordEveryEvent(r) ==
  /\ r \in telemetry
  /\ telemetry' = telemetry \ {r}
  /\ query_events' = query_events \cup {Event(r)}
  /\ UNCHANGED <<now, database, request, chain>>

RecordEvent(r) ==
  /\ r \in telemetry
  /\ telemetry' = telemetry \ {r}
  /\ query_events' = IF \E e \in query_events : e.id = auth[r]
                     THEN query_events                \* primary key violation
                     ELSE query_events \cup {Event(r)}
  /\ UNCHANGED <<now, database, request, chain>>

LoseEvent(r) ==
  /\ r \in telemetry
  /\ telemetry' = telemetry \ {r}
  /\ UNCHANGED <<now, database, request, chain, query_events>>

------------------------------------------------------------------------------
(* The ingestion, seen from here: a new row becomes the newest at once, its     *)
(* companions follow later.                                                     *)

InsertAssessment(lag, complete) ==
  LET row == Assess(Cardinality(assessments) + 1, now - lag, now, 50, complete) IN
  /\ Cardinality(assessments) < MaxPublications /\ lag <= now
  /\ newest' = [assessment |-> row, snapshot |-> FALSE, evidence |-> FALSE]
  /\ assessments' = assessments \cup {row}
  /\ UNCHANGED <<now, request, chain, events>>

InsertCompanions ==
  /\ ~newest.evidence
  /\ newest' = [newest EXCEPT !.snapshot = TRUE, !.evidence = TRUE]
  /\ UNCHANGED <<now, assessments, request, chain, events>>

\* Time passes, but no abort timer is more than TimerLag late.
Tick ==
  /\ now < MaxTime
  /\ \A r \in Requests : pc[r] \in Calling => now < since[r] + Limit[pc[r]] + TimerLag
  /\ now' = now + 1
  /\ UNCHANGED <<database, request, chain, events>>

\* The bounded clock has run out and every request is over.
Quiescent ==
  /\ now = MaxTime /\ \A r \in Requests : pc[r] \notin Calling
  /\ UNCHANGED vars

------------------------------------------------------------------------------
Handler(r) ==
  \/ BadRequest(r)
  \/ \E a \in Authorizations \cup {NoAuthorization} : Arrive(r, a)
  \/ ReadReturns(r) \/ SupportedReturns(r)
  \/ VerifyRefuses(r) \/ VerifyAccepts(r) \/ SettleReturns(r)
  \/ CallFails(r) \/ Dropped(r)

Environment(r) ==
  \/ DatabaseAnswers(r)
  \/ FacilitatorTransfers(r) \/ FacilitatorReplays(r)
  \/ FacilitatorRefuses(r) \/ FacilitatorPends(r) \/ SettleCallLost(r)
  \/ RecordEvent(r) \/ LoseEvent(r)

Next ==
  \/ \E r \in Requests : Handler(r) \/ Environment(r)
  \/ \E lag \in ObservationLags, complete \in BOOLEAN : InsertAssessment(lag, complete)
  \/ InsertCompanions \/ Tick \/ Quiescent

\* Time passes and an abort timer that is due fires: nothing else is owed.
Fairness ==
  /\ WF_vars(Tick)
  /\ \A r \in Requests : WF_vars(Overdue(r) /\ CallFails(r))

Spec == Init /\ [][Next]_vars /\ Fairness

------------------------------------------------------------------------------
(* What is required of it. *)

Codes == {0, 200, 402, 422, 503}
Reasons == {"none", "paid", "required", "invalid", "unavailable", "validity",
            "expired", "failed"}

DatabaseResults ==
  [assessment_id : Nat, status : {"OK", "DEGRADED", "STALE", "UNKNOWN"},
   freshness_status : Levels,
   reason : {"none", "NO_ASSESSMENT", "INCOMPLETE_PUBLICATION", "INVALID_PUBLICATION",
             "EXPIRED_ASSESSMENT", "ASSESSMENT_UNKNOWN"},
   score : Int, calculated_at : Int, fresh_until : Int, expires_at : Int,
   unknown_after : Int]

\* Every variable keeps its shape.
TypeOK ==
  /\ now \in Nat
  /\ pc \in [Requests -> {"idle"} \cup Calling \cup Final]
  /\ auth \in [Requests -> Authorizations \cup {NoAuthorization}]
  /\ since \in [Requests -> Nat]
  /\ held \in [Requests -> DatabaseResults]
  /\ admission \in [Requests -> [at : Int, expires : Int]]
  /\ answer \in [Requests -> [code : Codes, why : Reasons, at : Int]]
  /\ settlements \subseteq Requests /\ payers \subseteq Requests
  /\ receipt \in [Requests -> {"none", "settled"} \cup Unsuccessful]
  /\ charged \subseteq Authorizations
  /\ telemetry \subseteq Requests

Answered(r, code) == answer[r].code = code

\* A 200 was paid for, and what it carries is the stored row, unaltered except for
\* the freshness level, which is the policy's at the moment of the reply: checks made
\* before an await are not relied on after it (payment.ts, the three re-validations).
PaidDelivery ==
  \A r \in Requests : Answered(r, 200) =>
    /\ auth[r] \in charged
    /\ \E row \in assessments :
         /\ row.id = held[r].assessment_id
         /\ held[r].score = row.score /\ row.score # NoScore
         /\ held[r].expires_at = row.freshness.expires_at
         /\ held[r].freshness_status = Lower[StatusAt(row.freshness, answer[r].at)]
         /\ answer[r].at < row.freshness.expires_at

\* No transfer happens unless some request presenting that authorization was admitted
\* while its assessment was valid for longer than the whole bounded settle call
\* (payment.ts: "require enough validity for the bounded settlement call").
ChargeOnlyIfAdmitted ==
  \A a \in charged : \E r \in payers :
    /\ auth[r] = a
    /\ admission[r].at # NoTime
    /\ admission[r].at + SettleTimeout < admission[r].expires

\* A buyer is told "expired during settlement", money gone, only if the settle call
\* outlasted its own timeout.
ExpiredOnlyByOverrun ==
  \A r \in Requests : answer[r].why = "expired" =>
    answer[r].at > admission[r].at + SettleTimeout

\* A 402 invites the buyer to sign and pay again.  It goes out while the request's own
\* settle call may still move the money, or after it did, only if the facilitator itself
\* answered that call "not successful": a settle call that times out, fails, comes back
\* with an unmatched receipt or too late for its assessment never ends in a 402
\* (payment.ts, "Settlement unconfirmed", "Assessment expired during settlement").
NoChallengeUnlessDisclaimed ==
  \A r \in Requests : Answered(r, 402) /\ r \in settlements \cup payers =>
    receipt[r] = "pending"

\* What the implementation specification asks of a timeout or settlement_pending after
\* broadcast ("never tell the client to sign a new payment"): no 402 while the request's
\* own settle call may still move the money, nor after it did.
NoChallengeOverOwnSettlement ==
  \A r \in Requests : Answered(r, 402) => r \notin settlements /\ r \notin payers

\* The sales ledger never overstates: a row per transaction, each for a transfer on
\* chain and equal to what a buyer was really sent with a 200 (telemetry.ts event
\* identity, query_events primary key), within the table's CHECK constraints.
EventsMatchSales ==
  /\ \A e \in query_events :
       /\ e.id \in charged
       /\ \E r \in Requests : Answered(r, 200) /\ e = Event(r)
       /\ e.score \in 0..100 /\ e.freshness_status \in {"fresh", "degraded"}
  /\ \A e, f \in query_events : e.id = f.id => e = f

\* While a request runs, what it holds is only ever downgraded: from the database's
\* answer on, no await, no check extends a deadline or brings a score back.
DowngradeOnly ==
  \A r \in Requests :
    pc[r] \in Calling \ {"reading"} => Downgrade(held[r], held'[r])
HeldOnlyDowngraded == [][DowngradeOnly]_vars

\* The promise without the machinery: PayPerQuery, with a request's outcome read off
\* its reply.
Outcome(r) ==
  CASE pc[r] = "idle" -> "new"
    [] pc[r] \in Calling -> "open"
    [] pc[r] = "gone" -> "dropped"
    [] pc[r] = "done" -> CASE answer[r].code = 200 -> "sold"
                           [] answer[r].code = 402 -> "challenged"
                           [] OTHER -> "refused"

Promise == INSTANCE PayPerQuery WITH
  outcome <- [r \in Requests |-> Outcome(r)],
  purse <- auth, orders <- settlements, spent <- payers,
  disclaimed <- {r \in Requests : receipt[r] = "pending"}

\* The request handler with its awaits, timers, drops and late settlements implements
\* PayPerQuery: no reachable interleaving closes a request twice, sells it unpaid or
\* challenges it over an order of its own that nobody disclaimed.
KeepsPromise == Promise!Spec

\* Every accepted request ends: it is answered, or the platform dropped it, even if
\* the database and the facilitator never answer (abort timers, supabase.ts 5 s,
\* facilitator.ts 5 s and 15 s).
EveryRequestEnds == Promise!Closes

------------------------------------------------------------------------------
(* The inductive invariant behind the money properties. *)

Rows ==
  [id : Nat, computed_at : Int,
   freshness : [status : Statuses, evaluated_at : Int, fresh_until : Int,
                expires_at : Int, unknown_after : Int],
   freshness_status : Levels, score : Int]

DatabaseOK ==
  /\ newest \in [assessment : Rows, snapshot : BOOLEAN, evidence : BOOLEAN]
  /\ IsFiniteSet(assessments)

\* The settle call of r went out under an admission with enough validity.
Admitted(r) ==
  /\ admission[r].at # NoTime
  /\ admission[r].at + SettleTimeout < admission[r].expires
  /\ auth[r] # NoAuthorization

\* What a request's stage, its settle call, its receipt and its reply say of each
\* other at every moment, late and lost settlements included.
RequestBooks(r) ==
  /\ pc[r] # "done" => answer[r] = NoAnswer
  /\ pc[r] = "verifying" => auth[r] # NoAuthorization
  /\ pc[r] \in {"idle", "reading", "read", "supported", "verifying"} =>
       r \notin settlements /\ r \notin payers /\ receipt[r] = "none"
  /\ pc[r] = "settling" =>
       /\ Admitted(r) /\ admission[r].expires = held[r].expires_at
       /\ admission[r].at <= now
       /\ Usable(held[r]) /\ ~Invalid(held[r], admission[r].at)
  /\ r \in settlements \cup payers \/ receipt[r] # "none" => Admitted(r)
  /\ receipt[r] \in {"settled", "refused"} \/ r \in payers => r \notin settlements
  /\ receipt[r] = "refused" => r \notin payers
  /\ answer[r].code = 402 => r \notin settlements \cup payers \/ receipt[r] = "pending"
  /\ answer[r].why = "expired" => answer[r].at > admission[r].at + SettleTimeout

SettlementBooks ==
  /\ \A r \in Requests : RequestBooks(r)
  /\ \A a \in charged : \E r \in payers : auth[r] = a
=============================================================================
