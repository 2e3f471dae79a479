--------------------------- MODULE PaidQueryProofs ---------------------------
(***************************************************************************)
(* Theorems about PaidQuery for every set of requests and authorizations,   *)
(* every timeout, timer lag, age policy and number of publications.         *)
(***************************************************************************)
EXTENDS PaidQuery, AssessmentProofs, FiniteSetTheorems

------------------------------------------------------------------------------
(* The operators the handlers are built from. *)

\* The age policy returns a level of the policy.
LEMMA AgeStatusType ==
  ASSUME NEW age \in Int
  PROVE  AgeStatus(age) \in Statuses
BY DEF AgeStatus, Statuses

\* An assessment made from integers has the shape of a stored row
\* (scoring_v01.assess_snapshot).
LEMMA AssessType ==
  ASSUME NEW id \in Nat, NEW observed \in Int, NEW at \in Int, NEW complete \in BOOLEAN
  PROVE  Assess(id, observed, at, 50, complete) \in Rows
<1> DEFINE s == AgeStatus(at - observed)
<1>1. s \in Statuses BY AgeStatusType
<1>2. SnapshotFreshness(observed, at) \in
        [status : Statuses, evaluated_at : Int, fresh_until : Int,
         expires_at : Int, unknown_after : Int]
  BY <1>1, AgeAssumption DEF SnapshotFreshness, NoTime, Step
<1>3. Lower[SnapshotFreshness(observed, at).status] \in Levels
  BY <1>1 DEF SnapshotFreshness, Lower, Levels, Statuses
<1> QED BY <1>2, <1>3 DEF Assess, Rows, NoScore

\* The database function answers in its documented shape, whatever is stored.
LEMMA DatabaseResultType ==
  ASSUME NEW p \in [assessment : Rows, snapshot : BOOLEAN, evidence : BOOLEAN],
         NEW t \in Int
  PROVE  DatabaseResult(p, t) \in DatabaseResults
<1> DEFINE a == p.assessment
<1>1. a \in Rows OBVIOUS
<1>2. \A reason \in {"NO_ASSESSMENT", "INCOMPLETE_PUBLICATION", "INVALID_PUBLICATION"} :
        Unavailable(reason) \in DatabaseResults
  BY DEF Unavailable, DatabaseResults, Levels, NoId, NoScore, NoTime
<1>3. DeliveredFreshness(a, t) \in Levels
  BY DEF DeliveredFreshness, Levels
<1>4. Projection(a, t) \in DatabaseResults
  BY <1>1, <1>3 DEF Projection, DatabaseResults, Rows, NoScore
<1>5. DatabaseResult(p, t) \in
        {Unavailable("NO_ASSESSMENT"), Unavailable("INCOMPLETE_PUBLICATION"),
         Unavailable("INVALID_PUBLICATION"), Projection(a, t)}
  BY DEF DatabaseResult
<1> QED BY <1>2, <1>4, <1>5

\* A delivery-time check keeps the shape and the deadline of what it is given.
LEMMA ValidateType ==
  ASSUME NEW a \in DatabaseResults, NEW t \in Int
  PROVE  /\ ValidateAssessment(a, t) \in DatabaseResults
         /\ ValidateAssessment(a, t).expires_at = a.expires_at
<1>1. ASSUME NEW st \in {"STALE", "UNKNOWN"}, NEW fr \in Levels
      PROVE  Mask(a, st, fr) \in DatabaseResults /\ Mask(a, st, fr).expires_at = a.expires_at
  <2> DEFINE m == [a EXCEPT !.status = st, !.freshness_status = fr]
  <2>1. m \in DatabaseResults /\ m.expires_at = a.expires_at
    BY DEF DatabaseResults
  <2>2. Mask(a, st, fr) = [m EXCEPT !.reason = "EXPIRED_ASSESSMENT", !.score = NoScore]
    BY DEF Mask
  <2>3. NoScore \in Int BY DEF NoScore
  <2> HIDE DEF m
  <2> QED BY <2>1, <2>2, <2>3 DEF DatabaseResults
<1> DEFINE d == [a EXCEPT !.status = IF a.status = "OK" THEN "DEGRADED" ELSE a.status,
                          !.freshness_status = "degraded"]
<1>2. d \in DatabaseResults /\ d.expires_at = a.expires_at
  BY DEF DatabaseResults, Levels
<1>3. ValidateAssessment(a, t) \in
        {Mask(a, "UNKNOWN", "unknown"), Mask(a, "UNKNOWN", "stale"),
         Mask(a, "STALE", "stale"), d, a}
  BY DEF ValidateAssessment
<1> QED BY <1>1, <1>2, <1>3 DEF Levels

\* What can be sold at t has not expired at t, masked and unmasked results alike.
LEMMA SellableBeforeExpiry ==
  ASSUME NEW a \in DatabaseResults, NEW t \in Int, Sellable(a, t)
  PROVE  t < a.expires_at
<1>1. Actionable(a) /\ ~(a.expires_at # NoTime /\ t >= a.expires_at)
  BY DEF Sellable, ValidateAssessment, Usable, Actionable, Mask, DatabaseResults
<1>2. a.expires_at # NoTime
  BY <1>1 DEF Sellable, Invalid
<1> QED BY <1>1, <1>2 DEF DatabaseResults

\* What can be sold later can be sold now, if it is not from the future.
LEMMA SellableEarlier ==
  ASSUME NEW a \in DatabaseResults, NEW t \in Int, NEW u \in Int, t <= u,
         Sellable(a, u), ~Invalid(a, t)
  PROVE  Sellable(a, t)
BY SellableBeforeExpiry
DEF Sellable, ValidateAssessment, Usable, Actionable, Mask, DatabaseResults

\* What a check leaves usable passes the same check again.
LEMMA SellableStable ==
  ASSUME NEW a \in DatabaseResults, NEW t \in Int, Sellable(a, t)
  PROVE  /\ Usable(ValidateAssessment(a, t))
         /\ ~Invalid(ValidateAssessment(a, t), t)
<1> DEFINE d == [a EXCEPT !.status = IF a.status = "OK" THEN "DEGRADED" ELSE a.status,
                          !.freshness_status = "degraded"]
<1>1. Usable(ValidateAssessment(a, t)) /\ ~Invalid(a, t)
  BY DEF Sellable
<1>2. CASE ValidateAssessment(a, t) = a
  BY <1>1, <1>2
<1>3. CASE ValidateAssessment(a, t) = d
  <2>1. /\ d.status = "DEGRADED" /\ d.freshness_status = "degraded"
        /\ Actionable(a)
        /\ d.assessment_id = a.assessment_id /\ d.reason = a.reason /\ d.score = a.score
        /\ d.calculated_at = a.calculated_at /\ d.fresh_until = a.fresh_until
        /\ d.expires_at = a.expires_at /\ d.unknown_after = a.unknown_after
    BY <1>1, <1>3 DEF Usable, Actionable, DatabaseResults
  <2> HIDE DEF d
  <2> QED BY <1>1, <1>3, <2>1 DEF Invalid, Actionable
<1>4. ValidateAssessment(a, t) \in
        {Mask(a, "UNKNOWN", "unknown"), Mask(a, "UNKNOWN", "stale"),
         Mask(a, "STALE", "stale"), d, a}
  BY DEF ValidateAssessment
<1>5. \A st \in {"STALE", "UNKNOWN"}, fr \in Levels : ~Usable(Mask(a, st, fr))
  BY DEF Mask, Usable, Actionable, DatabaseResults
<1> QED BY <1>1, <1>2, <1>3, <1>4, <1>5 DEF Levels

\* A usable assessment that was in order when admitted stops being sellable only by
\* expiring.
LEMMA UnsellableOnlyByExpiry ==
  ASSUME NEW a \in DatabaseResults, NEW t \in Int, NEW u \in Int, t <= u,
         Usable(a), ~Invalid(a, t), ~Sellable(a, u)
  PROVE  u >= a.expires_at
BY DEF Sellable, Invalid, ValidateAssessment, Usable, Actionable, Mask, DatabaseResults, NoTime

\* A check only ever downgrades.
LEMMA ValidateDowngrades ==
  ASSUME NEW a \in DatabaseResults, NEW t \in Int
  PROVE  Downgrade(a, a) /\ Downgrade(a, ValidateAssessment(a, t))
<1> DEFINE d == [a EXCEPT !.status = IF a.status = "OK" THEN "DEGRADED" ELSE a.status,
                          !.freshness_status = "degraded"]
<1>1. Severity[a.freshness_status] \in Int
  BY DEF Severity, DatabaseResults, Levels
<1>2. Downgrade(a, a)
  BY <1>1 DEF Downgrade
<1>3. ASSUME NEW st \in {"STALE", "UNKNOWN"}, NEW fr \in Levels
      PROVE  Downgrade(a, Mask(a, st, fr))
  BY DEF Mask, Downgrade, Usable, Actionable, DatabaseResults
<1>4. a.freshness_status = "fresh" => Downgrade(a, d)
  BY DEF Downgrade, Usable, Actionable, DatabaseResults, Severity
<1>5. \/ ValidateAssessment(a, t) \in
           {Mask(a, "UNKNOWN", "unknown"), Mask(a, "UNKNOWN", "stale"),
            Mask(a, "STALE", "stale"), a}
      \/ ValidateAssessment(a, t) = d /\ a.freshness_status = "fresh"
  BY DEF ValidateAssessment
<1> HIDE DEF d
<1> QED BY <1>2, <1>3, <1>4, <1>5 DEF Levels

------------------------------------------------------------------------------
(* Types. *)

Typed == TypeOK /\ DatabaseOK

\* Giving a reply, starting a call and replacing the held assessment keep the types.
LEMMA SmallStepTypes ==
  ASSUME TypeOK, NEW r \in Requests
  PROVE  /\ \A code \in Codes, why \in Reasons : Reply(r, code, why) =>
              /\ pc' \in [Requests -> {"idle"} \cup Calling \cup Final]
              /\ answer' \in [Requests -> [code : Codes, why : Reasons, at : Int]]
         /\ \A stage \in Calling : Await(r, stage) =>
              /\ pc' \in [Requests -> {"idle"} \cup Calling \cup Final]
              /\ since' \in [Requests -> Nat]
              /\ answer' \in [Requests -> [code : Codes, why : Reasons, at : Int]]
         /\ \A a \in DatabaseResults : Hold(r, a) => held' \in [Requests -> DatabaseResults]
<1> USE DEF TypeOK
<1>1. ASSUME NEW code \in Codes, NEW why \in Reasons, Reply(r, code, why)
      PROVE  /\ pc' \in [Requests -> {"idle"} \cup Calling \cup Final]
             /\ answer' \in [Requests -> [code : Codes, why : Reasons, at : Int]]
  <2>1. [code |-> code, why |-> why, at |-> now] \in [code : Codes, why : Reasons, at : Int]
    OBVIOUS
  <2> QED BY <1>1, <2>1 DEF Reply, Final
<1>2. ASSUME NEW stage \in Calling, Await(r, stage)
      PROVE  /\ pc' \in [Requests -> {"idle"} \cup Calling \cup Final]
             /\ since' \in [Requests -> Nat]
             /\ answer' \in [Requests -> [code : Codes, why : Reasons, at : Int]]
  BY <1>2 DEF Await
<1>3. ASSUME NEW a \in DatabaseResults, Hold(r, a)
      PROVE  held' \in [Requests -> DatabaseResults]
  BY <1>3 DEF Hold
<1> QED BY <1>1, <1>2, <1>3

\* ... and touch one request only.
LEMMA SmallStepEffects ==
  ASSUME TypeOK, NEW r \in Requests
  PROVE  /\ \A code, why : Reply(r, code, why) =>
              /\ pc'[r] = "done"
              /\ answer'[r] = [code |-> code, why |-> why, at |-> now]
              /\ \A q \in Requests : q # r => pc'[q] = pc[q] /\ answer'[q] = answer[q]
         /\ \A stage : Await(r, stage) =>
              /\ pc'[r] = stage
              /\ answer' = answer
              /\ \A q \in Requests : q # r => pc'[q] = pc[q]
BY DEF TypeOK, Reply, Await

\* The initial state has the types.
LEMMA InitTyped == Init => Typed
<1> SUFFICES ASSUME Init PROVE Typed
  OBVIOUS
<1>1. FirstRow \in Rows
  <2>1. 1 \in Nat /\ 0 \in Int /\ TRUE \in BOOLEAN
    OBVIOUS
  <2> QED BY <2>1, AssessType, Zenon DEF FirstRow
<1>2. DatabaseOK
  BY <1>1, FS_Singleton DEF Init, DatabaseOK
<1>3. Unavailable("NO_ASSESSMENT") \in DatabaseResults
  BY DEF Unavailable, DatabaseResults, Levels, NoId, NoScore, NoTime
<1>4. NoAnswer \in [code : Codes, why : Reasons, at : Int]
      /\ NotAdmitted \in [at : Int, expires : Int]
  BY DEF NoAnswer, NotAdmitted, Codes, Reasons, NoTime
<1> QED BY <1>2, <1>3, <1>4 DEF Init, Typed, TypeOK

\* Every step of the Worker, the database, the facilitator and the clock keeps them.
\* (A transfer is of a real authorization only because a settle call is only made
\* for one: that is where the books are needed.)
LEMMA StepTyped == Typed /\ SettlementBooks /\ [Next]_vars => Typed'
<1> SUFFICES ASSUME Typed, SettlementBooks, [Next]_vars PROVE Typed'
  OBVIOUS
<1> USE DEF Typed, TypeOK, DatabaseOK
<1>1. ASSUME NEW r \in Requests, Handler(r) PROVE Typed'
  <2>1. ASSUME BadRequest(r) PROVE Typed'
    BY <2>1, SmallStepTypes DEF BadRequest, Codes, Reasons, database, chain, events
  <2>2. ASSUME NEW a \in Authorizations \cup {NoAuthorization}, Arrive(r, a) PROVE Typed'
    BY <2>2, SmallStepTypes DEF Arrive, Calling, database, chain, events
  <2> DEFINE a == ValidateAssessment(held[r], now)
             answerTypes == answer' \in [Requests -> [code : Codes, why : Reasons, at : Int]]
             pcTypes == pc' \in [Requests -> {"idle"} \cup Calling \cup Final]
  <2>a. a \in DatabaseResults
    BY ValidateType
  <2>b. held[r].expires_at \in Int
    BY DEF DatabaseResults
  <2> HIDE DEF a
  <2>3. ASSUME ReadReturns(r) PROVE Typed'
    <3>1. pcTypes /\ answerTypes /\ since' \in [Requests -> Nat]
          /\ held' \in [Requests -> DatabaseResults]
      <4>1. CASE Sellable(held[r], now)
        BY <2>3, <2>a, <4>1, SmallStepTypes DEF ReadReturns, Calling, a
      <4>2. CASE ~Sellable(held[r], now)
        BY <2>3, <4>2, SmallStepTypes DEF ReadReturns, Codes, Reasons
      <4> QED BY <4>1, <4>2
    <3> QED BY <2>3, <3>1 DEF ReadReturns, database, chain, events
  <2>4. ASSUME SupportedReturns(r) PROVE Typed'
    <3>1. pcTypes /\ answerTypes /\ since' \in [Requests -> Nat]
          /\ held' \in [Requests -> DatabaseResults]
      <4>1. CASE ~Sellable(held[r], now)
        BY <2>4, <4>1, SmallStepTypes DEF SupportedReturns, Codes, Reasons
      <4>2. CASE Sellable(held[r], now) /\ auth[r] = NoAuthorization
        BY <2>4, <2>a, <4>2, SmallStepTypes DEF SupportedReturns, Codes, Reasons, a
      <4>3. CASE Sellable(held[r], now) /\ auth[r] # NoAuthorization
        BY <2>4, <2>a, <4>3, SmallStepTypes DEF SupportedReturns, Calling, a
      <4> QED BY <4>1, <4>2, <4>3
    <3> QED BY <2>4, <3>1 DEF SupportedReturns, database, chain, events
  <2>5. ASSUME VerifyRefuses(r) PROVE Typed'
    BY <2>5, SmallStepTypes DEF VerifyRefuses, Codes, Reasons, database, chain, events
  <2>6. ASSUME VerifyAccepts(r) PROVE Typed'
    <3>1. pcTypes /\ answerTypes /\ since' \in [Requests -> Nat]
          /\ held' \in [Requests -> DatabaseResults]
          /\ admission' \in [Requests -> [at : Int, expires : Int]]
          /\ settlements' \subseteq Requests
      <4>1. CASE SufficientValidity(held[r], now) /\ ~Invalid(held[r], now)
        <5>1. pcTypes /\ answerTypes /\ since' \in [Requests -> Nat]
          BY <2>6, <4>1, SmallStepTypes DEF VerifyAccepts, Calling
        <5>2. held' \in [Requests -> DatabaseResults]
          BY <2>6, <2>a, <4>1, SmallStepTypes DEF VerifyAccepts, a
        <5>3. [at |-> now, expires |-> held[r].expires_at] \in [at : Int, expires : Int]
          BY <2>b
        <5>4. admission' \in [Requests -> [at : Int, expires : Int]]
          BY <2>6, <4>1, <5>3 DEF VerifyAccepts
        <5>5. settlements' \subseteq Requests
          BY <2>6, <4>1 DEF VerifyAccepts
        <5> QED BY <5>1, <5>2, <5>4, <5>5
      <4>2. CASE ~(SufficientValidity(held[r], now) /\ ~Invalid(held[r], now))
        BY <2>6, <4>2, SmallStepTypes DEF VerifyAccepts, Codes, Reasons
      <4> QED BY <4>1, <4>2
    <3> QED BY <2>6, <3>1 DEF VerifyAccepts, database, events
  <2>7. ASSUME SettleReturns(r) PROVE Typed'
    <3>1. pcTypes /\ answerTypes /\ held' \in [Requests -> DatabaseResults]
          /\ telemetry' \subseteq Requests
      <4>1. CASE receipt[r] \in Unsuccessful
        <5>1. Reply(r, 402, "required") /\ UNCHANGED <<held, telemetry>>
          BY <2>7, <4>1 DEF SettleReturns, Unsuccessful
        <5> QED BY <5>1, SmallStepTypes DEF Codes, Reasons
      <4>2. CASE receipt[r] = "settled" /\ ~Sellable(held[r], now)
        BY <2>7, <4>2, SmallStepTypes DEF SettleReturns, Codes, Reasons, Unsuccessful
      <4>3. CASE receipt[r] = "settled" /\ Sellable(held[r], now)
        BY <2>7, <2>a, <4>3, SmallStepTypes DEF SettleReturns, Codes, Reasons, Unsuccessful, a
      <4> QED BY <2>7, <4>1, <4>2, <4>3 DEF SettleReturns
    <3> QED BY <2>7, <3>1 DEF SettleReturns, database, chain
  <2>8. ASSUME CallFails(r) PROVE Typed'
    BY <2>8, SmallStepTypes DEF CallFails, Codes, Reasons, database, chain, events
  <2>9. ASSUME Dropped(r) PROVE Typed'
    BY <2>9 DEF Dropped, Final, database, chain, events
  <2> QED BY <1>1, <2>1, <2>2, <2>3, <2>4, <2>5, <2>6, <2>7, <2>8, <2>9 DEF Handler
<1>2. ASSUME NEW r \in Requests, Environment(r) PROVE Typed'
  <2>1. ASSUME DatabaseAnswers(r) PROVE Typed'
    <3>1. DatabaseResult(newest, now) \in DatabaseResults
      BY DatabaseResultType
    <3>2. held' \in [Requests -> DatabaseResults]
      BY <2>1, <3>1, SmallStepTypes DEF DatabaseAnswers
    <3> QED BY <2>1, <3>2 DEF DatabaseAnswers, Calling, database, chain, events
  <2>2. ASSUME FacilitatorTransfers(r) \/ FacilitatorReplays(r)
               \/ FacilitatorRefuses(r) \/ FacilitatorPends(r) \/ SettleCallLost(r)
        PROVE  Typed'
    <3>1. UNCHANGED <<now, database, request, events>>
      BY <2>2 DEF FacilitatorTransfers, FacilitatorReplays, FacilitatorRefuses,
                  FacilitatorPends, SettleCallLost
    <3>2. settlements' \subseteq Requests /\ payers' \subseteq Requests
          /\ receipt' \in [Requests -> {"none", "settled"} \cup Unsuccessful]
      BY <2>2 DEF FacilitatorTransfers, FacilitatorReplays, FacilitatorRefuses,
                  FacilitatorPends, SettleCallLost, Unsuccessful
    <3>3. auth[r] \in Authorizations
      BY <2>2 DEF SettlementBooks, RequestBooks, Admitted, FacilitatorTransfers,
                  FacilitatorReplays, FacilitatorRefuses, FacilitatorPends, SettleCallLost
    <3> QED BY <3>1, <3>2, <3>3, <2>2
            DEF database, request, events, FacilitatorTransfers, FacilitatorReplays,
                FacilitatorRefuses, FacilitatorPends, SettleCallLost
  <2>3. ASSUME RecordEvent(r) \/ LoseEvent(r) PROVE Typed'
    BY <2>3 DEF RecordEvent, LoseEvent, database, request, chain
  <2> QED BY <1>2, <2>1, <2>2, <2>3 DEF Environment
<1>3. ASSUME NEW lag \in ObservationLags, NEW complete \in BOOLEAN,
             InsertAssessment(lag, complete)
      PROVE  Typed'
  <2> DEFINE row == Assess(Cardinality(assessments) + 1, now - lag, now, 50, complete)
  <2>1. lag \in Nat
    BY PaidQueryAssumption
  <2>2. Cardinality(assessments) + 1 \in Nat
    BY FS_CardinalityType
  <2>3. row \in Rows
    BY <2>1, <2>2, AssessType
  <2>4. IsFiniteSet(assessments \cup {row})
    BY FS_AddElement
  <2> QED BY <1>3, <2>3, <2>4 DEF InsertAssessment, request, chain, events
<1>4. CASE InsertCompanions
  BY <1>4 DEF InsertCompanions, request, chain, events
<1>5. CASE Tick
  BY <1>5 DEF Tick, database, request, chain, events
<1>6. CASE UNCHANGED vars
  BY <1>6 DEF vars, database, request, chain, events
<1> QED BY <1>1, <1>2, <1>3, <1>4, <1>5, <1>6 DEF Next, Quiescent

------------------------------------------------------------------------------
(* The books.  A step of request r disturbs the books of r only.            *)

LEMMA BooksUntouched ==
  ASSUME NEW q \in Requests, RequestBooks(q),
         pc'[q] = pc[q], auth'[q] = auth[q], receipt'[q] = receipt[q],
         admission'[q] = admission[q], answer'[q] = answer[q],
         held'[q] = held[q] \/ pc[q] # "settling",
         now \in Int, now' \in Int, now <= now', admission[q].at \in Int,
         q \in settlements' <=> q \in settlements,
         q \in payers' <=> q \in payers
  PROVE  RequestBooks(q)'
BY DEF RequestBooks, Admitted

LEMMA InitBooks == Init => SettlementBooks
BY DEF Init, SettlementBooks, RequestBooks, NoAnswer

\* A step of the request handler keeps the books.
LEMMA HandlerBooks ==
  ASSUME Typed, SettlementBooks, NEW r \in Requests, Handler(r)
  PROVE  SettlementBooks'
<1> USE DEF Typed, TypeOK
<1> DEFINE old == held[r]
           new == ValidateAssessment(held[r], now)
<1>a. RequestBooks(r) /\ old \in DatabaseResults
  BY DEF SettlementBooks
<1>b. new.expires_at = old.expires_at
  BY <1>a, ValidateType
<1>c. now \in Int /\ now # NoTime
  BY DEF NoTime
<1> HIDE DEF new
<1>1. ASSUME NEW q \in Requests, q # r PROVE RequestBooks(q)'
  <2>1. RequestBooks(q) /\ admission[q].at \in Int BY DEF SettlementBooks
  <2>2. now' = now
    BY DEF Handler, BadRequest, Arrive, ReadReturns, SupportedReturns, VerifyRefuses,
           VerifyAccepts, SettleReturns, CallFails, Dropped
  <2>3. pc'[q] = pc[q] /\ answer'[q] = answer[q]
    <3>1. \/ \E code, why : Reply(r, code, why)
          \/ \E stage : Await(r, stage)
          \/ Dropped(r)
      <4>1. CASE SettleReturns(r)
        BY <4>1 DEF SettleReturns
      <4>2. CASE BadRequest(r) \/ VerifyRefuses(r) \/ CallFails(r)
        BY <4>2 DEF BadRequest, VerifyRefuses, CallFails
      <4>3. CASE \E a \in Authorizations \cup {NoAuthorization} : Arrive(r, a)
        BY <4>3 DEF Arrive
      <4>4. CASE ReadReturns(r) \/ SupportedReturns(r) \/ VerifyAccepts(r)
        BY <4>4 DEF ReadReturns, SupportedReturns, VerifyAccepts
      <4> QED BY <4>1, <4>2, <4>3, <4>4 DEF Handler
    <3> QED BY <1>1, <3>1, SmallStepEffects DEF Dropped
  <2>4. auth'[q] = auth[q] /\ admission'[q] = admission[q]
    BY <1>1 DEF Handler, BadRequest, Arrive, ReadReturns, SupportedReturns, VerifyRefuses,
                VerifyAccepts, SettleReturns, CallFails, Dropped
  <2>5. held'[q] = held[q]
    BY <1>1 DEF Handler, BadRequest, Arrive, ReadReturns, SupportedReturns, VerifyRefuses,
                VerifyAccepts, SettleReturns, CallFails, Dropped, Hold
  <2>6. receipt' = receipt /\ payers' = payers /\ (q \in settlements' <=> q \in settlements)
    BY <1>1 DEF Handler, BadRequest, Arrive, ReadReturns, SupportedReturns, VerifyRefuses,
                VerifyAccepts, SettleReturns, CallFails, Dropped, chain
  <2> QED BY <2>1, <2>2, <2>3, <2>4, <2>5, <2>6, BooksUntouched
<1>2. charged' = charged /\ payers' = payers /\ receipt' = receipt
  BY DEF Handler, BadRequest, Arrive, ReadReturns, SupportedReturns, VerifyRefuses,
         VerifyAccepts, SettleReturns, CallFails, Dropped, chain
<1>3. \A q \in payers : auth'[q] = auth[q]
  BY <1>a DEF Handler, BadRequest, Arrive, ReadReturns, SupportedReturns, VerifyRefuses,
         VerifyAccepts, SettleReturns, CallFails, Dropped, RequestBooks
<1>4. RequestBooks(r)'
  <2>1. CASE BadRequest(r)
    BY <2>1, <1>a DEF BadRequest, Reply, chain, RequestBooks, Admitted, NoAnswer
  <2>2. ASSUME NEW a \in Authorizations \cup {NoAuthorization}, Arrive(r, a)
        PROVE  RequestBooks(r)'
    BY <2>2, <1>a DEF Arrive, Await, chain, RequestBooks, Admitted, NoAnswer
  <2>3. CASE ReadReturns(r)
    BY <2>3, <1>a DEF ReadReturns, Reply, Await, chain, RequestBooks, Admitted, NoAnswer
  <2>4. CASE SupportedReturns(r)
    BY <2>4, <1>a DEF SupportedReturns, Reply, Await, chain, RequestBooks, Admitted, NoAnswer
  <2>5. CASE VerifyRefuses(r)
    BY <2>5, <1>a DEF VerifyRefuses, Reply, chain, RequestBooks, Admitted, NoAnswer
  <2>6. CASE VerifyAccepts(r)
    <3>1. CASE SufficientValidity(old, now) /\ ~Invalid(old, now)
      <4>1. now + SettleTimeout < old.expires_at
        BY <3>1, <1>a, <1>c, PaidQueryAssumption, SellableBeforeExpiry DEF SufficientValidity
      <4>2. Sellable(old, now)
        BY <3>1, <1>a, <1>c, PaidQueryAssumption, SellableEarlier DEF SufficientValidity
      <4>3. Usable(new) /\ ~Invalid(new, now)
        BY <4>2, <1>a, <1>c, SellableStable DEF new
      <4>4. /\ pc[r] = "verifying" /\ pc'[r] = "settling" /\ held'[r] = new
            /\ admission'[r] = [at |-> now, expires |-> old.expires_at]
            /\ auth' = auth /\ receipt' = receipt /\ payers' = payers /\ answer' = answer
            /\ r \in settlements' /\ now' = now
        BY <2>6, <3>1 DEF VerifyAccepts, Await, Hold, new
      <4>5. Admitted(r)'
        BY <4>1, <4>4, <1>a, <1>c DEF Admitted, RequestBooks
      <4>6. admission'[r].at = now /\ admission'[r].expires = held'[r].expires_at
        BY <4>4, <1>b
      <4> QED BY <4>3, <4>4, <4>5, <4>6, <1>a, <1>c DEF RequestBooks, NoAnswer
    <3>2. CASE ~(SufficientValidity(old, now) /\ ~Invalid(old, now))
      BY <2>6, <3>2, <1>a DEF VerifyAccepts, Reply, RequestBooks, Admitted, NoAnswer
    <3> QED BY <3>1, <3>2
  <2>7. CASE SettleReturns(r)
    <3>1. /\ pc[r] = "settling" /\ pc'[r] = "done" /\ receipt[r] # "none"
          /\ auth' = auth /\ admission' = admission /\ now' = now
          /\ receipt' = receipt /\ payers' = payers /\ settlements' = settlements
      BY <2>7 DEF SettleReturns, Reply, chain
    <3>2. Admitted(r)'
      BY <3>1, <1>a DEF RequestBooks, Admitted
    <3>a. \/ receipt[r] \in Unsuccessful /\ Reply(r, 402, "required")
          \/ ~Sellable(old, now) /\ Reply(r, 503, "expired")
          \/ Reply(r, 200, "paid")
      BY <2>7 DEF SettleReturns
    <3>b. \/ /\ receipt[r] \in Unsuccessful
             /\ answer'[r] = [code |-> 402, why |-> "required", at |-> now]
          \/ ~Sellable(old, now) /\ answer'[r] = [code |-> 503, why |-> "expired", at |-> now]
          \/ answer'[r] = [code |-> 200, why |-> "paid", at |-> now]
      <4>1. ASSUME NEW code, NEW why, Reply(r, code, why)
            PROVE  answer'[r] = [code |-> code, why |-> why, at |-> now]
        BY <4>1 DEF Reply
      <4>2. CASE receipt[r] \in Unsuccessful /\ Reply(r, 402, "required")
        BY <4>1, <4>2
      <4>3. CASE ~Sellable(old, now) /\ Reply(r, 503, "expired")
        BY <4>1, <4>3
      <4>4. CASE Reply(r, 200, "paid")
        BY <4>1, <4>4
      <4> QED BY <3>a, <4>2, <4>3, <4>4
    <3>3. answer'[r].code = 402 => r \notin settlements \cup payers \/ receipt[r] = "pending"
      <4>1. answer'[r].code = 402 => receipt[r] \in Unsuccessful
        BY <3>b
      <4> QED
        BY <4>1, <1>a DEF RequestBooks, Unsuccessful
    <3>4. answer'[r].why = "expired" => answer'[r].at = now /\ ~Sellable(old, now)
      BY <3>b
    <3>5. answer'[r].why = "expired" => now >= old.expires_at
      BY <3>1, <3>4, <1>a, <1>c, UnsellableOnlyByExpiry DEF RequestBooks
    <3>6. answer'[r].why = "expired" => answer'[r].at > admission[r].at + SettleTimeout
      BY <3>1, <3>4, <3>5, <1>a, <1>c, PaidQueryAssumption
      DEF RequestBooks, Admitted, DatabaseResults
    <3> QED BY <3>1, <3>2, <3>3, <3>6, <1>a DEF RequestBooks
  <2>8. CASE CallFails(r)
    BY <2>8, <1>a DEF CallFails, Calling, Reply, chain, RequestBooks, Admitted, NoAnswer
  <2>9. CASE Dropped(r)
    BY <2>9, <1>a DEF Dropped, Calling, chain, RequestBooks, Admitted
  <2> QED BY <2>1, <2>2, <2>3, <2>4, <2>5, <2>6, <2>7, <2>8, <2>9 DEF Handler
<1>5. \A a \in charged' : \E q \in payers' : auth'[q] = a
  BY <1>2, <1>3 DEF SettlementBooks
<1> QED BY <1>1, <1>4, <1>5 DEF SettlementBooks

\* Nor does a step of the facilitator, the database or the telemetry.
LEMMA EnvironmentBooks ==
  ASSUME Typed, SettlementBooks, NEW r \in Requests, Environment(r)
  PROVE  SettlementBooks'
<1> USE DEF Typed, TypeOK
<1>1. RequestBooks(r) BY DEF SettlementBooks
<1>2. CASE DatabaseAnswers(r)
  <2>1. ASSUME NEW q \in Requests, q # r PROVE RequestBooks(q)'
    <3>1. RequestBooks(q) BY DEF SettlementBooks
    <3> QED BY <1>2, <2>1, <3>1, BooksUntouched DEF DatabaseAnswers, Hold, chain
  <2>2. RequestBooks(r)'
    BY <1>1, <1>2 DEF DatabaseAnswers, chain, RequestBooks, Admitted
  <2> QED BY <1>2, <2>1, <2>2 DEF DatabaseAnswers, SettlementBooks, chain
<1>3. ASSUME FacilitatorTransfers(r) \/ FacilitatorReplays(r)
             \/ FacilitatorRefuses(r) \/ FacilitatorPends(r) \/ SettleCallLost(r)
      PROVE  SettlementBooks'
  <2>1. UNCHANGED <<now, request>> /\ r \in settlements
    BY <1>3 DEF FacilitatorTransfers, FacilitatorReplays, FacilitatorRefuses,
                FacilitatorPends, SettleCallLost
  <2>2. receipt[r] \in {"none", "pending"} /\ r \notin payers /\ Admitted(r)
        /\ (answer[r].code = 402 => receipt[r] = "pending")
    BY <1>1, <2>1 DEF RequestBooks, Unsuccessful
  <2>3. \/ /\ payers' = payers /\ charged' = charged /\ settlements' = settlements \ {r}
           /\ \/ receipt' = receipt
              \/ receipt[r] = "none" /\ receipt'[r] \in {"settled", "refused"}
        \/ /\ payers' = payers \cup {r} /\ charged' = charged \cup {auth[r]}
           /\ settlements' = settlements \ {r}
           /\ receipt'[r] = IF receipt[r] = "none" THEN "settled" ELSE receipt[r]
        \/ /\ payers' = payers /\ charged' = charged /\ settlements' = settlements
           /\ receipt[r] = "none" /\ receipt'[r] = "pending"
    BY <1>3 DEF FacilitatorTransfers, FacilitatorReplays, FacilitatorRefuses,
                FacilitatorPends, SettleCallLost
  <2>4. ASSUME NEW q \in Requests, q # r PROVE RequestBooks(q)'
    <3>1. RequestBooks(q) BY DEF SettlementBooks
    <3>2. receipt'[q] = receipt[q]
      BY <1>3, <2>4 DEF FacilitatorTransfers, FacilitatorReplays, FacilitatorRefuses,
                        FacilitatorPends, SettleCallLost
    <3> QED BY <2>1, <2>3, <2>4, <3>1, <3>2, BooksUntouched DEF request
  <2>5. RequestBooks(r)'
    BY <1>1, <2>1, <2>2, <2>3 DEF request, RequestBooks, Admitted
  <2>6. \A a \in charged' : \E q \in payers' : auth'[q] = a
    BY <2>1, <2>3 DEF SettlementBooks, request
  <2> QED BY <2>4, <2>5, <2>6 DEF SettlementBooks
<1>4. ASSUME RecordEvent(r) \/ LoseEvent(r) PROVE SettlementBooks'
  <2>1. UNCHANGED <<now, request, chain>>
    BY <1>4 DEF RecordEvent, LoseEvent
  <2> QED BY <2>1 DEF request, chain, SettlementBooks, RequestBooks, Admitted
<1> QED BY <1>2, <1>3, <1>4 DEF Environment

\* Every step keeps the books.
LEMMA StepBooks == Typed /\ SettlementBooks /\ [Next]_vars => SettlementBooks'
<1> SUFFICES ASSUME Typed, SettlementBooks, [Next]_vars PROVE SettlementBooks'
  OBVIOUS
<1>1. CASE \E r \in Requests : Handler(r) \/ Environment(r)
  BY <1>1, HandlerBooks, EnvironmentBooks
<1>2. ASSUME UNCHANGED <<now, request, chain>> PROVE SettlementBooks'
  BY <1>2 DEF request, chain, SettlementBooks, RequestBooks, Admitted
<1>3. CASE Tick
  <2>1. now \in Int /\ now' = now + 1 /\ UNCHANGED <<request, chain>>
    BY <1>3 DEF Tick, Typed, TypeOK
  <2>2. ASSUME NEW q \in Requests PROVE RequestBooks(q)'
    <3>1. RequestBooks(q) /\ admission[q].at \in Int
      BY DEF SettlementBooks, Typed, TypeOK
    <3> QED BY <2>1, <3>1, BooksUntouched DEF request, chain
  <2> QED BY <2>1, <2>2 DEF SettlementBooks, request, chain
<1>4. CASE \E lag \in ObservationLags, complete \in BOOLEAN : InsertAssessment(lag, complete)
  BY <1>2, <1>4 DEF InsertAssessment
<1>5. CASE InsertCompanions
  BY <1>2, <1>5 DEF InsertCompanions
<1>6. CASE UNCHANGED vars
  BY <1>2, <1>6 DEF vars
<1> QED BY <1>1, <1>3, <1>4, <1>5, <1>6 DEF Next, Quiescent

\* The types and the books hold in every reachable state: the inductive invariant.
THEOREM Invariance == Spec => [](Typed /\ SettlementBooks)
BY InitTyped, StepTyped, InitBooks, StepBooks, PTL DEF Spec

------------------------------------------------------------------------------
(* What follows from them. *)

\* TypeOK holds in every reachable state of the paid endpoint.
THEOREM TypesHold == Spec => []TypeOK
<1>1. Typed => TypeOK BY DEF Typed
<1> QED BY <1>1, Invariance, PTL

\* SettlementBooks: what a request's stage, settle call, receipt and reply say of
\* each other agrees in every reachable state, late and lost settlements included.
THEOREM BooksHold == Spec => []SettlementBooks
BY Invariance, PTL

\* ChargeOnlyIfAdmitted: no transfer without an admission whose assessment outlives
\* the bounded settle call, for any timeout, lag and number of requests.
THEOREM ChargesAreAdmitted == Spec => []ChargeOnlyIfAdmitted
<1>1. Typed /\ SettlementBooks => ChargeOnlyIfAdmitted
  BY DEF Typed, TypeOK, SettlementBooks, RequestBooks, Admitted, ChargeOnlyIfAdmitted
<1> QED BY <1>1, Invariance, PTL

\* NoChallengeUnlessDisclaimed: over a settle call that may still move the money, or
\* did, a 402 goes out only if the facilitator answered that call "not successful" and
\* left it pending; silence, failures, timeouts and late successes never lead to one.
THEOREM ChallengesAreSafe == Spec => []NoChallengeUnlessDisclaimed
<1>1. SettlementBooks => NoChallengeUnlessDisclaimed
  BY DEF SettlementBooks, RequestBooks, NoChallengeUnlessDisclaimed, Answered
<1> QED BY <1>1, Invariance, PTL

\* ExpiredOnlyByOverrun: an assessment admitted to settlement is refused as expired
\* only after the settle call outlasted its timeout, however late timers fire.
THEOREM ExpiryIsOverrun == Spec => []ExpiredOnlyByOverrun
<1>1. SettlementBooks => ExpiredOnlyByOverrun
  BY DEF SettlementBooks, RequestBooks, ExpiredOnlyByOverrun
<1> QED BY <1>1, Invariance, PTL

\* HeldOnlyDowngraded: from the database's answer on, no step of anyone upgrades what
\* a request holds, moves its deadlines or brings a score back.
THEOREM NeverUpgradedInFlight == Spec => HeldOnlyDowngraded
<1>1. Typed /\ [Next]_vars => [DowngradeOnly]_vars
  <2> SUFFICES ASSUME Typed, Next, NEW r \in Requests, pc[r] \in Calling \ {"reading"}
               PROVE  Downgrade(held[r], held'[r])
    BY DEF DowngradeOnly
  <2> USE DEF Typed, TypeOK
  <2>1. Downgrade(held[r], held[r]) /\ Downgrade(held[r], ValidateAssessment(held[r], now))
    BY ValidateDowngrades
  <2>2. held'[r] \in {held[r], ValidateAssessment(held[r], now)}
    <3>1. ASSUME NEW q \in Requests, Handler(q)
          PROVE  held'[r] \in {held[r], ValidateAssessment(held[r], now)}
      BY <3>1 DEF Handler, BadRequest, Arrive, ReadReturns, SupportedReturns, VerifyRefuses,
                  VerifyAccepts, SettleReturns, CallFails, Dropped, Hold
    <3>2. ASSUME NEW q \in Requests, Environment(q) PROVE held'[r] = held[r]
      BY <3>2 DEF Environment, DatabaseAnswers, FacilitatorTransfers, FacilitatorReplays,
                  FacilitatorRefuses, FacilitatorPends, SettleCallLost, RecordEvent,
                  LoseEvent, Hold, request
    <3>3. CASE UNCHANGED request \/ Tick \/ InsertCompanions
               \/ \E lag \in ObservationLags, complete \in BOOLEAN :
                    InsertAssessment(lag, complete)
      BY <3>3 DEF Tick, InsertCompanions, InsertAssessment, request
    <3> QED BY <3>1, <3>2, <3>3 DEF Next, Quiescent, vars
  <2> QED BY <2>1, <2>2
<1> QED BY <1>1, Invariance, PTL DEF Spec, HeldOnlyDowngraded

------------------------------------------------------------------------------
(* What is sold. *)

\* A row as the ingestion stores it.
Issued(row) ==
  \E id \in Nat \ {0}, b \in Nat, at \in Int, complete \in BOOLEAN :
    b <= at /\ row = Assess(id, b, at, 50, complete)

\* An assessment carries a row at t: its name, score and deadlines, and the level the
\* policy gives it then.
Carries(h, row, t) ==
  /\ h.assessment_id = row.id /\ h.score = row.score /\ row.score # NoScore
  /\ h.fresh_until = row.freshness.fresh_until /\ h.expires_at = row.freshness.expires_at
  /\ h.freshness_status = Lower[StatusAt(row.freshness, t)] /\ t < row.freshness.expires_at

\* A scored row was current when it was computed.
LEMMA ScoredRow ==
  ASSUME NEW row, Issued(row), row.score # NoScore
  PROVE  \E b \in Nat :
           /\ row.score = 50 /\ row.freshness.status \in {"FRESH", "DEGRADED"}
           /\ row.freshness_status = Lower[row.freshness.status]
           /\ row.freshness.fresh_until = b + FreshAge + 1
           /\ row.freshness.expires_at = b + StaleAge + 1
           /\ row.freshness.unknown_after = b + UnknownAge + 1
<1>1. PICK id \in Nat \ {0}, b \in Nat, at \in Int, complete \in BOOLEAN :
        b <= at /\ row = Assess(id, b, at, 50, complete)
  BY DEF Issued
<1>2. at - b <= StaleAge
  BY <1>1, AssessOld, AgeAssumption
<1>3. row.score = IF complete THEN 50 ELSE NoScore
  BY <1>1, <1>2, AssessCurrent
<1>4. /\ row.freshness_status = IF at - b <= FreshAge THEN "fresh" ELSE "degraded"
      /\ row.freshness.status = IF at - b <= FreshAge THEN "FRESH" ELSE "DEGRADED"
      /\ row.freshness.fresh_until = b + FreshAge + 1
      /\ row.freshness.expires_at = b + StaleAge + 1
      /\ row.freshness.unknown_after = b + UnknownAge + 1
  BY <1>1, <1>2, AssessCurrent
<1> QED
  BY <1>3, <1>4 DEF Lower

\* The level of a scored row before it expires.
LEMMA LevelBeforeExpiry ==
  ASSUME NEW row, Issued(row), row.score # NoScore, NEW t \in Int, t < row.freshness.expires_at
  PROVE  /\ Lower[StatusAt(row.freshness, t)] =
              IF t >= row.freshness.fresh_until \/ row.freshness.status = "DEGRADED"
              THEN "degraded" ELSE "fresh"
         /\ row.freshness.fresh_until \in Nat /\ row.freshness.expires_at \in Nat
         /\ row.freshness.unknown_after > row.freshness.expires_at
<1>1. PICK b \in Nat :
        /\ row.freshness.status \in {"FRESH", "DEGRADED"}
        /\ row.freshness.fresh_until = b + FreshAge + 1
        /\ row.freshness.expires_at = b + StaleAge + 1
        /\ row.freshness.unknown_after = b + UnknownAge + 1
  BY ScoredRow
<1> QED
  BY <1>1, AgeAssumption DEF StatusAt, Lower

\* What the database offers of a row carries it.
LEMMA OfferedCarries ==
  ASSUME NEW row, Issued(row), NEW p, p.assessment = row, NEW t \in Int,
         Usable(DatabaseResult(p, t))
  PROVE  Carries(DatabaseResult(p, t), row, t)
<1>1. DatabaseResult(p, t) = Projection(row, t)
  BY DEF DatabaseResult, Unavailable, Usable, Actionable
<1>2. PICK level : level = DeliveredFreshness(row, t)
  OBVIOUS
<1>3. level \in {"fresh", "degraded"} /\ row.score # NoScore
  BY <1>1, <1>2 DEF Projection, Usable, Actionable
<1>4. PICK b \in Nat :
        /\ row.freshness_status = Lower[row.freshness.status]
        /\ row.freshness.status \in {"FRESH", "DEGRADED"}
        /\ row.freshness.fresh_until = b + FreshAge + 1
        /\ row.freshness.expires_at = b + StaleAge + 1
        /\ row.freshness.unknown_after = b + UnknownAge + 1
  BY <1>3, ScoredRow
<1>5. t < row.freshness.expires_at
  BY <1>2, <1>3, <1>4, AgeAssumption DEF DeliveredFreshness, NoTime
<1>6. level = IF t >= row.freshness.fresh_until \/ row.freshness.status = "DEGRADED"
              THEN "degraded" ELSE "fresh"
  BY <1>2, <1>3, <1>4, <1>5, AgeAssumption DEF DeliveredFreshness, NoTime, Lower
<1>7. level = Lower[StatusAt(row.freshness, t)]
  BY <1>3, <1>5, <1>6, LevelBeforeExpiry
<1>8. /\ Projection(row, t).assessment_id = row.id /\ Projection(row, t).score = row.score
      /\ Projection(row, t).fresh_until = row.freshness.fresh_until
      /\ Projection(row, t).expires_at = row.freshness.expires_at
      /\ Projection(row, t).freshness_status = level
  BY <1>2, <1>3 DEF Projection
<1> QED
  BY <1>1, <1>3, <1>5, <1>7, <1>8 DEF Carries

\* A check that leaves an assessment usable makes it carry its row at the check.
LEMMA CheckCarries ==
  ASSUME NEW h \in DatabaseResults, NEW row, Issued(row), NEW t \in Int, NEW u \in Int,
         t <= u, Carries(h, row, t), Usable(ValidateAssessment(h, u))
  PROVE  Carries(ValidateAssessment(h, u), row, u)
<1> DEFINE d == [h EXCEPT !.status = IF h.status = "OK" THEN "DEGRADED" ELSE h.status,
                          !.freshness_status = "degraded"]
           v == ValidateAssessment(h, u)
<1>1. \A st \in {"STALE", "UNKNOWN"}, fr \in Levels : ~Usable(Mask(h, st, fr))
  BY DEF Mask, Usable, Actionable, DatabaseResults
<1>2. /\ h.expires_at \in Nat /\ h.fresh_until \in Nat
      /\ t < h.expires_at /\ row.score # NoScore
      /\ h.freshness_status = IF t >= h.fresh_until \/ row.freshness.status = "DEGRADED"
                             THEN "degraded" ELSE "fresh"
  BY LevelBeforeExpiry DEF Carries
<1>3. /\ u < h.expires_at
      /\ \/ h.freshness_status = "fresh" /\ u >= h.fresh_until /\ v = d
         \/ ~(h.freshness_status = "fresh" /\ u >= h.fresh_until) /\ v = h
  BY <1>1, <1>2 DEF ValidateAssessment, NoTime, Levels, DatabaseResults
<1>4. /\ d.assessment_id = h.assessment_id /\ d.score = h.score
      /\ d.fresh_until = h.fresh_until /\ d.expires_at = h.expires_at
      /\ d.freshness_status = "degraded"
  BY DEF DatabaseResults
<1> HIDE DEF d, v
<1>5. v.freshness_status = IF u >= h.fresh_until \/ row.freshness.status = "DEGRADED"
                           THEN "degraded" ELSE "fresh"
  BY <1>2, <1>3, <1>4
<1>6. u < row.freshness.expires_at /\ h.fresh_until = row.freshness.fresh_until
  BY <1>3 DEF Carries
<1>7. v.freshness_status = Lower[StatusAt(row.freshness, u)]
  BY <1>2, <1>5, <1>6, LevelBeforeExpiry
<1>8. Carries(v, row, u)
  BY <1>2, <1>3, <1>4, <1>6, <1>7 DEF Carries
<1> QED
  BY <1>8 DEF v

\* A request under way holds nothing usable but a row at an earlier moment.
Holds(h) == Usable(h) =>
  \E row \in assessments, t \in Int : t <= now /\ Carries(h, row, t)

Stock ==
  /\ \A row \in assessments : Issued(row)
  /\ newest.assessment \in assessments
  /\ \A r \in Requests :
       pc[r] \in {"read", "supported", "verifying", "settling"} => Holds(held[r])

\* A 200 was paid for and carries a row at the moment of the reply.
Sold(r) ==
  /\ receipt[r] = "settled" => auth[r] \in charged
  /\ Answered(r, 200) =>
       /\ pc[r] = "done" /\ auth[r] \in charged
       /\ \E row \in assessments : Carries(held[r], row, answer[r].at)

Ledger ==
  /\ \A r \in telemetry : Answered(r, 200)
  /\ \A e \in query_events : \E r \in Requests : Answered(r, 200) /\ e = Event(r)
  /\ \A e, f \in query_events : e.id = f.id => e = f

Sales == Stock /\ (\A r \in Requests : Sold(r)) /\ Ledger

LEMMA InitSales == Init => Sales
<1> SUFFICES ASSUME Init
             PROVE  Sales
  OBVIOUS
<1>1. Issued(FirstRow)
  <2>1. 1 \in Nat \ {0} /\ 0 \in Nat /\ 0 \in Int /\ TRUE \in BOOLEAN /\ 0 <= 0
    OBVIOUS
  <2> QED
    BY <2>1, Zenon DEF Issued, FirstRow
<1>2. PICK row : row = FirstRow
  OBVIOUS
<1>3. newest.assessment = row /\ assessments = {row}
  BY <1>2 DEF Init
<1>4. Stock
  BY <1>1, <1>2, <1>3 DEF Init, Stock
<1> QED
  BY <1>4 DEF Init, Sales, Sold, Ledger, Answered, NoAnswer

\* What was held or sold stays so while nobody touches it.
LEMMA HoldsOn ==
  ASSUME NEW h, Holds(h), assessments \subseteq assessments', now \in Int, now' \in Int, now <= now'
  PROVE  Holds(h)'
<1> SUFFICES ASSUME Usable(h)
             PROVE  \E row \in assessments', t \in Int : t <= now' /\ Carries(h, row, t)
  BY DEF Holds
<1>1. PICK row \in assessments, t \in Int : t <= now /\ Carries(h, row, t)
  BY DEF Holds
<1> QED
  BY <1>1

LEMMA SoldOn ==
  ASSUME NEW q \in Requests, Sold(q),
         pc'[q] = pc[q], auth'[q] = auth[q], held'[q] = held[q], answer'[q] = answer[q],
         receipt'[q] = receipt[q] \/ auth[q] \in charged',
         assessments \subseteq assessments', charged \subseteq charged'
  PROVE  Sold(q)'
  BY DEF Sold, Answered

\* A handler's step is a request's own.
Untouched(q) ==
  /\ pc'[q] = pc[q] /\ answer'[q] = answer[q] /\ auth'[q] = auth[q]
  /\ admission'[q] = admission[q] /\ held'[q] = held[q]

LEMMA OnlyItsOwn ==
  ASSUME TypeOK, NEW r \in Requests, Handler(r)
  PROVE  /\ UNCHANGED <<now, database, receipt, charged, payers, query_events>>
         /\ \A q \in Requests : q # r => Untouched(q)
<1> USE DEF TypeOK
<1>1. UNCHANGED <<now, database, receipt, charged, payers, query_events>>
  BY DEF Handler, BadRequest, Arrive, ReadReturns, SupportedReturns, VerifyRefuses,
         VerifyAccepts, SettleReturns, CallFails, Dropped, chain, events
<1>2. ASSUME NEW q \in Requests, q # r
      PROVE  Untouched(q)
  <2>1. pc'[q] = pc[q] /\ answer'[q] = answer[q]
    <3>1. \/ \E code, why : Reply(r, code, why)
          \/ \E stage : Await(r, stage)
          \/ Dropped(r)
      <4>1. CASE SettleReturns(r)
        BY <4>1 DEF SettleReturns
      <4>2. CASE BadRequest(r) \/ VerifyRefuses(r) \/ CallFails(r)
        BY <4>2 DEF BadRequest, VerifyRefuses, CallFails
      <4>3. CASE \E a \in Authorizations \cup {NoAuthorization} : Arrive(r, a)
        BY <4>3 DEF Arrive
      <4>4. CASE ReadReturns(r) \/ SupportedReturns(r) \/ VerifyAccepts(r)
        BY <4>4 DEF ReadReturns, SupportedReturns, VerifyAccepts
      <4> QED BY <4>1, <4>2, <4>3, <4>4 DEF Handler
    <3> QED BY <1>2, <3>1, SmallStepEffects DEF Dropped
  <2>2. auth'[q] = auth[q] /\ admission'[q] = admission[q]
    BY <1>2 DEF Handler, BadRequest, Arrive, ReadReturns, SupportedReturns, VerifyRefuses,
                VerifyAccepts, SettleReturns, CallFails, Dropped
  <2>3. held'[q] = held[q]
    BY <1>2 DEF Handler, BadRequest, Arrive, ReadReturns, SupportedReturns, VerifyRefuses,
                VerifyAccepts, SettleReturns, CallFails, Dropped, Hold
  <2> QED BY <2>1, <2>2, <2>3 DEF Untouched
<1> QED
  BY <1>1, <1>2

\* What a request still holds usable after a check carries a row now.
LEMMA CheckedNow ==
  ASSUME Typed, Stock, NEW r \in Requests,
         pc[r] \in {"read", "supported", "verifying", "settling"},
         Usable(ValidateAssessment(held[r], now))
  PROVE  \E row \in assessments : Carries(ValidateAssessment(held[r], now), row, now)
<1>1. PICK h \in DatabaseResults, u \in Int : h = held[r] /\ u = now
  BY DEF Typed, TypeOK
<1>2. Usable(ValidateAssessment(h, u))
  BY <1>1
<1>3. Usable(h)
  BY <1>2, ValidateDowngrades DEF Downgrade
<1>4. PICK row \in assessments, t \in Int : t <= u /\ Carries(h, row, t)
  BY <1>1, <1>3 DEF Stock, Holds
<1>5. Issued(row)
  BY DEF Stock
<1>6. Carries(ValidateAssessment(h, u), row, u)
  BY <1>2, <1>4, <1>5, CheckCarries
<1> QED
  BY <1>1, <1>6

\* One step of the handler, for its own request.
OwnStep(r) ==
  /\ pc'[r] \in {"read", "supported", "verifying", "settling"} => Holds(held[r])'
  /\ Sold(r)'
  /\ \A q \in telemetry' : q \in telemetry \/ (q = r /\ answer'[r].code = 200)

LEMMA OwnSale ==
  ASSUME Typed, SettlementBooks, Sales, NEW r \in Requests, Handler(r)
  PROVE  ~Answered(r, 200) /\ OwnStep(r)
<1> USE DEF Typed, TypeOK
<1>1. pc[r] # "done"
  BY DEF Handler, BadRequest, Arrive, ReadReturns, SupportedReturns, VerifyRefuses,
         VerifyAccepts, SettleReturns, CallFails, Dropped, Calling
<1>2. ~Answered(r, 200)
  BY <1>1 DEF SettlementBooks, RequestBooks, Answered, NoAnswer
<1>3. now' = now /\ assessments' = assessments /\ receipt' = receipt /\ charged' = charged
  BY OnlyItsOwn DEF database
<1>4. receipt[r] = "settled" => auth'[r] \in charged
  <2>1. receipt[r] = "settled" => auth[r] \in charged
    BY DEF Sales, Sold
  <2>2. pc[r] = "idle" => receipt[r] = "none"
    BY DEF SettlementBooks, RequestBooks
  <2>3. pc[r] # "idle" => auth'[r] = auth[r]
    BY DEF Handler, BadRequest, Arrive, ReadReturns, SupportedReturns, VerifyRefuses,
           VerifyAccepts, SettleReturns, CallFails, Dropped
  <2> QED
    BY <2>1, <2>2, <2>3
<1> DEFINE new == ValidateAssessment(held[r], now)
<1>5. Sellable(held[r], now) /\ pc[r] \in {"read", "supported", "verifying", "settling"} =>
        \E row \in assessments : Carries(new, row, now)
  BY CheckedNow DEF Sellable, Sales
<1> HIDE DEF new
<1>6. ASSUME Sellable(held[r], now), pc[r] \in {"read", "supported", "verifying", "settling"},
             held'[r] = new
      PROVE  Holds(held[r])'
  BY <1>3, <1>5, <1>6 DEF Holds
<1>7. ASSUME ~(answer'[r].code = 200), telemetry' = telemetry,
             pc'[r] \in {"read", "supported", "verifying", "settling"} => Holds(held[r])'
      PROVE  OwnStep(r)
  BY <1>3, <1>4, <1>7 DEF Sold, Answered, OwnStep
<1>8. ASSUME NEW code, NEW why, Reply(r, code, why)
      PROVE  pc'[r] = "done" /\ answer'[r].code = code /\ answer'[r].at = now
  <2>1. pc'[r] = "done" /\ answer'[r] = [code |-> code, why |-> why, at |-> now]
    BY <1>8 DEF Reply
  <2> QED
    BY <2>1
<1>9. ASSUME NEW stage, Await(r, stage)
      PROVE  pc'[r] = stage /\ ~(answer'[r].code = 200)
  BY <1>2, <1>9, SmallStepEffects DEF Answered
<1> SUFFICES OwnStep(r)
  BY <1>2
<1>10. CASE BadRequest(r) \/ VerifyRefuses(r) \/ CallFails(r)
  <2>1. telemetry' = telemetry /\ \E code \in {422, 402, 503} : \E why : Reply(r, code, why)
    BY <1>10 DEF BadRequest, VerifyRefuses, CallFails, events
  <2>2. pc'[r] = "done" /\ ~(answer'[r].code = 200)
    BY <1>8, <2>1
  <2> QED
    BY <1>7, <2>1, <2>2
<1>11. CASE \E a \in Authorizations \cup {NoAuthorization} : Arrive(r, a)
  <2>1. telemetry' = telemetry /\ Await(r, "reading")
    BY <1>11 DEF Arrive, events
  <2>2. pc'[r] = "reading" /\ ~(answer'[r].code = 200)
    BY <1>9, <2>1
  <2> QED
    BY <1>7, <2>1, <2>2
<1>12. CASE ReadReturns(r)
  <2>1. telemetry' = telemetry /\ pc[r] = "read"
    BY <1>12 DEF ReadReturns, events
  <2>2. CASE Sellable(held[r], now)
    <3>1. Await(r, "supported") /\ held'[r] = new
      BY <1>12, <2>2 DEF ReadReturns, Hold, new
    <3> QED
      BY <1>6, <1>7, <1>9, <2>1, <2>2, <3>1
  <2>3. CASE ~Sellable(held[r], now)
    <3>1. Reply(r, 503, "unavailable")
      BY <1>12, <2>3 DEF ReadReturns
    <3>2. pc'[r] = "done" /\ answer'[r].code = 503
      BY <1>8, <3>1
    <3> QED
      BY <1>7, <2>1, <3>2
  <2> QED
    BY <2>2, <2>3
<1>13. CASE SupportedReturns(r)
  <2>1. telemetry' = telemetry /\ pc[r] = "supported"
    BY <1>13 DEF SupportedReturns, events
  <2>2. CASE Sellable(held[r], now) /\ auth[r] # NoAuthorization
    <3>1. Await(r, "verifying") /\ held'[r] = new
      BY <1>13, <2>2 DEF SupportedReturns, Hold, new
    <3> QED
      BY <1>6, <1>7, <1>9, <2>1, <2>2, <3>1
  <2>3. CASE ~(Sellable(held[r], now) /\ auth[r] # NoAuthorization)
    <3>1. \E code \in {402, 503} : \E why : Reply(r, code, why)
      BY <1>13, <2>3 DEF SupportedReturns
    <3>2. pc'[r] = "done" /\ ~(answer'[r].code = 200)
      BY <1>8, <3>1
    <3> QED
      BY <1>7, <2>1, <3>2
  <2> QED
    BY <2>2, <2>3
<1>14. CASE VerifyAccepts(r)
  <2>1. telemetry' = telemetry /\ pc[r] = "verifying"
    BY <1>14 DEF VerifyAccepts, events
  <2>2. CASE SufficientValidity(held[r], now) /\ ~Invalid(held[r], now)
    <3>1. Await(r, "settling") /\ held'[r] = new
      BY <1>14, <2>2 DEF VerifyAccepts, Hold, new
    <3>2. Sellable(held[r], now)
      BY <2>2, PaidQueryAssumption, SellableEarlier DEF SufficientValidity
    <3> QED
      BY <1>6, <1>7, <1>9, <2>1, <3>1, <3>2
  <2>3. CASE ~(SufficientValidity(held[r], now) /\ ~Invalid(held[r], now))
    <3>1. Reply(r, 503, "validity")
      BY <1>14, <2>3 DEF VerifyAccepts
    <3>2. pc'[r] = "done" /\ answer'[r].code = 503
      BY <1>8, <3>1
    <3> QED
      BY <1>7, <2>1, <3>2
  <2> QED
    BY <2>2, <2>3
<1>15. CASE SettleReturns(r)
  <2>1. CASE receipt[r] = "settled" /\ Sellable(held[r], now)
    <3>1. /\ pc[r] = "settling" /\ held'[r] = new /\ Reply(r, 200, "paid")
          /\ telemetry' = telemetry \cup {r}
      BY <1>15, <2>1 DEF SettleReturns, Unsuccessful, Hold, new
    <3>2. pc'[r] = "done" /\ answer'[r].code = 200 /\ answer'[r].at = now
      BY <1>8, <3>1
    <3>3. \E row \in assessments : Carries(held'[r], row, answer'[r].at)
      BY <1>5, <2>1, <3>1, <3>2
    <3> QED
      BY <1>3, <1>4, <2>1, <3>1, <3>2, <3>3 DEF Sold, Answered, OwnStep
  <2>2. CASE ~(receipt[r] = "settled" /\ Sellable(held[r], now))
    <3>a. receipt[r] \in Unsuccessful \/ (receipt[r] = "settled" /\ ~Sellable(held[r], now))
      BY <1>15, <2>2 DEF SettleReturns
    <3>1. telemetry' = telemetry /\ \E code \in {402, 503} : \E why : Reply(r, code, why)
      <4>1. CASE receipt[r] \in Unsuccessful
        <5>1. telemetry' = telemetry /\ Reply(r, 402, "required")
          BY <1>15, <4>1 DEF SettleReturns, Unsuccessful
        <5> QED
          BY <5>1
      <4>2. CASE receipt[r] = "settled" /\ ~Sellable(held[r], now)
        <5>1. telemetry' = telemetry /\ Reply(r, 503, "expired")
          BY <1>15, <4>2 DEF SettleReturns, Unsuccessful
        <5> QED
          BY <5>1
      <4> QED
        BY <3>a, <4>1, <4>2
    <3>2. pc'[r] = "done" /\ ~(answer'[r].code = 200)
      BY <1>8, <3>1
    <3> QED
      BY <1>7, <3>1, <3>2
  <2> QED
    BY <2>1, <2>2
<1>16. CASE Dropped(r)
  <2>1. telemetry' = telemetry /\ pc'[r] = "gone" /\ answer' = answer
    BY <1>16 DEF Dropped, events
  <2> QED
    BY <1>2, <1>7, <2>1 DEF Answered
<1> QED
  BY <1>10, <1>11, <1>12, <1>13, <1>14, <1>15, <1>16 DEF Handler

\* The stock and the ledger last while answered requests are left alone.
Stages == {"read", "supported", "verifying", "settling"}

LEMMA StockOn ==
  ASSUME Typed, Stock, now' \in Int, now <= now', assessments \subseteq assessments',
         \A row \in assessments' \ assessments : Issued(row),
         newest'.assessment \in assessments',
         \A q \in Requests :
           \/ pc'[q] \notin Stages \/ Holds(held[q])'
           \/ pc'[q] = pc[q] /\ held'[q] = held[q]
  PROVE  Stock'
<1>1. ASSUME NEW q \in Requests, pc'[q] \in Stages
      PROVE  Holds(held[q])'
  <2>1. CASE pc'[q] = pc[q] /\ held'[q] = held[q]
    <3>1. PICK h : h = held[q]
      OBVIOUS
    <3>2. Holds(h)
      BY <1>1, <2>1, <3>1 DEF Stock, Stages
    <3>3. Holds(h)'
      BY <3>2, HoldsOn DEF Typed, TypeOK
    <3> QED
      BY <2>1, <3>1, <3>3 DEF Holds
  <2> QED
    BY <1>1, <2>1
<1> QED
  BY <1>1 DEF Stock, Stages

LEMMA LedgerOn ==
  ASSUME Ledger, \A q \in Requests : Answered(q, 200) => Untouched(q),
         telemetry \subseteq Requests, telemetry' \subseteq Requests,
         \A q \in telemetry' : q \in telemetry \/ Answered(q, 200)',
         \A e \in query_events' :
           e \in query_events \/ \E q \in telemetry : e = Event(q),
         \A e, f \in query_events' : e.id = f.id => e = f
  PROVE  Ledger'
<1>1. \A q \in Requests : Answered(q, 200) => Answered(q, 200)' /\ Event(q)' = Event(q)
  BY DEF Untouched, Answered, Event
<1>2. \A q \in telemetry' : Answered(q, 200)'
  BY <1>1 DEF Ledger
<1>3. ASSUME NEW e \in query_events'
      PROVE  \E q \in Requests : Answered(q, 200)' /\ e = Event(q)'
  <2>1. PICK q \in Requests : Answered(q, 200) /\ e = Event(q)
    BY DEF Ledger
  <2> QED
    BY <1>1, <2>1
<1> QED
  BY <1>2, <1>3 DEF Ledger

LEMMA HandlerSales ==
  ASSUME Typed, SettlementBooks, Sales, NEW r \in Requests, Handler(r), Typed'
  PROVE  Sales'
<1>1. /\ UNCHANGED <<now, newest, assessments, receipt, charged, query_events>>
      /\ \A q \in Requests : q # r => Untouched(q)
  BY OnlyItsOwn DEF Typed, database
<1>2. ~Answered(r, 200) /\ OwnStep(r)
  BY OwnSale
<1>3. Stock'
  <2>1. ASSUME NEW q \in Requests
        PROVE  \/ pc'[q] \notin Stages \/ Holds(held[q])'
               \/ pc'[q] = pc[q] /\ held'[q] = held[q]
    BY <1>1, <1>2 DEF OwnStep, Stages, Untouched
  <2>2. newest'.assessment \in assessments'
    BY <1>1 DEF Sales, Stock
  <2> QED
    BY <1>1, <2>1, <2>2, StockOn DEF Typed, TypeOK, Sales
<1>4. ASSUME NEW q \in Requests PROVE Sold(q)'
  BY <1>1, <1>2, SoldOn DEF OwnStep, Untouched, Sales
<1>5. Ledger'
  <2>1. \A q \in telemetry' : q \in telemetry \/ Answered(q, 200)'
    BY <1>2 DEF OwnStep, Answered
  <2>2. \A e, f \in query_events' : e.id = f.id => e = f
    BY <1>1 DEF Sales, Ledger
  <2> QED
    BY <1>1, <1>2, <2>1, <2>2, LedgerOn DEF Typed, TypeOK, Sales
<1> QED
  BY <1>3, <1>4, <1>5 DEF Sales

LEMMA EnvironmentSales ==
  ASSUME Typed, SettlementBooks, Sales, NEW r \in Requests, Environment(r), Typed'
  PROVE  Sales'
<1> USE DEF Typed, TypeOK
<1>1. CASE DatabaseAnswers(r)
  <2>1. PICK p, t : p = newest /\ t = now
    OBVIOUS
  <2>2. /\ pc[r] = "reading" /\ pc'[r] = "read" /\ held'[r] = DatabaseResult(p, t)
        /\ answer' = answer /\ auth' = auth /\ now' = now
        /\ UNCHANGED <<newest, assessments, receipt, charged, telemetry, query_events>>
    BY <1>1, <2>1 DEF DatabaseAnswers, Hold, database, chain, events
  <2>3. \A q \in Requests : q # r => Untouched(q)
    BY <1>1 DEF DatabaseAnswers, Hold, Untouched
  <2>4. ~Answered(r, 200)
    <3>1. RequestBooks(r)
      BY DEF SettlementBooks
    <3>2. answer[r] = NoAnswer
      BY <2>2, <3>1 DEF RequestBooks
    <3> QED
      BY <3>2 DEF Answered, NoAnswer
  <2>5. Holds(held[r])'
    <3>1. SUFFICES ASSUME Usable(DatabaseResult(p, t))
                   PROVE  \E row \in assessments, u \in Int :
                            u <= t /\ Carries(DatabaseResult(p, t), row, u)
      BY <2>1, <2>2 DEF Holds
    <3>2. PICK row \in assessments : row = p.assessment
      BY <2>1 DEF Sales, Stock
    <3>3. Carries(DatabaseResult(p, t), row, t)
      BY <2>1, <3>1, <3>2, OfferedCarries DEF Sales, Stock
    <3> QED
      BY <2>1, <3>3
  <2>6. Stock'
    <3>1. newest'.assessment \in assessments'
      BY <2>2 DEF Sales, Stock
    <3> QED
      BY <2>2, <2>3, <2>5, <3>1, StockOn DEF Sales, Untouched
  <2>7. ASSUME NEW q \in Requests PROVE Sold(q)'
    <3>1. CASE q = r
      BY <2>2, <2>4, <3>1 DEF Sales, Sold, Answered
    <3>2. CASE q # r
      BY <2>2, <2>3, <3>2, SoldOn DEF Sales, Untouched
    <3> QED
      BY <3>1, <3>2
  <2>8. Ledger'
    <3>1. \A e, f \in query_events' : e.id = f.id => e = f
      BY <2>2 DEF Sales, Ledger
    <3> QED
      BY <2>2, <2>3, <2>4, <3>1, LedgerOn DEF Sales
  <2> QED
    BY <2>6, <2>7, <2>8 DEF Sales
<1>2. ASSUME FacilitatorTransfers(r) \/ FacilitatorReplays(r)
             \/ FacilitatorRefuses(r) \/ FacilitatorPends(r) \/ SettleCallLost(r)
      PROVE  Sales'
  <2>1. UNCHANGED <<now, newest, assessments, pc, auth, since, held, admission, answer,
                    telemetry, query_events>>
    BY <1>2 DEF FacilitatorTransfers, FacilitatorReplays, FacilitatorRefuses,
                FacilitatorPends, SettleCallLost, database, request, events
  <2>2. /\ charged \subseteq charged'
        /\ \A q \in Requests : q # r => receipt'[q] = receipt[q]
        /\ receipt'[r] \in {receipt[r]} \cup Unsuccessful \/ auth[r] \in charged'
    BY <1>2 DEF FacilitatorTransfers, FacilitatorReplays, FacilitatorRefuses,
                FacilitatorPends, SettleCallLost, Unsuccessful
  <2>3. Stock'
    <3>1. newest'.assessment \in assessments'
      BY <2>1 DEF Sales, Stock
    <3> QED
      BY <2>1, <3>1, StockOn DEF Sales
  <2>4. ASSUME NEW q \in Requests PROVE Sold(q)'
    BY <2>1, <2>2 DEF Sales, Sold, Answered, Unsuccessful
  <2>5. Ledger'
    BY <2>1 DEF Sales, Ledger, Answered, Event
  <2> QED
    BY <2>3, <2>4, <2>5 DEF Sales
<1>3. ASSUME RecordEvent(r) \/ LoseEvent(r) PROVE Sales'
  <2>1. /\ UNCHANGED <<now, newest, assessments, pc, auth, since, held, admission, answer,
                       receipt, charged>>
        /\ r \in telemetry /\ telemetry' = telemetry \ {r}
    BY <1>3 DEF RecordEvent, LoseEvent, database, request, chain
  <2>2. Stock'
    <3>1. newest'.assessment \in assessments'
      BY <2>1 DEF Sales, Stock
    <3> QED
      BY <2>1, <3>1, StockOn DEF Sales
  <2>3. ASSUME NEW q \in Requests PROVE Sold(q)'
    BY <2>1 DEF Sales, Sold, Answered
  <2>4. \/ query_events' = query_events
        \/ /\ query_events' = query_events \cup {Event(r)}
           /\ \A e \in query_events : ~(e.id = auth[r])
    BY <1>3 DEF RecordEvent, LoseEvent
  <2>5. Event(r).id = auth[r]
    BY DEF Event
  <2>6. \A e, f \in query_events' : e.id = f.id => e = f
    BY <2>4, <2>5 DEF Sales, Ledger
  <2>7. \A q \in Requests : Untouched(q)
    BY <2>1 DEF Untouched
  <2>8. Ledger'
    BY <2>1, <2>4, <2>6, <2>7, LedgerOn DEF Sales
  <2> QED
    BY <2>2, <2>3, <2>8 DEF Sales
<1> QED
  BY <1>1, <1>2, <1>3 DEF Environment

\* The ingestion only issues rows the policy made, and time takes nothing back.
LEMMA StepSales == Typed /\ SettlementBooks /\ Sales /\ [Next]_vars => Sales'
<1> SUFFICES ASSUME Typed, SettlementBooks, Sales, [Next]_vars
             PROVE  Sales'
  OBVIOUS
<1>0. Typed'
  BY StepTyped
<1>1. CASE \E r \in Requests : Handler(r) \/ Environment(r)
  BY <1>0, <1>1, HandlerSales, EnvironmentSales
<1>2. ASSUME /\ UNCHANGED <<pc, auth, since, held, admission, answer, receipt, charged,
                            telemetry, query_events>>
             /\ now' \in Int /\ now <= now' /\ assessments \subseteq assessments'
             /\ \A row \in assessments' \ assessments : Issued(row)
             /\ newest'.assessment \in assessments'
      PROVE  Sales'
  <2>1. Stock'
    BY <1>2, StockOn DEF Sales
  <2>2. ASSUME NEW q \in Requests PROVE Sold(q)'
    BY <1>2, SoldOn DEF Sales
  <2>3. Ledger'
    BY <1>2 DEF Sales, Ledger, Answered, Event
  <2> QED
    BY <2>1, <2>2, <2>3 DEF Sales
<1>3. ASSUME NEW lag \in ObservationLags, NEW complete \in BOOLEAN,
             InsertAssessment(lag, complete)
      PROVE  Sales'
  <2>1. PICK row : row = Assess(Cardinality(assessments) + 1, now - lag, now, 50, complete)
    OBVIOUS
  <2>2. /\ newest' = [assessment |-> row, snapshot |-> FALSE, evidence |-> FALSE]
        /\ assessments' = assessments \cup {row} /\ lag <= now
        /\ UNCHANGED <<now, request, chain, events>>
    BY <1>3, <2>1 DEF InsertAssessment
  <2>3. Issued(row)
    <3>1. Cardinality(assessments) + 1 \in Nat \ {0}
      BY FS_CardinalityType DEF Typed, DatabaseOK
    <3>2. now - lag \in Nat /\ now \in Int /\ now - lag <= now
      BY <2>2, PaidQueryAssumption DEF Typed, TypeOK
    <3> QED
      BY <2>1, <3>1, <3>2, Zenon DEF Issued
  <2>4. newest'.assessment = row
    BY <2>2
  <2> QED
    BY <1>2, <2>2, <2>3, <2>4 DEF request, chain, events, Typed, TypeOK
<1>4. CASE InsertCompanions
  <2>1. newest'.assessment = newest.assessment
    BY <1>4 DEF InsertCompanions, Typed, DatabaseOK
  <2> QED
    BY <1>2, <1>4, <2>1 DEF InsertCompanions, request, chain, events, Typed, TypeOK, Sales, Stock
<1>5. CASE Tick
  BY <1>2, <1>5 DEF Tick, database, request, chain, events, Typed, TypeOK, Sales, Stock
<1>6. CASE UNCHANGED vars
  BY <1>2, <1>6 DEF vars, database, request, chain, events, Typed, TypeOK, Sales, Stock
<1> QED
  BY <1>1, <1>3, <1>4, <1>5, <1>6 DEF Next, Quiescent

\* With the books, what is sold is inductive too.
THEOREM SalesInvariance == Spec => []Sales
BY InitTyped, StepTyped, InitBooks, StepBooks, InitSales, StepSales, PTL DEF Spec

\* PaidDelivery: a 200 was paid for and carries a stored row, at the level the policy
\* gives it at the moment of the reply, for any number of requests, publications and
\* awaits in between.
THEOREM SalesArePaidFor == Spec => []PaidDelivery
<1>1. Sales => PaidDelivery
  <2> SUFFICES ASSUME Sales, NEW r \in Requests, Answered(r, 200)
               PROVE  /\ auth[r] \in charged
                      /\ \E row \in assessments :
                           /\ row.id = held[r].assessment_id
                           /\ held[r].score = row.score /\ row.score # NoScore
                           /\ held[r].expires_at = row.freshness.expires_at
                           /\ held[r].freshness_status =
                                Lower[StatusAt(row.freshness, answer[r].at)]
                           /\ answer[r].at < row.freshness.expires_at
    BY DEF PaidDelivery
  <2> QED
    BY DEF Sales, Sold, Carries
<1> QED
  BY <1>1, SalesInvariance, PTL

\* EventsMatchSales: the sales ledger holds one row per transaction, each for a
\* transfer on chain and equal to what a buyer was sent with a 200.
THEOREM LedgerIsHonest == Spec => []EventsMatchSales
<1>1. Typed /\ Sales => EventsMatchSales
  <2> SUFFICES ASSUME Typed, Sales, NEW e \in query_events
               PROVE  /\ e.id \in charged
                      /\ \E r \in Requests : Answered(r, 200) /\ e = Event(r)
                      /\ e.score \in 0..100 /\ e.freshness_status \in {"fresh", "degraded"}
    BY DEF EventsMatchSales, Sales, Ledger
  <2>1. PICK r \in Requests : Answered(r, 200) /\ e = Event(r)
    BY DEF Sales, Ledger
  <2>2. PICK row \in assessments : Carries(held[r], row, answer[r].at)
    BY <2>1 DEF Sales, Sold
  <2>3. PICK t \in Int : t = answer[r].at
    BY DEF Typed, TypeOK
  <2>4. Issued(row) /\ row.score # NoScore /\ t < row.freshness.expires_at
    BY <2>2, <2>3 DEF Sales, Stock, Carries
  <2>5. row.score = 50
    BY <2>4, ScoredRow
  <2>6. Lower[StatusAt(row.freshness, t)] \in {"fresh", "degraded"}
    BY <2>4, LevelBeforeExpiry
  <2>7. e.id = auth[r] /\ e.score = held[r].score /\ e.freshness_status = held[r].freshness_status
    BY <2>1 DEF Event
  <2> QED
    BY <2>1, <2>2, <2>3, <2>5, <2>6, <2>7 DEF Sales, Sold, Carries
<1> QED
  BY <1>1, SalesInvariance, Invariance, PTL

------------------------------------------------------------------------------
(* The promise. *)

\* What a request's stage and reply say of its outcome.
Outcomes ==
  \A r \in Requests :
    /\ pc[r] = "idle" => Outcome(r) = "new"
    /\ pc[r] \in Calling => Outcome(r) = "open"
    /\ pc[r] = "gone" => Outcome(r) = "dropped"
    /\ pc[r] = "done" => Outcome(r) \in {"sold", "challenged", "refused"}
    /\ pc[r] = "done" /\ Outcome(r) = "sold" => Answered(r, 200)
    /\ pc[r] = "done" /\ Outcome(r) = "challenged" => Answered(r, 402)

LEMMA OutcomesHold == Outcomes
<1> SUFFICES ASSUME NEW r \in Requests
             PROVE  /\ pc[r] = "idle" => Outcome(r) = "new"
                    /\ pc[r] \in Calling => Outcome(r) = "open"
                    /\ pc[r] = "gone" => Outcome(r) = "dropped"
                    /\ pc[r] = "done" => Outcome(r) \in {"sold", "challenged", "refused"}
                    /\ pc[r] = "done" /\ Outcome(r) = "sold" => Answered(r, 200)
                    /\ pc[r] = "done" /\ Outcome(r) = "challenged" => Answered(r, 402)
  BY DEF Outcomes
<1>1. pc[r] = "idle" => Outcome(r) = "new"
  BY DEF Outcome, Calling
<1>2. pc[r] \in Calling => Outcome(r) = "open"
  BY DEF Outcome, Calling
<1>3. pc[r] = "gone" => Outcome(r) = "dropped"
  BY DEF Outcome, Calling
<1>4. pc[r] = "done" =>
        /\ Outcome(r) \in {"sold", "challenged", "refused"}
        /\ Outcome(r) = "sold" => answer[r].code = 200
        /\ Outcome(r) = "challenged" => answer[r].code = 402
  BY DEF Outcome, Calling
<1> QED
  BY <1>1, <1>2, <1>3, <1>4 DEF Answered

\* A request nobody touched keeps its outcome.
LEMMA OutcomeOn ==
  ASSUME NEW q, pc'[q] = pc[q], answer'[q] = answer[q]
  PROVE  Outcome(q)' = Outcome(q)
  BY DEF Outcome

\* What the promise sees of a step in which other requests keep their stage and reply.
Ways == [q \in Requests |-> Outcome(q)]

\* The requests whose settle call was answered "not successful" and left open.
Disclaimed == {q \in Requests : receipt[q] = "pending"}

LEMMA WaysOn ==
  ASSUME NEW r \in Requests,
         \A q \in Requests : q # r => pc'[q] = pc[q] /\ answer'[q] = answer[q]
  PROVE  /\ Ways' = [Ways EXCEPT ![r] = Outcome(r)']
         /\ Ways[r] = Outcome(r)
<1>1. \A q \in Requests : q # r => Outcome(q)' = Outcome(q)
  BY OutcomeOn
<1>2. Ways' = [q \in Requests |-> Outcome(q)']
  BY DEF Ways
<1>3. PICK o : o = Outcome(r)'
  OBVIOUS
<1>4. PICK w : w = Ways
  OBVIOUS
<1>5. \A q \in Requests : Ways'[q] = IF q = r THEN o ELSE w[q]
  BY <1>1, <1>2, <1>3, <1>4 DEF Ways
<1>6. Ways' = [w EXCEPT ![r] = o]
  BY <1>2, <1>4, <1>5 DEF Ways
<1> QED
  BY <1>3, <1>4, <1>6 DEF Ways

\* A request that ends, on its own, closes as promised.
LEMMA Closes ==
  ASSUME NEW r \in Requests, pc[r] \in {"idle"} \cup Calling, pc'[r] \in Final,
         \A q \in Requests : q # r => pc'[q] = pc[q] /\ answer'[q] = answer[q],
         UNCHANGED <<auth, settlements, receipt, payers, charged>>,
         pc'[r] = "done" /\ Answered(r, 200)' => pc[r] \in Calling /\ auth[r] \in charged,
         pc'[r] = "done" /\ Answered(r, 402)' =>
           r \notin settlements \cup payers \/ receipt[r] = "pending"
  PROVE  \E how \in Promise!Closings : Promise!Close(r, how)
<1>1. PICK how : how = Outcome(r)'
  OBVIOUS
<1>2. Outcomes /\ Outcomes'
  <2>1. Outcomes
    BY OutcomesHold
  <2>2. Outcomes'
    BY OutcomesHold, PTL
  <2> QED
    BY <2>1, <2>2
<1>3. how \in Promise!Closings
  BY <1>1, <1>2 DEF Outcomes, Final, Promise!Closings
<1>4. how = "sold" => pc[r] \in Calling /\ auth[r] \in charged
  BY <1>1, <1>2 DEF Outcomes, Final
<1>5. how = "challenged" => r \notin settlements \cup payers \/ r \in Disclaimed
  BY <1>1, <1>2 DEF Outcomes, Final, Disclaimed
<1>6. Ways[r] \in {"new", "open"} /\ (pc[r] \in Calling => Ways[r] = "open")
  BY <1>2 DEF Outcomes, Ways
<1>7. Ways' = [Ways EXCEPT ![r] = how]
  BY <1>1, WaysOn
<1>8. Disclaimed' = Disclaimed
  BY DEF Disclaimed
<1>9. Promise!Close(r, how)
  BY <1>4, <1>5, <1>6, <1>7, <1>8 DEF Promise!Close, Ways, Disclaimed
<1> QED
  BY <1>3, <1>9

\* A request that goes on, on its own, is no step of the promise.
LEMMA StaysOpen ==
  ASSUME NEW r \in Requests, pc[r] \in Calling, pc'[r] \in Calling,
         \A q \in Requests : q # r => pc'[q] = pc[q] /\ answer'[q] = answer[q]
  PROVE  Ways' = Ways
<1>1. Outcome(r) = "open" /\ Outcome(r)' = "open"
  <2>1. Outcomes
    BY OutcomesHold
  <2>2. Outcomes'
    BY OutcomesHold, PTL
  <2> QED
    BY <2>1, <2>2 DEF Outcomes
<1>2. \A q \in Requests : Outcome(q)' = Outcome(q)
  BY <1>1, OutcomeOn
<1> QED
  BY <1>2 DEF Ways

\* A step of the handler is a step of the promise.
LEMMA HandlerPromise ==
  ASSUME Typed, SettlementBooks, Sales, SettlementBooks', Sales', NEW r \in Requests, Handler(r)
  PROVE  [Promise!Next]_(Promise!vars)
<1> USE DEF Typed, TypeOK
<1>1. /\ UNCHANGED <<receipt, payers, charged>>
      /\ \A q \in Requests : q # r => pc'[q] = pc[q] /\ answer'[q] = answer[q]
  BY OnlyItsOwn DEF Untouched
<1>2. RequestBooks(r) /\ RequestBooks(r)'
  BY DEF SettlementBooks
<1>3. Sold(r)'
  BY DEF Sales
<1>4. ASSUME pc[r] \in Calling, pc'[r] \in Final, UNCHANGED <<auth, settlements>>
      PROVE  [Promise!Next]_(Promise!vars)
  <2>1. pc'[r] = "done" /\ Answered(r, 200)' => auth[r] \in charged
    BY <1>1, <1>3, <1>4 DEF Sold
  <2>2. pc'[r] = "done" /\ Answered(r, 402)' =>
          r \notin settlements \cup payers \/ receipt[r] = "pending"
    BY <1>1, <1>2, <1>4 DEF RequestBooks, Answered
  <2>3. \E how \in Promise!Closings : Promise!Close(r, how)
    BY <1>1, <1>4, <2>1, <2>2, Closes
  <2> QED
    BY <2>3 DEF Promise!Next
<1>5. ASSUME pc[r] \in Calling, pc'[r] \in Calling, UNCHANGED <<auth, settlements>>
      PROVE  [Promise!Next]_(Promise!vars)
  BY <1>1, <1>5, StaysOpen DEF Promise!vars, Ways, Disclaimed
<1>6. ASSUME NEW code, NEW why, Reply(r, code, why)
      PROVE  pc'[r] = "done" /\ answer'[r].code = code
  <2>1. pc'[r] = "done" /\ answer'[r] = [code |-> code, why |-> why, at |-> now]
    BY <1>6 DEF Reply
  <2> QED
    BY <2>1
<1>7. ASSUME NEW stage, Await(r, stage) PROVE pc'[r] = stage
  BY <1>7 DEF Await
<1>8. CASE BadRequest(r)
  <2>1. pc[r] = "idle" /\ Reply(r, 422, "invalid") /\ UNCHANGED <<auth, settlements>>
    BY <1>8 DEF BadRequest, chain
  <2>2. pc'[r] = "done" /\ answer'[r].code = 422
    BY <1>6, <2>1
  <2>3. pc'[r] \in Final /\ ~Answered(r, 200)' /\ ~Answered(r, 402)'
    BY <2>2 DEF Answered, Final
  <2>4. \E how \in Promise!Closings : Promise!Close(r, how)
    BY <1>1, <2>1, <2>3, Closes
  <2> QED
    BY <2>4 DEF Promise!Next
<1>9. ASSUME NEW a \in Authorizations \cup {NoAuthorization}, Arrive(r, a)
      PROVE  [Promise!Next]_(Promise!vars)
  <2>1. /\ pc[r] = "idle" /\ pc'[r] = "reading" /\ auth' = [auth EXCEPT ![r] = a]
        /\ settlements' = settlements
    BY <1>7, <1>9 DEF Arrive, chain
  <2>2. Outcome(r) = "new" /\ Outcome(r)' = "open"
    <3>1. Outcomes
      BY OutcomesHold
    <3>2. Outcomes'
      BY OutcomesHold, PTL
    <3> QED
      BY <2>1, <3>1, <3>2 DEF Outcomes, Calling
  <2>3. Ways' = [Ways EXCEPT ![r] = "open"] /\ Ways[r] = "new"
    BY <1>1, <2>2, WaysOn
  <2>4. Promise!Open(r)
    BY <1>1, <2>1, <2>3 DEF Promise!Open, Ways, Disclaimed
  <2> QED
    BY <2>4 DEF Promise!Next
<1>10. CASE ReadReturns(r) \/ SupportedReturns(r)
  <2>1. /\ pc[r] \in Calling /\ UNCHANGED <<auth, settlements>>
        /\ \/ \E code, why : Reply(r, code, why)
           \/ \E stage \in Calling : Await(r, stage)
    BY <1>10 DEF ReadReturns, SupportedReturns, chain, Calling
  <2>2. pc'[r] \in Calling \cup Final
    BY <1>6, <1>7, <2>1 DEF Final
  <2> QED
    BY <1>4, <1>5, <2>1, <2>2
<1>11. CASE VerifyRefuses(r) \/ CallFails(r)
  <2>1. /\ pc[r] \in Calling /\ UNCHANGED <<auth, settlements>>
        /\ \E code, why : Reply(r, code, why)
    BY <1>11 DEF VerifyRefuses, CallFails, chain, Calling
  <2> QED
    BY <1>4, <1>6, <2>1 DEF Final
<1>12. CASE VerifyAccepts(r)
  <2>1. pc[r] = "verifying" /\ auth' = auth
    BY <1>12 DEF VerifyAccepts
  <2>2. CASE SufficientValidity(held[r], now) /\ ~Invalid(held[r], now)
    <3>1. Await(r, "settling") /\ settlements' = settlements \cup {r}
      BY <1>12, <2>2 DEF VerifyAccepts
    <3>2. Ways' = Ways
      BY <1>1, <1>7, <2>1, <3>1, StaysOpen DEF Calling
    <3>3. auth[r] # NoAuthorization /\ r \notin settlements \cup payers
      BY <1>2, <2>1 DEF RequestBooks
    <3>4. Ways[r] = "open"
      BY <2>1, OutcomesHold DEF Outcomes, Ways, Calling
    <3>5. Promise!Order(r)
      BY <1>1, <2>1, <3>1, <3>2, <3>3, <3>4 DEF Promise!Order, Ways, Disclaimed
    <3> QED
      BY <3>5 DEF Promise!Next
  <2>3. CASE ~(SufficientValidity(held[r], now) /\ ~Invalid(held[r], now))
    <3>1. Reply(r, 503, "validity") /\ settlements' = settlements
      BY <1>12, <2>3 DEF VerifyAccepts
    <3> QED
      BY <1>4, <1>6, <2>1, <3>1 DEF Calling, Final
  <2> QED
    BY <2>2, <2>3
<1>13. CASE SettleReturns(r)
  <2>1. /\ pc[r] = "settling" /\ pc'[r] = "done" /\ UNCHANGED <<auth, settlements>>
    BY <1>13 DEF SettleReturns, Reply, chain
  <2> QED
    BY <1>4, <2>1 DEF Calling, Final
<1>14. CASE Dropped(r)
  <2>1. /\ pc[r] \in Calling /\ pc'[r] = "gone" /\ UNCHANGED <<auth, settlements>>
    BY <1>14 DEF Dropped, chain
  <2> QED
    BY <1>4, <2>1 DEF Final
<1> QED
  BY <1>8, <1>9, <1>10, <1>11, <1>12, <1>13, <1>14 DEF Handler

\* So is a step of everybody else, or it changes nothing the promise is about.
LEMMA StepPromise ==
  Typed /\ SettlementBooks /\ Sales /\ SettlementBooks' /\ Sales' /\ [Next]_vars
    => [Promise!Next]_(Promise!vars)
<1> SUFFICES ASSUME Typed, SettlementBooks, Sales, SettlementBooks', Sales', [Next]_vars
             PROVE  [Promise!Next]_(Promise!vars)
  OBVIOUS
<1> USE DEF Typed, TypeOK
<1>1. ASSUME UNCHANGED <<pc, answer, auth, settlements, receipt, payers, charged>>
      PROVE  [Promise!Next]_(Promise!vars)
  <2>1. \A q \in Requests : Outcome(q)' = Outcome(q)
    BY <1>1, OutcomeOn
  <2>2. Ways' = Ways
    BY <2>1 DEF Ways
  <2> QED
    BY <1>1, <2>2 DEF Promise!vars, Ways, Disclaimed
<1>2. ASSUME NEW r \in Requests, Environment(r)
      PROVE  [Promise!Next]_(Promise!vars)
  <2>1. CASE DatabaseAnswers(r)
    <3>1. /\ pc[r] = "reading" /\ pc'[r] = "read"
          /\ \A q \in Requests : q # r => pc'[q] = pc[q] /\ answer'[q] = answer[q]
          /\ UNCHANGED <<auth, settlements, receipt, payers, charged>>
      BY <2>1 DEF DatabaseAnswers, chain
    <3>2. Ways' = Ways
      BY <3>1, StaysOpen DEF Calling
    <3> QED
      BY <3>1, <3>2 DEF Promise!vars, Ways, Disclaimed
  <2>2. ASSUME FacilitatorTransfers(r) \/ FacilitatorReplays(r)
               \/ FacilitatorRefuses(r) \/ FacilitatorPends(r) \/ SettleCallLost(r)
        PROVE  [Promise!Next]_(Promise!vars)
    <3>1. r \in settlements /\ UNCHANGED <<pc, answer, auth>>
      BY <2>2 DEF FacilitatorTransfers, FacilitatorReplays, FacilitatorRefuses,
                  FacilitatorPends, SettleCallLost, request
    <3>2. \A q \in Requests : Outcome(q)' = Outcome(q)
      BY <3>1, OutcomeOn
    <3>3. Ways' = Ways
      BY <3>2 DEF Ways
    <3>4. CASE FacilitatorPends(r)
      <4>1. receipt[r] = "none" /\ receipt' = [receipt EXCEPT ![r] = "pending"]
            /\ UNCHANGED <<settlements, payers, charged>>
        BY <3>4 DEF FacilitatorPends
      <4>2. r \notin Disclaimed /\ Disclaimed' = Disclaimed \cup {r}
        BY <4>1 DEF Disclaimed
      <4>3. Promise!Disclaim(r)
        BY <3>1, <3>3, <4>1, <4>2 DEF Promise!Disclaim, Ways, Disclaimed
      <4> QED
        BY <4>3 DEF Promise!Next
    <3>5. CASE ~FacilitatorPends(r)
      <4>1. settlements' = settlements \ {r}
        BY <2>2, <3>5 DEF FacilitatorTransfers, FacilitatorReplays, FacilitatorRefuses,
                          SettleCallLost
      <4>2. Disclaimed' = Disclaimed
        <5>1. \/ receipt' = receipt
              \/ /\ receipt[r] = "none" /\ receipt'[r] \in {"settled", "refused"}
                 /\ receipt' = [receipt EXCEPT ![r] = receipt'[r]]
          BY <2>2, <3>5 DEF FacilitatorTransfers, FacilitatorReplays, FacilitatorRefuses,
                            SettleCallLost
        <5>2. \A q \in Requests : receipt'[q] = "pending" <=> receipt[q] = "pending"
          BY <5>1
        <5> QED
          BY <5>2 DEF Disclaimed
      <4>3. \/ UNCHANGED <<payers, charged>>
            \/ /\ auth[r] \notin charged
               /\ payers' = payers \cup {r} /\ charged' = charged \cup {auth[r]}
        BY <2>2, <3>5 DEF FacilitatorTransfers, FacilitatorReplays, FacilitatorRefuses,
                          SettleCallLost
      <4>4. Promise!Charge(r) \/ Promise!Lapse(r)
        BY <3>1, <3>3, <4>1, <4>2, <4>3 DEF Promise!Charge, Promise!Lapse, Ways, Disclaimed
      <4> QED
        BY <4>4 DEF Promise!Next
    <3> QED
      BY <3>4, <3>5
  <2>3. CASE RecordEvent(r) \/ LoseEvent(r)
    BY <1>1, <2>3 DEF RecordEvent, LoseEvent, request, chain
  <2> QED
    BY <1>2, <2>1, <2>2, <2>3 DEF Environment
<1>3. CASE \E lag \in ObservationLags, complete \in BOOLEAN : InsertAssessment(lag, complete)
  BY <1>1, <1>3 DEF InsertAssessment, request, chain
<1>4. CASE InsertCompanions \/ Tick \/ UNCHANGED vars
  BY <1>1, <1>4 DEF InsertCompanions, Tick, vars, request, chain
<1> QED
  BY <1>2, <1>3, <1>4, HandlerPromise DEF Next, Quiescent

\* KeepsPromise: every behaviour of the endpoint, with its awaits, timers, drops, late
\* settlements and pending answers, is one of PayPerQuery step by step.
THEOREM EndpointKeepsPromise == Spec => KeepsPromise
<1>1. Init => Promise!Init
  <2> SUFFICES ASSUME Init
               PROVE  Promise!Init
    OBVIOUS
  <2>1. \A q \in Requests : pc[q] = "idle"
    BY DEF Init
  <2>2. \A q \in Requests : Outcome(q) = "new"
    BY <2>1, OutcomesHold DEF Outcomes
  <2> QED
    BY <2>2 DEF Init, Promise!Init
<1>2. Typed /\ SettlementBooks /\ Sales /\ SettlementBooks' /\ Sales' /\ [Next]_vars
        => [Promise!Next]_(Promise!vars)
  BY StepPromise
<1> QED
  BY <1>1, <1>2, Invariance, SalesInvariance, PTL DEF Spec, KeepsPromise, Promise!Spec
=============================================================================
