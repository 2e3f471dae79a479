# risk-oracle: a verification development in TLA+

risk-oracle sells a precomputed risk assessment of native USDC on Aave V3 Base
for one cent per query.  A dispatched job reads the chain at one safe block,
scores what it read and writes the result with three inserts; an SQL function
projects the newest result; a Cloudflare Worker checks it, takes an x402 payment
through an external facilitator and delivers it.  This directory models those
parts, checks them with TLC and proves the central results with TLAPS.

## Inventory of the system

| Component (source) | State | Operations | Interacts with | What is hard | Correct means |
|---|---|---|---|---|---|
| Freshness policy (`risk_oracle/freshness_policy.py`, `models.py` Freshness) | none | age to status and three deadlines; status at a later time | scoring, SQL function, Worker: the policy exists three times | inclusive ages, exclusive deadlines, one microsecond apart | the three implementations agree at every instant |
| Scoring v0.1 (`scoring_v01.py`) | none | four factors, weights, rounding, gating by freshness | ingestion | exact rationals, thresholds on the rounded value | no score of what is unknown or old; monotone in what harms holders; rounding and bands agree with the contract |
| Collector, RPC provider (`providers/`) | none between runs | pin the safe block, read the reserve and its oracle call by call, derive values | an RPC node | any call fails, answers decide the later calls, the block is orphaned, contracts are upgraded | what is scored is the state of one canonical block, read of the reviewed contracts |
| Snapshot builder (`snapshot_builder.py`) | none | combine freshness windows | collector | minimum of deadlines, partial inputs | never extends its caller's ceiling |
| Ingestion cycle (`ingest.py`, `.github/workflows/ingest.yml`) | one run at a time | collect, score, write, report | collector, writer, operator | killed at a time limit, a report someone must act on | the report can be relied on |
| Persistence writer (`persistence.py`) | position in three inserts, ambiguity | POST, retry of the first table | PostgREST | not a transaction; timeouts whose insert commits later | no duplicate, ordered, honest about what is unknown |
| Storage schema (`supabase/migrations/`) | three append-only tables, `query_events` | inserts under keys | writer, Worker | which key stops which late insert | one row per block and per id |
| Serving function (`20260916000000_precomputed_serving.sql`) | reads one statement snapshot | select newest, verify, project | writer's tables, Worker | partial publications, clocks | never an older favourable row, never a partial one |
| Worker contract (`worker/src/contracts.ts`) | none | validate and downgrade | called at every check | millisecond clock that may step back | downgrades only |
| Worker handler, payment (`index.ts`, `supabase.ts`, `payment.ts`, `facilitator.ts`) | one request at its await | read, challenge, verify, settle, deliver | database, facilitator, buyer | everything can change while it awaits; a timeout leaves the settlement open | charged only for what can be delivered, not asked to pay again while a settlement is open |
| Telemetry (`telemetry.ts`, `query_events`) | one insert per sale | record | database | lost and replayed events | the ledger never overstates sales |
| Reserve contracts (`contracts/src/`) | none of their own | validate a reserve state from live balances | ERC-20 and aToken | 256-bit rounding, pause and blacklist | the verdict is that of exact fractions, and nothing overflows before the backing does |
| Agent example (`examples/x402-agent-client/`) | one process | ask, check the challenge, pay | Worker | the second challenge is not the one that was checked | pays only what its policy allows |
| Discovery declaration, legacy mock service | constant data | | | | not modelled |

## Modules

| Module | What it is |
|---|---|
| `FreshnessPolicy` | `snapshot_freshness`, `Freshness.valid_deadlines`, `status_at` as operators on integer times |
| `AssessmentDelivery` | one assessment's way to the buyer: `Assess` (Python), `DatabaseResult` (SQL), `ValidateAssessment` (TypeScript) |
| `DeliveryContract` | a publication read request after request on three clocks; asks whether the three implementations agree |
| `PaidQuery` | the Worker: concurrent requests cut at their awaits, the facilitator, the chain, the ledger, publications changing underneath |
| `PayPerQuery` | the abstract promise of the paid endpoint, without awaits, timers, database or freshness |
| `PaidQueryProofs` | theorems about `PaidQuery`; that its steps are those of `PayPerQuery` |
| `AssessmentProofs`, `DeliveryProofs` | lemmas about the three implementations, theorems about `DeliveryContract` |
| `Publication` | the ingestion run, its three inserts, late and lost requests, and what the reader is served meanwhile |
| `PublicBoard` | the abstract promise of the three tables: one place that shows the newest assessment and never turns back |
| `RiskOracle` | the composition: `Publication` writes what the reader of `DeliveryContract` serves, request after request |
| `RiskOracleProofs` | theorems about `Publication`, that it implements `PublicBoard`, and about the composition |
| `ReserveIndex` | the scorer: four factors in exact rationals, mean with critical floor, half-up rounding, level, confidence, the result's contract |
| `Scoring` | assessments of snapshots that differ in a value or lack an observation |
| `ScoringProofs` | lemmas about the scorer's rationals and factors, theorems about `Scoring` |
| `Collector` | one collection, call by call, from a block that may be orphaned, through to its assessment |
| `CollectorProofs` | lemmas about the order of the calls and each observation, theorems about `Collector` |
| `SnapshotBuilder` | observations with windows of their own, collected over time, combined under a ceiling |
| `SnapshotBuilderProofs` | theorems about `SnapshotBuilder` |
| `ReserveConstitution` | the constitution's split word arithmetic, and the rule on exact fractions |
| `ReserveVault` | the vault's views over tokens that others move, pause and blacklist |
| `ReserveVaultProofs` | theorems about the two |
| `MC...` | instances for TLC |

`AssessmentDelivery` extends `FreshnessPolicy`; `DeliveryContract`, `PaidQuery` and
`Publication` extend `AssessmentDelivery`, so the freshness semantics are written
once and every state machine uses the code's own tests.  `PaidQuery` instantiates
`PayPerQuery`, and `Publication` `PublicBoard`.  `RiskOracle` extends `Publication` and
instantiates `DeliveryContract` with the newest row as its publication and the
publisher's time as its clock.  `ReserveIndex` extends `FreshnessPolicy`; `Scoring`
and `Collector` extend `ReserveIndex`.  `SnapshotBuilder` extends `FreshnessPolicy`,
and `ReserveVault` `ReserveConstitution`.

### How state and actions correspond to the code

`PaidQuery`: `pc[r]` names the `await` at which request `r` is suspended:
`reading` and `read` are `latestAssessment` (before and after the database's
statement), `supported`, `verifying` and `settling` are the three facilitator
calls inside `purchase`.  One action is everything between two awaits, early
returns and throws included.  `held[r]` is the local `assessment`; `admission[r]`
records when the admission check passed and against which deadline.
`settlements` are settle calls that may still end in a transfer, also after the
Worker gave up (`CallFails` answers 503 and leaves them) or was answered.  Requests
of a wrong path, method, media type or body are one action, `BadRequest`.  All
payment header checks that answer with a fresh challenge are
`auth[r] = NoAuthorization`.

The facilitator is external, and this is what the model assumes of it.  It answers a
settle call at most once.  `success: true` means that the transfer is on chain, made
by this call or found there (`FacilitatorReplays`).  `success: false` is either final
(`FacilitatorRefuses`) or `settlement_pending` (`FacilitatorPends`): the transaction
was broadcast and may confirm at any later time or never
(`docs/research/sources/payment/x402-v2.md:249` and `:608`).  Which of the two it is
stands in `errorReason`, which `settleSchema` drops, so both are `Unsuccessful` to
the Worker and both end in a 402.

`Publication`: `stage`, `row`, `table`, `attempt`, `ambiguous` are the locals of
`SupabaseWriter.write`; `inflight` are requests sent and not executed.  The
database may execute one at any later time: before or after the run gave up on
it, retried it, reported, or was killed; a request that is lost stays there for
ever.  A reply the run no longer awaits goes nowhere.  `transient` stands for 408,
503 and 504 without a database error code, `transient_coded` for the same with
one (ambiguous, not retried), `refused` for a 4xx, `gateway` for a 500 or 502.
When a run ends its local variables return to their initial values.

`DeliveryContract`: time is in microseconds; `EdgeTime` truncates to
milliseconds as `BigInt(Date.now()) * 1000n` does.  Each reading of a clock is off
by any skew of the instance, independently, so the edge clock may step back.

`SnapshotBuilder`: an observation's window is evaluated when it is made, the
ceiling at any time, and the snapshot is read at every later time.  Every window
and observation the models admit is tried; the collector itself supplies only
UNKNOWN ones and then sets the acquisition-age window of `FreshnessPolicy`, so the
combination speaks for the builder's own contract.  That the inputs are
validated a second time guards against instances built without validation; no
caller makes any.

`RiskOracle`: every step is one of `Publication` or one of the reader's, the others
standing still.  `known` is history: the latest computation that was delivered to
some buyer or reported "ok" when the current request began or was read.  Requests
follow one another; `PaidQuery` treats concurrent ones.

`ReserveIndex`: an input is a field of a snapshot record, and `missing` the inputs
`_Inputs.get` refuses.  Rationals are pairs, as the code's `Fraction`s; only the
final rounding leaves them.  Explanations, limitations, identifiers and the
context hash are wording.

`Collector`: `chain` is the state of the pinned block, contract by contract;
`answers` is what came back of each call.  `NextCall` makes the calls in the source's
order, each only if the earlier answers lead to it (`When`), to the contract they
name (`Asks`).  A failed call is one action whatever the reason: a timeout, an HTTP
or JSON-RPC error, bytes the ABI refuses, an orphaned block hash.  `Observations`
derives, for each observation the scorer or the acquisition status reads, its
state, value and the calls it cites; those that are always present and that nothing
reads are left out.  Equal evidence records collide in their content hash, unless
the collector deduplicates them; hashes include the time of the call, so that the
collision is the worst case of a clock that stood still.  The check of the reserve's
id against its bitmap is made at the eModes read, the first to use it.

`ReserveVault`: the contract stores nothing, so its state is that of the three
tokens; each call reads them in one transaction and is a state function,
`Verdict`.  Word size and basis points are parameters; the instance keeps the
source's relation of the two limits (the exposure cap is the stricter), so that
every one of the five outcomes and the panic occurs.

Data is abstracted throughout: `score` stands for score, level, confidence and
factors, which are null together; `complete` for every factor being known; a
publication for its row and whether its companions are there (the evidence
batch is one statement).

## Runs

| Run | Question | Bounds |
|---|---|---|
| `delivery` | Do Python, SQL and TypeScript agree at every boundary, for every clock skew? | ages 2, 4, 7; a millisecond of 3 ticks; skew of one tick each way; every age of a publication from 0 to past the last boundary, every cut of its three inserts |
| `paid_query` | With a publication replaced under two requests, settle calls that are answered late, twice, as pending or not at all, and timers that may be late, so that an assessment can expire during its settlement: is what is sold paid, valid and booked once, is a buyer asked to pay again over a settlement nobody disclaimed, does every request end, and is `PayPerQuery` implemented? | 2 requests that may share 1 authorization, 2 publications with data one tick old, a timer lag of one tick, time 0..10 |
| `paid_query_pending` | Is a pending settlement kept from being challenged again? It is not. | 1 request, 1 authorization, 1 publication, time 0..9 |
| `publication` | Are reports honest, is what was reported ok served, does a run end by itself, and do the three tables, read at every moment, implement the abstract board, under timeouts, retries, late executions and kills? | 2 runs, 2 attempts, job limit 1, time 0..4 |
| `publication_unreconciled` | Is what a failed run left behind kept from readers until reconciled? It is not. | 1 run, 3 attempts |
| `system` | Ingestion and Worker together: is what is served whole, can a request be told something older than was delivered or reported before, and how old is the block behind a usable assessment at a delivery-time check? | 2 runs on clocks a tick ahead or behind, a gateway answering 500 after a commit, requests one after another, an edge clock that may be behind; ages 0, 1, 2, so that every deadline falls inside time 0..3 |
| `scoring` | What does a change of two values, or the loss of two, do to the index? | 4 snapshots around the kink, the thresholds and the deadlines, 3 to 6 values of each of 27 fields; units of 4 basis points, a ray of 4, one-point cents |
| `collection` | Is what is scored the state of one canonical block, whatever calls fail? | 20 states of the block: the deployed one and a departure in each thing the code looks at; any 2 failures; orphaned at any moment |
| `collection_complete` | Is a complete acquisition one with the data the factors require? It need not be. | the same |
| `vault` | Is the vault's answer that of exact fractions in every state of its tokens, and when does it panic? | a word of 44, 6 basis points (2 and 3), every amount |
| `snapshot` | Does a combined window say at every later moment what its inputs say, and can building it fail? | 2 fields, time 0..2, deadlines 0..3 |
| `snapshot_ceiling` | Is a ceiling "never extended"? Its `unknown_after` is. | the same |

Two requests and one authorization are the smallest instance in which two requests
compete for an authorization, share its transfer, or one has none; two
publications let a request hold one row while the next is partial, whole or
unscored, and a row be replaced between the read and the 200; two runs let a late
insert meet a later run.  Ages are small but keep their order and distance, so that
each deadline can fall before, during and after each await.

`paid_query` compares states in a view, `Kept`.  It leaves out what a request kept
for its own stages once it is over, and the newest row once nobody can read it.  No
action, property or fairness condition looks at these values from then on, so that
states alike in the view have the same future, and liveness is decided correctly too.
No symmetry is used.

The small units of `scoring` keep every threshold reachable: with four basis points,
a ray of 4 and scores in whole points, every ramp has interior points, both clips,
its kink and its ends inside the values tried, and halves occur in the rounding.
Two changes are enough for two factors to move against each other, for a cap and
what it is compared with, and for an answer and its scale.  Two failures are the
smallest number that takes two inputs of one derived value or a verification and
the value it guards.  One attempt per insert suffices for the composition: what a
retry adds, a second identical request executed late, is tried in `publication`,
where two attempts are the smallest number with a retry and the last attempt in
different states.  `system` leaves out of the explored view three variables that no
action and no property of it reads.

Bounds on the clock, on runs and on publications exist for TLC only.  A request
starts only if it can end before `MaxTime`, and a run only if its limit fits, so
no behaviour is cut short; `Quiescent` is the end of bounded time, and deadlock
is checked everywhere `Quiescent` or a step must remain.

### What the properties say

* `DatabaseFollowsPolicy`, `WorkerFollowsPolicy`: SQL and TypeScript compute
  `status_at`, the Worker at the latest time any of its checks saw.
* `LateUseIsBounded`: the millisecond clock lets an assessment through less
  than a millisecond (plus the clock's lag) after its deadline.
* `NeverUpgraded`, `HeldOnlyDowngraded`: checks only ever make things worse.  Of an
  answer that is unusable already they say nothing more: the level it is shown with
  can move from *unknown* to *stale* on an edge clock that is behind (`contracts.ts:83`).
* `PaidDelivery`: a 200 was paid for and carries a stored row at the policy's
  level at the moment of the reply.
* `ExpiredOnlyByOverrun` and, proved only, `ChargeOnlyIfAdmitted`: the admission
  margin does what it is for; a buyer is charged and refused only if a settle call
  outlasts its own timeout.
* `NoChallengeUnlessDisclaimed`: a settlement that timed out, failed or returned an
  unmatched receipt ends in 503, never in a new invitation to pay, as long as it may
  transfer or has; the one exception is a settle call the facilitator itself answered
  as not successful.  `NoChallengeOverOwnSettlement`, without the exception, is what
  the documents ask for and what the code does not do (see Findings).
* `EventsMatchSales`: one event per transaction, each a real sale.
* `KeepsPromise`: refinement of `PayPerQuery`, where a pending answer disclaims an
  order that stays open; `EveryRequestEnds` is that specification's liveness, `Closes`.
* `ReportIsHonest` and, proved only, `WritesAreOrdered` and `NoDuplicates`: what the
  operator may conclude from a failed run's report.
* `RunsEnd`: a run ends before its limit has to kill it.
* `OkIsServed`, `ServedIsWhole`: what readers get, whatever was cut short.
* `BoardNeverTurnsBack`: refinement of `PublicBoard`: an assessment is offered once, for
  one stretch of time, and never replaced by an older one.
* `BuyersNeverGoBack`, `DeliveredStateIsRecent`: the same from the buyer's side, through
  the Worker's checks: replies never go back in time, and the block behind a usable
  one is at most the stale age old, plus the edge clock's lag and resolution; no error
  of a runner's clock stretches that.
* `RoundedHalfUp`, `NoFailureIsAveragedAway`, `RaisesOnlyForTheFuture`: rounding and
  bands; one factor at its worst is critical; the scorer never builds what its own
  model refuses.
* `WorseNeverScoresLower`, `LosingInputsNeverImproves`, `TheScaleOfAnAnswerIsNoRisk`:
  relations between two assessments: the index is monotone in what harms claim
  holders, never improved by ignorance, and blind to how a quantity is written.
* `NothingScoredOfOldState`, `NothingScoredOfAnOrphan`: age by the chain as well as by
  acquisition; no score of a block that was orphaned before the last call.
* `ScoreIsOfTheChain`, `RefusedOnlyForRequired`, `OracleIsVerifiedByCode`: whatever
  fails on the way, a score that is issued is the score of the pinned block's own
  state; optional calls never cost the snapshot; reviewed metadata counts only with
  the reviewed code.
* `RaisesOnlyForItsInputs`, `WorstOfItsWindows`: the combined deadlines are coherent,
  and the combined window is at every later time the worst of its windows, up to
  STALE; `UsableIsComplete` relates freshness to the acquisition status.
* `AnswersExactly`, `PanicsOnlyOnBacking`: rounding and splitting change no verdict,
  and only the vault's own addition can overflow.
* `NothingFromFrozenReserves` (proved only): a paused or blacklisted vault supports
  nothing.

### Findings

* `docs/research/production-v0-implementation-spec.md:461` (and 234), after
  `x402-v2.md:608`, against `payment.ts:213`: `settlement_pending` shall be kept as
  ambiguous and never answered with an instruction to sign a new payment.
  `facilitator.ts:17-20` drops the `errorReason` that tells it from a refusal, and
  the buyer gets a fresh 402 while its first transfer may still confirm.
* `README.md:184` and `persistence.py:135` against the serving function: an
  assessment whose run reported failure is served once its last insert commits.
  Nothing stores that a reconciliation is due; completeness decides.
* `snapshot_builder.py:27` against `snapshot_builder.py:63`: a ceiling's or an input's
  `unknown_after` is dropped, so what should become UNKNOWN stays STALE.  The
  collector replaces the combined window and does not show it.
* `models.py:283` against `aave_v3_base.py:337` (and 444): when the feed's `aggregator()`
  or the proxy's code cannot be read, the observations of it are left out rather than
  marked missing, and the acquisition counts as *complete* although inputs the oracle
  factor requires are absent.  No score is issued then; only the label is wrong.

### Fairness

`PaidQuery`: time passes, and an abort timer that is due fires (`setTimeout` in
`supabase.ts` and `facilitator.ts`).  The database, the facilitator and the buyer owe
nothing.  `Publication`: the process takes its next step (every HTTP call has a
15 s timeout and every back-off is a bounded sleep); the database and the gateway
owe nothing, and the workflow's kill is not needed.  The other modules state
safety only: a collection makes some thirty calls, each bounded by its timeout.

## Proofs

`PaidQueryProofs` proves for every set of requests and authorizations, every
timeouts, ages and timer lag:

* `TypesHold`, `BooksHold`, `ChargesAreAdmitted`, `ChallengesAreSafe`,
  `ExpiryIsOverrun`: `Spec => []...` for `TypeOK`, `SettlementBooks`,
  `ChargeOnlyIfAdmitted`, `NoChallengeUnlessDisclaimed`, `ExpiredOnlyByOverrun`;
* `NeverUpgradedInFlight`: `Spec => HeldOnlyDowngraded`;
* `SalesArePaidFor` and `LedgerIsHonest`: `Spec => []...` for `PaidDelivery` and
  `EventsMatchSales`;
* `EndpointKeepsPromise`: `Spec => KeepsPromise`.

The money properties are not inductive: that a 402 is not sent over an open
settlement depends on where the request was when the settle call went out.
`SettlementBooks` ties, per request, its stage, its open settle call, its
receipt, its reply and its charges together: a settled or refused receipt leaves
nothing open, a pending one may, and a 402 goes only to a request without an open
or executed order or with a pending receipt.  It says of a settling request that it
was admitted, that its assessment was usable then and that its deadline is the
recorded one.  Together with typing (`Typed`) it is inductive; `InitBooks`,
`HandlerBooks`, `EnvironmentBooks` and `StepBooks` are the three facts, one step per
action.  The time arithmetic sits in four lemmas about `ValidateAssessment`
(`SellableBeforeExpiry`, `SellableEarlier`, `SellableStable`,
`UnsellableOnlyByExpiry`) which show that a sellable assessment becomes
unsellable only by reaching its expiry, whatever its other deadlines.  What is
sold needs a second invariant, `Sales`: every stored row is one the policy issued;
what a request under way holds, if usable, carries such a row as it was at an
earlier moment (`Carries`, kept by every further check, `CheckCarries`); a 200 is
final, was paid for and carries a row at its own moment; and the ledger holds the
events of such replies only.  The refinement then goes step by step: a reply or a drop is
`Close`, an admission `Order`, a transfer `Charge`, a pending answer `Disclaim`, the
end of a settle call without a transfer `Lapse`, everything else a stutter.  The proofs assume `AgeAssumption` and
`PaidQueryAssumption`, nothing else.

`ReserveVaultProofs` proves `Spec => []...` for `AnswersExactly`,
`PanicsOnlyOnBacking` and `NothingFromFrozenReserves`, for every word and all basis
points with `BPS * BPS + BPS <= Word`, which 2^256 and 10,000 meet by far.  The
argument is arithmetic: `Ceiling` and `Floor` turn a bound by a rounded quotient into
a bound by a product, `Split` puts the share of the whole part and of the rest
together (`MinimumLiquidExact`, `MaximumAaveExact`), and `NoIntermediateOverflow`
bounds every intermediate result by the backing or by `BPS * BPS + BPS`.  Its
assumptions are `BasisPointAssumption` and `AmountAssumption`; that frozen reserves
are refused needs the liquid minimum to be at least one basis point.

`RiskOracleProofs` proves of `Publication` `TypeOK`, `WritesAreOrdered`, `NoDuplicates` and
`ReportIsHonest` for any numbers of runs, attempts and clock errors.  None is
inductive: that nothing of a later table is in flight depends on where the run
stands, and an insert executed years later must still be one the books allow.
`Books` relates, for every run, what is in flight, what is committed, where the
current run stands and whether an earlier attempt is open, and what each report
says; with `Typed` it is inductive.  `ReportIsHonest` is proved under `GatewayFaults = FALSE`: with a gateway
that answers 500 for a committed insert it is false, as the writer does not count
such an answer as ambiguous.

It proves the refinement, `Spec => BoardNeverTurnsBack`, and `ServedIsWhole`.  `Rows` says that each row is one a run computed.  The newest row exists and changes only for a newer one (the order
of `NewerThan` is total on rows because insertion numbers differ); what is served of
it follows from `OfferedWhile`, the lemma of `AssessmentProofs` that the database
offers an assessment exactly while it is whole, scored, not of the future and not
expired.  So a step of the tables is an announcement, an offer, a withdrawal or
nothing to the reader.

`OkIsServed` needs more than the books.  `Completed` says that a run that reported ok
has its rows in all three tables, whatever the gateway answers; `Dated` that no row,
stored or under way, was computed ahead of the database's clock, and that a later run
computed later, so that the newest row is the reported one or that of a later run.  The
second holds for runners whose clocks are right, `ClockErrors = {0}`, as in the
`publication` run that checks it: a row computed on a clock that is ahead hides those
after it until its time has come.

`DeliveryProofs` proves every property of the `delivery` run, for all age limits,
units of the edge clock, skews and numbers of checks: `TypeOK`,
`DatabaseFollowsPolicy`, `WorkerFollowsPolicy`, `NothingFromAPartialPublication`,
`WorkerAcceptsDatabaseResults`, `LateUseIsBounded`, `NeverUpgraded`.  `Issued` says what
the ingestion can stamp; `AnswersFor` relates an answer to its publication and
the policy; `Tracks` says that after any checks an assessment is what its answer
was, cut at the latest time of the checks.  `CheckedResult` and `TrackedTwice` show
that one check keeps that relation and that two compose; `Followed` is the
invariant.

Of the composition it proves the three properties of the `system` run for any numbers
of runs, attempts, checks and clock errors.  The Worker's steps leave the tables alone
and the publisher's the reader, so `RowInvariance`, proved for `Publication`, carries
over, and the whole implements `PublicBoard` too (`TheWholeIsABoard`).
`Sound` adds what the reader knows: every reply speaks of a stored row (`Told`), a
usable one of a whole row whose block dates its expiry, it is not older than what
was known when the request began, and a checked one passed its last check on a
clock that lags by so much at most.  A new row enters as the newest, which is why
`known` never passes what the next read returns.

`ScoringProofs` proves every property of the `scoring` run for every unit of basis
points, ray, cent and every set of snapshots whose fields have their types
(`ChangeAssumption`).  The lemmas go through the rationals: each of the four factors of
a well-formed snapshot is a fraction with a positive denominator between 0 and 100,
so their mean and the critical floor are too; the half-up quotient is within half a
cent of it; a factor at 100 lifts the floor to 75 and rounding keeps it there; and
the levels by the rounded score are those the result's own model demands, so that
nothing but an instant before the snapshot's makes the scorer raise.  Losing inputs
leaves each factor as it was or makes it unknown, and one unknown factor means no
score.

`WorseNeverScoresLower` is about the order of the rationals.  `AtMostTransitive`,
`PlusMonotone`, `GreaterMonotone` and their like make the order usable; `RampMonotone`
and `RampOfLowerKink` show that the two-part utilization ramp rises with utilization
and with a falling kink, across the kink; each factor is then shown worse where its
inputs are (`OracleWorse`, `LiquidityWorse`, `CollateralWorse`, `RestrictionWorse`),
and mean, critical floor and half-up rounding keep the order (`ExactMonotone`,
`RoundedMonotone`).

`TheScaleOfAnAnswerIsNoRisk` holds because answers are compared by cross
multiplication (`OneMoreDigit`): the rewritten snapshot gives the same oracle factor
and the same everything else.  It needs `10 ^ (d + 1) = 10 * 10 ^ d`, which the
provers do not know of their exponentiation; `PowerAssumption` states that of the
decimals of a behaviour, and says nothing of the code.

`SnapshotBuilderProofs` proves every property of the `snapshot` run for any fields,
deadlines, times and ceilings.  The invariant `Consistent` says that the inputs are ones the models
admit, that what was refused was refused for its inputs, and that what was built
summarises the windows it was built from.
`KnownCombination` is the heart: the minima of coherent deadlines are coherent, so
that building raises only for inputs that are invalid themselves; and at any later
time a minimum has passed exactly if one of its deadlines has (`SummaryIsTheWorst`),
which is why the combined status is the worst of the windows' own, up to STALE.

`CollectorProofs` proves the four properties of the `collection` run for any set of
chain states, any failures and any moment of an orphaning.  Calls are made in a fixed
order (`Place`), and what decides whether and where a call is made is settled by
earlier ones (`DecidedBefore`), so that an answer, once recorded, stays the answer to
the same question.  The invariant `Collected` has five parts: the calls made are
those the earlier answers lead to (`Guarded`), in order (`Ordered`); each failed or
returned what the pinned block says (`Reported`); no call came too late while the block
is canonical, nor any if the last call was answered (`Canonical`); and the collection
goes on only with every required answer (`Kept`).  The last call is for the proxy's code, and without it the oracle is
not verified: so nothing is scored of a block orphaned before it.  `Means` is,
observation by observation, what is observed on a chain that answers everything, and
`Says` that the collector observes that or marks the input missing; `SameScore` shows
that a score depends on no missing input, so that it is the score of the chain
itself.  No two records of evidence collide (`NothingDuplicated`): equal
calls are dropped, and the only two reads of code are of different contracts, the
adapter and the proxy (`CollectorAssumption`, from `base_usdc_oracle_metadata.json`,
which also states the shape of decoded answers).

Assumptions are those named in the modules; the two hypotheses a theorem adds,
`GatewayFaults = FALSE` and `ClockErrors = {0}`, stand in its statement.

Model-checked only: liveness under fairness, which the provers do not treat
(`EveryRequestEnds`, `RunsEnd`).  Every other property of a passing run is a theorem.
The four violations (`paid_query_pending`, `publication_unreconciled`,
`snapshot_ceiling`, `collection_complete`) are counterexamples by nature.

## Not modelled

* Cryptography, wire formats, SQL roles and grants, the comparison of documents
  inside the serving function (abstracted to presence), ABI decoding (a value or a
  failure), content hashes and identifiers.
* The Bazaar discovery declaration: constant data.
* The legacy mock service: stateless, constant data, not on the production path.
* The agent client example: its own code ends at a local check of the first
  challenge; which challenge is signed then is decided by the x402 client library,
  which is not part of the repository.
* The vault's constructor checks (addresses and decimals of its tokens), made once.
* Encodings of single fields in `models.py` (patterns, lengths): no interplay.
* A runner's 500 or 502 after a commit is a parameter (`GatewayFaults`): the report
  is not honest then, and no document says it is.

## Plan

Done: the core (`DeliveryContract`, `PaidQuery`, `Publication`), the scorer, the
collector, the builder, the reserve contracts, the abstract board and its
refinement, the composition `RiskOracle`, and the proofs listed above, which now state
every safety property and action property of the passing runs.  Left:

1. The evidence batch as more than one row: what a partly readable batch would mean to
   the serving function's comparison of documents.
2. `RiskOracle` with concurrent requests, from `PaidQuery` instead of the sequential
   reader, and its payment theorems carried over.
3. The converse of `ScoreIsOfTheChain`: which failures cost a score, as a theorem next to
   `RefusedOnlyForRequired`.
