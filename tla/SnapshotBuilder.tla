---------------------------- MODULE SnapshotBuilder ----------------------------
(***************************************************************************)
(* risk_oracle/snapshot_builder.py: observations with freshness windows of   *)
(* their own, collected one after the other, become one snapshot with one    *)
(* window under a ceiling the caller supplies.  The models it builds refuse  *)
(* incoherent values (risk_oracle/models.py).  Subjects, blocks, evidence    *)
(* and reasons are left out.                                                 *)
(***************************************************************************)
EXTENDS FreshnessPolicy, FiniteSets

CONSTANTS Fields,     \* names of observations
          Critical,   \* those the caller names critical
          MaxTime     \* bound on true time

ASSUME FieldAssumption ==
  Critical \subseteq Fields /\ Critical # {} /\ MaxTime \in Nat

VARIABLES
  now,            \* the clock observations and readers share
  observations,   \* field -> observation, for the fields observed so far
  ceiling,        \* the caller's window, or NoWindow before the call
  snapshot        \* NoSnapshot, Raised, or what was built

vars == <<now, observations, ceiling, snapshot>>

NoWindow == [status |-> "none"]
NoSnapshot == [outcome |-> "none"]
Raised == [outcome |-> "raised"]

Times == 0..MaxTime
Deadlines == 0..(MaxTime + 1) \cup {NoTime}
States == {"present", "missing", "invalid", "stale", "unsupported", "not_applicable"}

\* The Freshness values evaluated at a time; constructing any other raises.
Windows(at) ==
  {f \in [status: Statuses, evaluated_at: {at}, fresh_until: Deadlines,
          expires_at: Deadlines, unknown_after: Deadlines] : ValidDeadlines(f)}

HasValue(o) == o.state \in {"present", "stale"}

\* Faulty variant: what is unavailable may claim any freshness.
ValidIfStale(o) ==
  /\ o.state = "stale" => o.freshness.status = "STALE"
  /\ o.state = "present" => o.freshness.status # "STALE"

\* Observation.valid_state.
ValidState(o) ==
  /\ ~HasValue(o) => o.freshness.status = "UNKNOWN"
  /\ o.state = "stale" => o.freshness.status = "STALE"
  /\ o.state = "present" => o.freshness.status # "STALE"

Init ==
  /\ now = 0 /\ observations = <<>>
  /\ ceiling = NoWindow /\ snapshot = NoSnapshot

------------------------------------------------------------------------------
(* The combination, of the observations made so far. *)

Observed == DOMAIN observations
Inputs == {observations[name] : name \in Observed}
Missing == {name \in Critical : name \notin Observed \/ ~HasValue(observations[name])}
Partial == Missing # {} \/ \E o \in Inputs : o.state \notin {"present", "not_applicable"}
Under(c) == {c} \cup {o.freshness : o \in Inputs}

\* Faulty variant: every window counts as of its own evaluation.
StatusesWhenCollected(c) == {w.status : w \in Under(c)}

\* statuses: every window as of the ceiling's evaluation.
StatusesAt(c) == {StatusAt(w, c.evaluated_at) : w \in Under(c)}

CombinedStatus(c) ==
  IF Missing # {} \/ "UNKNOWN" \in StatusesAt(c) THEN "UNKNOWN"
  ELSE IF "STALE" \in StatusesAt(c) THEN "STALE"
  ELSE IF Partial \/ "DEGRADED" \in StatusesAt(c) THEN "DEGRADED"
  ELSE "FRESH"

\* Faulty variant: the latest deadline.
LatestUnlessUnknown(c, times) ==
  IF CombinedStatus(c) = "UNKNOWN" THEN NoTime
  ELSE CHOOSE t \in times : \A u \in times : u <= t

\* The earliest deadline of all windows; none for an unknown snapshot.
EarliestUnlessUnknown(c, times) ==
  IF CombinedStatus(c) = "UNKNOWN" THEN NoTime
  ELSE CHOOSE t \in times : \A u \in times : t <= u

\* combined_freshness; unknown_after is not set.
Combined(c) ==
  [status |-> CombinedStatus(c), evaluated_at |-> c.evaluated_at,
   fresh_until |-> EarliestUnlessUnknown(c, {w.fresh_until : w \in Under(c)}),
   expires_at |-> EarliestUnlessUnknown(c, {w.expires_at : w \in Under(c)}),
   unknown_after |-> NoTime]

AcquisitionStatus ==
  IF \A o \in Inputs : ~HasValue(o) THEN "failed"
  ELSE IF Partial THEN "partial" ELSE "complete"

\* ReserveSnapshot's own rules: at least one observation, and a complete acquisition
\* has nothing unavailable.
Coherent(acquisition) ==
  /\ Observed # {}
  /\ acquisition = "complete" =>
       \A o \in Inputs : o.state \in {"present", "not_applicable"}

------------------------------------------------------------------------------
(* Steps. *)

\* A caller adds any observation its model admits, its window evaluated now (the
\* collector's own are all UNKNOWN, as is its ceiling).
Observe(name) ==
  /\ snapshot = NoSnapshot /\ name \notin Observed
  /\ \E s \in States, f \in Windows(now) :
       /\ ValidState([state |-> s, freshness |-> f])
       /\ observations' = [n \in Observed \cup {name} |->
            IF n = name THEN [state |-> s, freshness |-> f] ELSE observations[n]]
  /\ UNCHANGED <<now, ceiling, snapshot>>

\* build_reserve_snapshot(freshness = c): the inputs are validated again, status_at
\* raises for a window evaluated after the ceiling, the models for incoherent values.
Build(c) ==
  /\ snapshot = NoSnapshot /\ ceiling' = c
  /\ snapshot' =
       IF /\ \A o \in Inputs : ValidState(o)
          /\ \A w \in Under(c) : w.evaluated_at <= c.evaluated_at
          /\ ValidDeadlines(Combined(c)) /\ Coherent(AcquisitionStatus)
       THEN [outcome |-> "built", freshness |-> Combined(c),
             acquisition |-> AcquisitionStatus]
       ELSE Raised
  /\ UNCHANGED <<now, observations>>

Tick ==
  /\ now < MaxTime /\ now' = now + 1
  /\ UNCHANGED <<observations, ceiling, snapshot>>

Next ==
  \/ \E name \in Fields : Observe(name)
  \/ \E at \in Times : \E c \in Windows(at) : Build(c)
  \/ Tick

Spec == Init /\ [][Next]_vars

------------------------------------------------------------------------------
(* Properties. *)

Built == snapshot.outcome = "built"
Known == Built /\ snapshot.freshness.status # "UNKNOWN"
Rank(f, at) == Severity[Lower[StatusAt(f, at)]]
Readable == Built /\ now >= snapshot.freshness.evaluated_at

\* The combination never breaks the contracts of the values it builds: the call
\* raises only for no observation at all or for a ceiling older than an observation.
RaisesOnlyForItsInputs ==
  snapshot = Raised =>
    Observed = {} \/ \E o \in Inputs : o.freshness.evaluated_at > ceiling.evaluated_at

\* At every later moment a known snapshot is exactly as fresh as the worst of the
\* windows it was built from, up to STALE, whichever of them expires first and
\* however they overlap.
WorstOfItsWindows ==
  Readable /\ Known =>
    LET ranks == {Rank(w, now) : w \in Under(ceiling)}
        worst == CHOOSE r \in ranks : \A s \in ranks : s <= r
    IN  Rank(snapshot.freshness, now) =
          (IF worst = Severity.unknown THEN Severity.stale ELSE worst)

\* A snapshot that is fresh or degraded when built was acquired completely: the
\* freshness and the acquisition status of a snapshot are computed apart, and no
\* unavailable observation leaves the first usable.
UsableIsComplete ==
  Built /\ snapshot.freshness.status \in {"FRESH", "DEGRADED"} =>
    snapshot.acquisition = "complete"

\* snapshot_builder.py:27: "Input deadlines may shorten that ceiling, never extend it":
\* a snapshot is never fresher than the ceiling, or than an input, is by then.
NeverExtended ==
  Readable => \A w \in Under(ceiling) : Rank(snapshot.freshness, now) >= Rank(w, now)
=============================================================================
