------------------------ MODULE SnapshotBuilderProofs ------------------------
(***************************************************************************)
(* Theorems about SnapshotBuilder: for any fields, any windows that overlap  *)
(* in any way, any ceiling and any later reader.                             *)
(***************************************************************************)
EXTENDS SnapshotBuilder, WellFoundedInduction, TLAPS

------------------------------------------------------------------------------
(* The earliest of a set of times, the worst of a set of ranks. *)

LEMMA Smallest ==
  ASSUME NEW T, T \subseteq Nat, T # {}
  PROVE  \E m \in T : \A k \in T : m <= k
<1> DEFINE R == OpToRel(<, Nat)
<1>1. R = {p \in Nat \X Nat : p[1] < p[2]}
  BY DEF OpToRel
<1>2. IsWellFoundedOn(R, Nat)
  BY NatLessThanWellFounded
<1> HIDE DEF R
<1>3. PICK m \in T : \A k \in T : <<k, m>> \notin R
  BY <1>2, WFMin
<1>4. \A k \in T : ~(k < m)
  BY <1>1, <1>3
<1> QED
  BY <1>4

\* The worst of some ranks is above all of them and one of them.
LEMMA Worst ==
  ASSUME NEW R, R \subseteq 0..3, R # {}
  PROVE  LET worst == CHOOSE r \in R : \A s \in R : s <= r
         IN  worst \in R /\ \A s \in R : s <= worst
<1>1. \E r \in R : \A s \in R : s <= r
  <2>1. R \subseteq {0, 1, 2, 3}
    OBVIOUS
  <2>2. CASE 3 \in R
    BY <2>1, <2>2
  <2>3. CASE 3 \notin R /\ 2 \in R
    BY <2>1, <2>3
  <2>4. CASE 3 \notin R /\ 2 \notin R /\ 1 \in R
    BY <2>1, <2>4
  <2>5. CASE 3 \notin R /\ 2 \notin R /\ 1 \notin R
    <3>1. R = {0}
      BY <2>1, <2>5
    <3> QED
      BY <3>1
  <2> QED
    BY <2>2, <2>3, <2>4, <2>5
<1> QED
  BY <1>1

------------------------------------------------------------------------------
(* One window. *)

\* A Freshness value as the model admits it.
Window(f) ==
  /\ f.status \in Statuses /\ f.evaluated_at \in Nat
  /\ f.fresh_until \in Nat \cup {NoTime} /\ f.expires_at \in Nat \cup {NoTime}
  /\ f.unknown_after \in Nat \cup {NoTime}
  /\ ValidDeadlines(f)

LEMMA WindowsAreLegal ==
  ASSUME NEW at \in Nat, NEW f \in Windows(at)
  PROVE  Window(f) /\ f.evaluated_at = at
  BY FieldAssumption DEF Window, Windows, Deadlines

\* What a window that is not UNKNOWN says at any time from its evaluation on.
LEMMA StatusOfWindow ==
  ASSUME NEW f, Window(f), NEW at \in Nat, f.evaluated_at <= at, f.status # "UNKNOWN"
  PROVE  /\ f.fresh_until \in Nat /\ f.expires_at \in Nat /\ f.fresh_until <= f.expires_at
         /\ StatusAt(f, at) \in Statuses
         /\ at >= f.expires_at <=> StatusAt(f, at) \in {"STALE", "UNKNOWN"}
         /\ at < f.expires_at =>
              StatusAt(f, at) = IF at >= f.fresh_until \/ f.status = "DEGRADED"
                                THEN "DEGRADED" ELSE "FRESH"
  BY DEF Window, ValidDeadlines, StatusAt, Statuses, NoTime

LEMMA RankOfWindow ==
  ASSUME NEW f, Window(f), NEW at \in Nat, f.evaluated_at <= at, f.status # "UNKNOWN"
  PROVE  /\ Rank(f, at) \in 0..3
         /\ at >= f.expires_at => Rank(f, at) \in {2, 3}
         /\ at < f.expires_at =>
              Rank(f, at) = IF at >= f.fresh_until \/ f.status = "DEGRADED" THEN 1 ELSE 0
<1> DEFINE st == StatusAt(f, at)
<1>1. /\ st \in Statuses
      /\ at >= f.expires_at <=> st \in {"STALE", "UNKNOWN"}
      /\ at < f.expires_at =>
           st = IF at >= f.fresh_until \/ f.status = "DEGRADED" THEN "DEGRADED" ELSE "FRESH"
      /\ f.expires_at \in Nat
  BY StatusOfWindow
<1> HIDE DEF st
<1>2. Rank(f, at) = Severity[Lower[st]]
  BY DEF Rank, st
<1>3. Severity[Lower[st]] = IF st = "FRESH" THEN 0 ELSE IF st = "DEGRADED" THEN 1
                            ELSE IF st = "STALE" THEN 2 ELSE 3
  BY <1>1 DEF Severity, Lower, Statuses
<1> QED
  BY <1>1, <1>2, <1>3 DEF Statuses

------------------------------------------------------------------------------
(* The combination. *)

Admissible(o) == o.state \in States /\ Window(o.freshness) /\ ValidState(o)

\* What a known combination takes from its windows.
Summary(f, c) ==
  /\ f.status \in {"FRESH", "DEGRADED", "STALE"} /\ f.evaluated_at = c.evaluated_at
  /\ f.unknown_after = NoTime
  /\ \A w \in Under(c) :
       w.status # "UNKNOWN" /\ f.fresh_until <= w.fresh_until /\ f.expires_at <= w.expires_at
  /\ (\E w \in Under(c) : f.fresh_until = w.fresh_until)
  /\ (\E w \in Under(c) : f.expires_at = w.expires_at)
  /\ f.status = "STALE" <=> c.evaluated_at >= f.expires_at
  /\ f.status = "FRESH" => \A w \in Under(c) : c.evaluated_at < w.fresh_until /\ w.status # "DEGRADED"
  /\ f.status = "DEGRADED" =>
       \E w \in Under(c) : c.evaluated_at >= w.fresh_until \/ w.status = "DEGRADED"

\* The inputs of a combination, the ceiling in time for all of them.
Timely(c) ==
  /\ Window(c) /\ \A o \in Inputs : Admissible(o)
  /\ \A w \in Under(c) : w.evaluated_at <= c.evaluated_at

LEMMA UnknownInput ==
  ASSUME NEW c, Timely(c), CombinedStatus(c) # "UNKNOWN"
  PROVE  /\ Missing = {}
         /\ \A w \in Under(c) : w.status # "UNKNOWN" /\ Window(w)
         /\ \A o \in Inputs : o.state \in {"present", "stale"}
<1>1. Missing = {} /\ "UNKNOWN" \notin StatusesAt(c)
  BY DEF CombinedStatus
<1>2. ASSUME NEW w \in Under(c) PROVE w.status # "UNKNOWN" /\ Window(w)
  <2>1. StatusAt(w, c.evaluated_at) # "UNKNOWN"
    BY <1>1, <1>2 DEF StatusesAt
  <2>2. Window(w)
    BY <1>2 DEF Timely, Under, Admissible
  <2> QED
    BY <2>1, <2>2 DEF StatusAt
<1>3. ASSUME NEW o \in Inputs PROVE o.state \in {"present", "stale"}
  <2>1. o.freshness.status # "UNKNOWN"
    BY <1>2, <1>3 DEF Under
  <2> QED
    BY <1>3, <2>1 DEF Timely, Admissible, ValidState, HasValue
<1> QED
  BY <1>1, <1>2, <1>3

\* An input that is stale by its own word is stale at the ceiling.
LEMMA CompleteUnlessStale ==
  ASSUME NEW c, Timely(c), CombinedStatus(c) \in {"FRESH", "DEGRADED"}
  PROVE  /\ ~Partial /\ AcquisitionStatus = "complete"
<1>1. /\ Missing = {} /\ \A o \in Inputs : o.state \in {"present", "stale"}
      /\ \A w \in Under(c) : w.status # "UNKNOWN" /\ Window(w)
  BY UnknownInput
<1>2. ASSUME NEW o \in Inputs PROVE o.state = "present"
  <2>1. o.freshness \in Under(c) /\ "STALE" \notin StatusesAt(c)
    BY <1>2 DEF Under, CombinedStatus
  <2>2. StatusAt(o.freshness, c.evaluated_at) \notin {"STALE", "UNKNOWN"}
    BY <2>1 DEF StatusesAt, CombinedStatus
  <2>3. c.evaluated_at < o.freshness.expires_at
    BY <1>1, <2>1, <2>2, StatusOfWindow DEF Timely, Window
  <2>4. o.freshness.status # "STALE"
    BY <1>1, <2>1, <2>3 DEF Timely, Window, ValidDeadlines
  <2> QED
    BY <1>1, <1>2, <2>4 DEF Timely, Admissible, ValidState
<1>3. ~Partial
  BY <1>1, <1>2 DEF Partial
<1>4. PICK name \in Critical : TRUE
  BY FieldAssumption
<1>5. name \in Observed /\ HasValue(observations[name])
  BY <1>1 DEF Missing
<1>6. ~(\A o \in Inputs : ~HasValue(o))
  BY <1>5 DEF Inputs
<1> QED
  BY <1>3, <1>6 DEF AcquisitionStatus

LEMMA Earliest ==
  ASSUME NEW T, T \subseteq Nat, T # {}
  PROVE  LET m == CHOOSE t \in T : \A u \in T : t <= u
         IN  m \in T /\ \A u \in T : m <= u
  BY Smallest

LEMMA KnownCombination ==
  ASSUME NEW c, Timely(c), CombinedStatus(c) # "UNKNOWN"
  PROVE  /\ Summary(Combined(c), c)
         /\ Combined(c).fresh_until \in Nat /\ Combined(c).expires_at \in Nat
         /\ Combined(c).fresh_until <= Combined(c).expires_at
<1> DEFINE F == {w.fresh_until : w \in Under(c)}
           E == {w.expires_at : w \in Under(c)}
           f == EarliestUnlessUnknown(c, F)
           e == EarliestUnlessUnknown(c, E)
           st == CombinedStatus(c)
           at == c.evaluated_at
<1>1. \A w \in Under(c) : w.status # "UNKNOWN" /\ Window(w) /\ w.evaluated_at <= at
  BY UnknownInput DEF Timely
<1>2. at \in Nat
  BY DEF Timely, Window
<1>3. \A w \in Under(c) :
        /\ w.fresh_until \in Nat /\ w.expires_at \in Nat /\ w.fresh_until <= w.expires_at
        /\ at >= w.expires_at <=> StatusAt(w, at) \in {"STALE", "UNKNOWN"}
        /\ at < w.expires_at =>
             StatusAt(w, at) = IF at >= w.fresh_until \/ w.status = "DEGRADED"
                               THEN "DEGRADED" ELSE "FRESH"
  BY <1>1, <1>2, StatusOfWindow
<1>4. c \in Under(c)
  BY DEF Under
<1>5. f \in F /\ \A u \in F : f <= u
  <2>1. F \subseteq Nat /\ F # {}
    BY <1>3, <1>4
  <2> HIDE DEF F
  <2>2. f = CHOOSE t \in F : \A u \in F : t <= u
    BY DEF EarliestUnlessUnknown
  <2> QED
    BY <2>1, <2>2, Earliest
<1>6. e \in E /\ \A u \in E : e <= u
  <2>1. E \subseteq Nat /\ E # {}
    BY <1>3, <1>4
  <2> HIDE DEF E
  <2>2. e = CHOOSE t \in E : \A u \in E : t <= u
    BY DEF EarliestUnlessUnknown
  <2> QED
    BY <2>1, <2>2, Earliest
<1>7. /\ Combined(c).status = st /\ Combined(c).evaluated_at = at
      /\ Combined(c).fresh_until = f /\ Combined(c).expires_at = e
      /\ Combined(c).unknown_after = NoTime
  BY DEF Combined
<1> HIDE DEF f, e
<1>8. /\ \A w \in Under(c) : f <= w.fresh_until /\ e <= w.expires_at
      /\ (\E w \in Under(c) : f = w.fresh_until) /\ (\E w \in Under(c) : e = w.expires_at)
  BY <1>5, <1>6
<1>9. f \in Nat /\ e \in Nat /\ f <= e
  BY <1>3, <1>8
<1>10. \A w \in Under(c) : StatusAt(w, at) # "UNKNOWN"
  BY DEF CombinedStatus, StatusesAt
<1>11. st \in {"FRESH", "DEGRADED", "STALE"}
  BY DEF CombinedStatus
<1>12. st = "STALE" <=> at >= e
  <2>1. st = "STALE" <=> \E w \in Under(c) : StatusAt(w, at) = "STALE"
    BY DEF CombinedStatus, StatusesAt
  <2> HIDE DEF st
  <2> QED
    BY <1>2, <1>3, <1>8, <1>9, <1>10, <2>1
<1>13. st = "FRESH" => \A w \in Under(c) : at < w.fresh_until /\ w.status # "DEGRADED"
  <2> SUFFICES ASSUME st = "FRESH", NEW w \in Under(c)
               PROVE  at < w.fresh_until /\ w.status # "DEGRADED"
    OBVIOUS
  <2>1. StatusAt(w, at) \notin {"STALE", "DEGRADED", "UNKNOWN"}
    BY <1>10 DEF CombinedStatus, StatusesAt
  <2> QED
    BY <1>2, <1>3, <2>1
<1>14. st = "DEGRADED" => \E w \in Under(c) : at >= w.fresh_until \/ w.status = "DEGRADED"
  <2> SUFFICES ASSUME st = "DEGRADED"
               PROVE  \E w \in Under(c) : at >= w.fresh_until \/ w.status = "DEGRADED"
    OBVIOUS
  <2>1. ~Partial
    BY CompleteUnlessStale
  <2>2. PICK w \in Under(c) : StatusAt(w, at) = "DEGRADED"
    BY <2>1 DEF CombinedStatus, StatusesAt
  <2> QED
    BY <1>2, <1>3, <2>2
<1> HIDE DEF st, at
<1> QED
  BY <1>1, <1>7, <1>8, <1>9, <1>11, <1>12, <1>13, <1>14 DEF Summary, at

\* The models' contracts hold of whatever is combined in time.
LEMMA NeverRaises ==
  ASSUME NEW c, Timely(c), Observed # {}
  PROVE  ValidDeadlines(Combined(c)) /\ Coherent(AcquisitionStatus)
<1>1. Coherent(AcquisitionStatus)
  BY DEF Coherent, AcquisitionStatus, Partial
<1>2. CASE CombinedStatus(c) = "UNKNOWN"
  <2>1. /\ Combined(c).status = "UNKNOWN" /\ Combined(c).unknown_after = NoTime
        /\ Combined(c).fresh_until = NoTime /\ Combined(c).expires_at = NoTime
    BY <1>2 DEF Combined, EarliestUnlessUnknown
  <2>2. ValidDeadlines(Combined(c))
    BY <2>1 DEF ValidDeadlines
  <2> QED
    BY <1>1, <2>2
<1>3. CASE CombinedStatus(c) # "UNKNOWN"
  <2> PICK f : f = Combined(c)
    OBVIOUS
  <2>1. Summary(f, c) /\ f.fresh_until \in Nat /\ f.expires_at \in Nat /\ f.fresh_until <= f.expires_at
    BY <1>3, KnownCombination
  <2>2. ValidDeadlines(f)
    BY <2>1 DEF ValidDeadlines, Summary, NoTime
  <2> QED
    BY <1>1, <2>2
<1> QED
  BY <1>2, <1>3

\* Whatever is built from a summary of some windows is as fresh as the worst of them.
LEMMA SummaryIsTheWorst ==
  ASSUME NEW c, NEW f, NEW at \in Nat, Timely(c), Summary(f, c), c.evaluated_at <= at
  PROVE  LET ranks == {Rank(w, at) : w \in Under(c)}
             worst == CHOOSE r \in ranks : \A s \in ranks : s <= r
         IN  Rank(f, at) = (IF worst = 3 THEN 2 ELSE worst)
<1> DEFINE ranks == {Rank(w, at) : w \in Under(c)}
           worst == CHOOSE r \in ranks : \A s \in ranks : s <= r
<1> SUFFICES Rank(f, at) = (IF worst = 3 THEN 2 ELSE worst)
  OBVIOUS
<1>1. \A w \in Under(c) : Window(w) /\ w.status # "UNKNOWN" /\ w.evaluated_at <= at
  BY DEF Timely, Summary, Under, Admissible, Window
<1>2. \A w \in Under(c) :
        /\ w.fresh_until \in Nat /\ w.expires_at \in Nat /\ Rank(w, at) \in 0..3
        /\ at >= w.expires_at => Rank(w, at) \in {2, 3}
        /\ at < w.expires_at =>
             Rank(w, at) = IF at >= w.fresh_until \/ w.status = "DEGRADED" THEN 1 ELSE 0
  BY <1>1, RankOfWindow, StatusOfWindow
<1>3. worst \in ranks /\ \A s \in ranks : s <= worst
  <2>1. ranks \subseteq 0..3 /\ ranks # {}
    BY <1>2 DEF Under
  <2> HIDE DEF ranks
  <2> QED
    BY <2>1, Worst
<1> HIDE DEF worst
<1>4. (\E w \in Under(c) : worst = Rank(w, at)) /\ \A w \in Under(c) : Rank(w, at) <= worst
  BY <1>3
<1>5. f.fresh_until \in Nat /\ f.expires_at \in Nat /\ c.evaluated_at \in Nat
  BY <1>2 DEF Summary, Timely, Window
<1>6. Rank(f, at) = IF at >= f.expires_at THEN 2
                    ELSE IF at >= f.fresh_until \/ f.status = "DEGRADED" THEN 1 ELSE 0
  BY DEF Rank, StatusAt, Severity, Lower, Summary, NoTime
<1>7. CASE at >= f.expires_at
  <2>1. PICK w \in Under(c) : f.expires_at = w.expires_at
    BY DEF Summary
  <2>2. worst \in {2, 3}
    BY <1>2, <1>4, <1>7, <2>1
  <2> QED
    BY <1>6, <1>7, <2>2
<1>8. CASE at < f.expires_at
  <2>1. \A w \in Under(c) :
          /\ f.fresh_until <= w.fresh_until
          /\ Rank(w, at) = IF at >= w.fresh_until \/ w.status = "DEGRADED" THEN 1 ELSE 0
    BY <1>2, <1>5, <1>8 DEF Summary
  <2>2. CASE at >= f.fresh_until \/ f.status = "DEGRADED"
    <3>1. \E w \in Under(c) : at >= w.fresh_until \/ w.status = "DEGRADED"
      BY <1>2, <1>5, <2>2 DEF Summary
    <3>2. worst = 1
      BY <1>4, <2>1, <3>1
    <3> QED
      BY <1>5, <1>6, <1>8, <2>2, <3>2
  <2>3. CASE ~(at >= f.fresh_until \/ f.status = "DEGRADED")
    <3>1. f.status = "FRESH"
      BY <1>5, <1>8, <2>3 DEF Summary
    <3>2. \A w \in Under(c) : Rank(w, at) = 0
      BY <1>2, <1>5, <2>1, <2>3, <3>1 DEF Summary
    <3>3. worst = 0
      BY <1>4, <3>2
    <3> QED
      BY <1>5, <1>6, <1>8, <2>3, <3>3
  <2> QED
    BY <2>2, <2>3
<1> QED
  BY <1>5, <1>7, <1>8

------------------------------------------------------------------------------
(* The invariant. *)

\* What has been built summarises the windows it was built from, all of them still
\* there to be compared with it; what was refused was refused for its inputs.
Consistent ==
  /\ now \in Nat
  /\ \A o \in Inputs : Admissible(o)
  /\ snapshot \in {NoSnapshot, Raised} \/ Built
  /\ snapshot = Raised =>
       Observed = {} \/ \E o \in Inputs : o.freshness.evaluated_at > ceiling.evaluated_at
  /\ Built =>
       /\ Timely(ceiling) /\ snapshot.freshness.evaluated_at = ceiling.evaluated_at
       /\ snapshot.freshness.status # "UNKNOWN" => Summary(snapshot.freshness, ceiling)
       /\ snapshot.freshness.status \in {"FRESH", "DEGRADED"} => snapshot.acquisition = "complete"

LEMMA InitConsistent == Init => Consistent
<1> SUFFICES ASSUME Init PROVE Consistent
  OBVIOUS
<1>1. Observed = {}
  BY DEF Init, Observed
<1>2. Inputs = {}
  BY <1>1 DEF Inputs
<1>3. ~Built
  BY DEF Init, Built, NoSnapshot
<1> QED
  BY <1>2, <1>3 DEF Init, Consistent, NoSnapshot, Raised

LEMMA ObserveConsistent ==
  ASSUME Consistent, NEW name \in Fields, Observe(name)
  PROVE  Consistent'
<1>1. PICK s \in States, f \in Windows(now) :
        /\ ValidState([state |-> s, freshness |-> f])
        /\ observations' = [n \in Observed \cup {name} |->
             IF n = name THEN [state |-> s, freshness |-> f] ELSE observations[n]]
  BY DEF Observe
<1>2. Admissible([state |-> s, freshness |-> f])
  BY <1>1, WindowsAreLegal DEF Admissible, Consistent
<1>3. \A o \in Inputs' : Admissible(o)
  BY <1>1, <1>2 DEF Inputs, Observed, Consistent
<1>4. snapshot = NoSnapshot /\ snapshot' = NoSnapshot /\ now' = now
  BY DEF Observe
<1>5. ~Built' /\ snapshot' # Raised
  BY <1>4 DEF Built, NoSnapshot, Raised
<1> QED
  BY <1>3, <1>4, <1>5 DEF Consistent

LEMMA BuildConsistent ==
  ASSUME Consistent, NEW at \in Times, NEW c \in Windows(at), Build(c)
  PROVE  Consistent'
<1>1. Window(c) /\ c.evaluated_at = at
  BY WindowsAreLegal, FieldAssumption DEF Times
<1>2. ceiling' = c /\ now' = now /\ observations' = observations
  BY DEF Build
<1>3. Inputs' = Inputs /\ Observed' = Observed
  BY <1>2 DEF Inputs, Observed
<1>4. Under(c)' = Under(c)
  BY <1>3 DEF Under
<1>5. \A o \in Inputs : Admissible(o)
  BY DEF Consistent
<1>6. (\A w \in Under(c) : w.evaluated_at <= c.evaluated_at) => Timely(c)
  BY <1>1, <1>5 DEF Timely
<1>7. CASE snapshot' = Raised
  <2>1. ~Built'
    BY <1>7 DEF Built, Raised
  <2>2. Observed = {} \/ \E o \in Inputs : o.freshness.evaluated_at > c.evaluated_at
    <3> SUFFICES ASSUME Observed # {},
                        \A o \in Inputs : ~(o.freshness.evaluated_at > c.evaluated_at)
                 PROVE  FALSE
      OBVIOUS
    <3>1. \A w \in Under(c) : w.evaluated_at <= c.evaluated_at
      BY <1>1, <1>5 DEF Under, Admissible, Window
    <3>2. ValidDeadlines(Combined(c)) /\ Coherent(AcquisitionStatus)
      BY <1>6, <3>1, NeverRaises
    <3>3. \A o \in Inputs : ValidState(o)
      BY <1>5 DEF Admissible
    <3>4. snapshot'.outcome = "built"
      BY <3>1, <3>2, <3>3 DEF Build
    <3> QED
      BY <1>7, <3>4 DEF Raised
  <2> QED
    BY <1>2, <1>3, <1>5, <1>7, <2>1, <2>2 DEF Consistent
<1>8. CASE snapshot' # Raised
  <2>1. /\ \A w \in Under(c) : w.evaluated_at <= c.evaluated_at
        /\ snapshot' = [outcome |-> "built", freshness |-> Combined(c),
                        acquisition |-> AcquisitionStatus]
    BY <1>8 DEF Build
  <2>2. snapshot'.outcome = "built" /\ snapshot'.freshness = Combined(c)
        /\ snapshot'.acquisition = AcquisitionStatus
    BY <2>1
  <2>3. Timely(c)
    BY <1>6, <2>1
  <2>4. Timely(c)'
    BY <1>3, <1>4, <2>3 DEF Timely
  <2>5. Combined(c).evaluated_at = c.evaluated_at /\ Combined(c).status = CombinedStatus(c)
    BY DEF Combined
  <2>6. Combined(c).status # "UNKNOWN" => Summary(Combined(c), c)
    BY <2>3, <2>5, KnownCombination
  <2>7. PICK g : g = Combined(c)
    OBVIOUS
  <2>8. g.status # "UNKNOWN" => Summary(g, c)'
    BY <1>4, <2>6, <2>7 DEF Summary
  <2>9. g.status \in {"FRESH", "DEGRADED"} => snapshot'.acquisition = "complete"
    BY <2>2, <2>3, <2>5, <2>7, CompleteUnlessStale
  <2>10. Built' /\ snapshot'.freshness = g
    BY <2>2, <2>7 DEF Built
  <2>11. Timely(ceiling)' /\ (g.status # "UNKNOWN" => Summary(snapshot.freshness, ceiling)')
    BY <1>2, <2>4, <2>8, <2>10 DEF Timely, Summary, Under
  <2> QED
    BY <1>2, <1>3, <1>5, <1>8, <2>5, <2>7, <2>9, <2>10, <2>11 DEF Consistent
<1> QED
  BY <1>7, <1>8

LEMMA StepConsistent == Consistent /\ [Next]_vars => Consistent'
<1> SUFFICES ASSUME Consistent, [Next]_vars PROVE Consistent'
  OBVIOUS
<1>1. CASE \E name \in Fields : Observe(name)
  BY <1>1, ObserveConsistent
<1>2. CASE \E at \in Times : \E c \in Windows(at) : Build(c)
  BY <1>2, BuildConsistent
<1>3. CASE Tick \/ UNCHANGED vars
  <2>1. /\ now' \in Nat /\ observations' = observations
        /\ ceiling' = ceiling /\ snapshot' = snapshot
    BY <1>3 DEF Tick, vars, Consistent
  <2>2. Inputs' = Inputs /\ Observed' = Observed /\ Built' = Built
    BY <2>1 DEF Inputs, Observed, Built
  <2>3. Under(ceiling)' = Under(ceiling)
    BY <2>1, <2>2 DEF Under
  <2>4. Timely(ceiling) => Timely(ceiling)'
    BY <2>1, <2>2, <2>3 DEF Timely
  <2>5. Summary(snapshot.freshness, ceiling) => Summary(snapshot.freshness, ceiling)'
    BY <2>1, <2>3 DEF Summary
  <2> QED
    BY <2>1, <2>2, <2>4, <2>5 DEF Consistent
<1> QED
  BY <1>1, <1>2, <1>3 DEF Next

LEMMA AlwaysConsistent == Spec => []Consistent
  BY InitConsistent, StepConsistent, PTL DEF Spec

------------------------------------------------------------------------------

\* build_reserve_snapshot raises only for an empty list of observations or a ceiling
\* evaluated before one of them: the combined deadlines and the acquisition status
\* never break the contracts of Freshness and ReserveSnapshot.
THEOREM TheCombinationNeverRaises == Spec => []RaisesOnlyForItsInputs
<1>1. Consistent => RaisesOnlyForItsInputs
  BY DEF Consistent, RaisesOnlyForItsInputs
<1> QED
  BY <1>1, AlwaysConsistent, PTL

\* A known snapshot is at every later moment exactly as fresh as the worst of the
\* ceiling and the observations it was built from, up to STALE: the earliest
\* deadlines of combined_freshness are those of whichever window expires first.
THEOREM ASnapshotIsItsWorstWindow == Spec => []WorstOfItsWindows
<1>1. Consistent => WorstOfItsWindows
  <2> SUFFICES ASSUME Consistent, Readable, Known PROVE WorstOfItsWindows
    BY DEF WorstOfItsWindows
  <2>1. PICK f, c, at : f = snapshot.freshness /\ c = ceiling /\ at = now
    OBVIOUS
  <2>2. at \in Nat /\ Timely(c) /\ Summary(f, c) /\ c.evaluated_at <= at
    BY <2>1 DEF Consistent, Readable, Known, Timely, Window
  <2>3. LET ranks == {Rank(w, at) : w \in Under(c)}
            worst == CHOOSE r \in ranks : \A s \in ranks : s <= r
        IN  Rank(f, at) = (IF worst = 3 THEN 2 ELSE worst)
    BY <2>2, SummaryIsTheWorst
  <2> QED
    BY <2>1, <2>3 DEF WorstOfItsWindows, Severity
<1> QED
  BY <1>1, AlwaysConsistent, PTL

\* A snapshot that is FRESH or DEGRADED when built was acquired completely, though
\* its freshness and its acquisition status are computed apart.
THEOREM UsableSnapshotsAreComplete == Spec => []UsableIsComplete
<1>1. Consistent => UsableIsComplete
  BY DEF Consistent, UsableIsComplete
<1> QED
  BY <1>1, AlwaysConsistent, PTL
=============================================================================
