---------------------------- MODULE TriageLiveness ----------------------------
(***************************************************************************)
(* The liveness gate of the integration failure triage: a group whose      *)
(* tests have stopped failing is skipped                                   *)
(* (agentic/integration_failure_triage.py, fetch_liveness, settled_reason, *)
(* drop_settled_targets).                                                  *)
(*                                                                         *)
(* CI runs of the full suite, of a small one and of other events report to *)
(* Prometheus test by test; a night asks it in three queries, and runs may *)
(* go on in between.  A test that is broken fails wherever it is run.      *)
(***************************************************************************)
EXTENDS Integers, FiniteSets, Sequences, FiniteSetsExt

CONSTANTS
    Tests,
    Suites,         \* the suites a run can have: sets of tests
    Targets,        \* group -> its tests
    MaxRuns,        \* bound: CI runs
    MaxBreaks,      \* bound: times a test breaks or is fixed
    BaselineRuns    \* --liveness-runs

VARIABLES
    ci,             \* runs by start: [event, suite, ran, failed]
    broken,         \* tests broken now
    breaks,
    phase,          \* of a night: the query that comes next
    totals,         \* what the first two queries told: run -> tests it has run
    skipped         \* groups the last night skipped

livenessVars == <<ci, broken, breaks, phase, totals, skipped>>

Runs == DOMAIN ci

-----------------------------------------------------------------------------
(* Continuous integration. *)

StartCi ==
    /\ Len(ci) < MaxRuns
    /\ \E event \in {"daily", "push"}, suite \in Suites :
          ci' = Append(ci, [event |-> event, suite |-> suite, ran |-> {}, failed |-> {}])
    /\ UNCHANGED <<broken, breaks, phase, totals, skipped>>

RunTest(i) ==
    /\ ci[i].suite # ci[i].ran
    /\ LET t == Min(ci[i].suite \ ci[i].ran) IN
          ci' = [ci EXCEPT ![i].ran = @ \union {t},
                           ![i].failed = @ \union ({t} \intersect broken)]
    /\ UNCHANGED <<broken, breaks, phase, totals, skipped>>

BreakOrFix(t) ==
    /\ breaks < MaxBreaks /\ breaks' = breaks + 1
    /\ broken' = IF t \in broken THEN broken \ {t} ELSE broken \union {t}
    /\ UNCHANGED <<ci, phase, totals, skipped>>

-----------------------------------------------------------------------------
(* The night's queries. *)

\* Runs with a total of their tests; one that has run none has no series.
Totals == [i \in {j \in Runs : ci[j].ran # {}} |-> Cardinality(ci[i].ran)]

\* The runs the gate reads an absence from are those of the event ...
Pool == {i \in DOMAIN totals : ci[i].event = "daily"}

\* Mutant of FullSuite: every run of the event counts.
FullSuiteAny == Pool

\* ... that ran at least half of what the biggest of them ran.
FullSuite == {i \in Pool : 2 * totals[i] >= Max({totals[j] : j \in Pool})}

\* The newest of them.
Baseline == {i \in FullSuite : Cardinality({j \in FullSuite : j > i}) < BaselineRuns}

\* Mutant of Recent: a failure counts in the baseline only.
RecentBaseline == Baseline

\* Every run from the oldest of the baseline on: a failure counts in all of them.
Recent == {i \in DOMAIN totals : i >= Min(Baseline)}

QueryTotals ==
    /\ phase = "totals"
    /\ totals' = Totals /\ phase' = "failures"
    /\ UNCHANGED <<ci, broken, breaks, skipped>>

\* Where a test has been seen failing; the query may fail and show nothing.
FailingRuns(t) == {i \in Runs : t \in ci[i].failed}

\* A group is settled when some of its tests are known to fail and none of these
\* has in a recent run.
Settled(g) ==
    LET known == {t \in Targets[g] : FailingRuns(t) # {}} IN
    /\ known # {}
    /\ \A t \in known : FailingRuns(t) \intersect Recent = {}

\* Without a baseline or any failure the snapshot is unusable and all are kept.
\* Every night considers every group again.
QueryFailures ==
    /\ phase = "failures"
    /\ \/ skipped' = {}
       \/ /\ FullSuite # {}
          /\ \E t \in Tests : FailingRuns(t) # {}
          /\ skipped' = {g \in DOMAIN Targets : Settled(g)}
    /\ phase' = "totals" /\ totals' = [i \in {} |-> 0]
    /\ UNCHANGED <<ci, broken, breaks>>

Init ==
    /\ ci = <<>> /\ broken = {} /\ breaks = 0
    /\ phase = "totals" /\ totals = [i \in {} |-> 0] /\ skipped = {}

Next ==
    \/ StartCi
    \/ \E i \in Runs : RunTest(i)
    \/ \E t \in Tests : BreakOrFix(t)
    \/ QueryTotals \/ QueryFailures

Spec == Init /\ [][Next]_livenessVars

-----------------------------------------------------------------------------
(* Correctness *)

\* A run of the event that had run the whole suite, or less than half of it, when
\* the night looked.
Whole(i) == ci[i].event = "daily" /\ totals[i] = Cardinality(Tests)
Small(i) == 2 * totals[i] < Cardinality(Tests)

\* A group is never skipped that has failed in the last complete full-suite run or
\* in any run since: small runs, runs of other events and runs that have only
\* begun cannot hide a failure.  A run cut off past its half could.
SkippedOnEvidence ==
    [][QueryFailures =>
         LET whole == {i \in DOMAIN totals : Whole(i)} IN
         (whole # {} /\ \A i \in DOMAIN totals \ whole : ci[i].event = "daily" => Small(i)) =>
            \A g \in skipped', i \in DOMAIN totals :
               i >= Max(whole) => ci[i].failed \intersect Targets[g] = {}]_livenessVars

\* What the comment on fetch_liveness says of the baseline, "the ones where every
\* test genuinely had a chance to run": the group has been run there.
BaselineRanIt ==
    [][QueryFailures => \A g \in skipped' : \E i \in Baseline : Targets[g] \subseteq ci[i].ran]_livenessVars

-----------------------------------------------------------------------------
(* The inductive invariant, for the proof of SkippedOnEvidence *)

Suited ==
    /\ Tests \subseteq Nat /\ IsFiniteSet(Tests) /\ Suites \subseteq SUBSET Tests
    /\ BaselineRuns \in Nat \ {0}

CiRun == [event : {"daily", "push"}, suite : SUBSET Tests, ran : SUBSET Tests, failed : SUBSET Tests]

\* What a night was told of is no more than the run's whole suite, nor of other runs.
Told ==
    /\ ci \in Seq(CiRun) /\ \A i \in Runs : ci[i].ran \subseteq ci[i].suite
    /\ DOMAIN totals \subseteq Runs
    /\ \A i \in DOMAIN totals : totals[i] \in 0 .. Cardinality(Tests)
=============================================================================
