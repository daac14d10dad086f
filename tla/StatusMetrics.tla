---------------------------- MODULE StatusMetrics ----------------------------
(***************************************************************************)
(* The series ci-github-status publishes for its rows (status/metrics.py). *)
(* A sample is a family, a set of labels and a value; Prometheus refuses a *)
(* payload with two samples of one series, and a label that changes while  *)
(* a run goes on leaves the old series behind.  The rows change as         *)
(* StatusReducer merges updates into them.                                 *)
(***************************************************************************)
EXTENDS Integers

CONSTANTS
    Rows,           \* run attempts: [id, attempt, rerunOf], the PR a rerun's title names
    JobRows,        \* stored jobs: [run, job]
    RunUpdates,     \* updates of a run GitHub may send: [status, conclusion, event, prs]
    JobUpdates      \* updates of a job: [status, conclusion]

VARIABLES runRow, jobRow

metricsVars == <<runRow, jobRow>>

R == INSTANCE StatusReducer

\* Labels: a pull request's number, the name of a branch, or none.
Branch == -1
NoPr == 0

BranchEvents == {"push", "schedule", "workflow_dispatch"}
PullRequestEvents == {"pull_request", "pull_request_target"}

Sample(family, labels, value) == [family |-> family, labels |-> labels, value |-> value]
One(condition, sample) == IF condition THEN {sample} ELSE {}

-----------------------------------------------------------------------------

\* Mutant of RunLabel: attempts of a run share a label.
RunLabelWithoutAttempt(r) == <<r.id>>

RunLabel(r) == <<r.id, r.attempt>>

\* A branch run's pull requests are those that happen to have its branch.
PrLabel(r) ==
    LET row == runRow[r] IN
    IF row.event = "workflow_dispatch" /\ r.rerunOf > NoPr THEN r.rerunOf
    ELSE IF row.event \in BranchEvents THEN Branch
    ELSE IF row.prs = {} THEN NoPr
    ELSE CHOOSE n \in row.prs : \A m \in row.prs : n <= m

\* Status is a value, so a transition changes no label; the conclusion is one.
Progress(kind, identity, row) ==
    One(R!StatusRank(row.status) > 0, Sample(<<kind, "status">>, identity, R!StatusRank(row.status)))
    \union One(row.status = R!Completed,
               Sample(<<kind, "conclusion_info">>,
                      <<identity, IF row.conclusion = "" THEN "unknown" ELSE row.conclusion>>, 1))
    \union One(row.needs_lookup, Sample(<<kind, "needs_lookup">>, identity, 1))

RunSamples(r) ==
    LET row == runRow[r]  identity == RunLabel(r)  pr == PrLabel(r) IN
    IF row.status = R!Absent THEN {}
    ELSE {Sample(<<"run", "info">>, <<identity, row.event, pr>>, 1)}
         \union One(row.event \in PullRequestEvents /\ pr > NoPr,
                    Sample(<<"run", "title_info">>, <<identity, pr>>, 1))
         \union One(row.event = "push", Sample(<<"run", "commit_info">>, <<identity, pr>>, 1))
         \union Progress("run", identity, row)

JobSamples(j) ==
    LET row == jobRow[j]  identity == <<RunLabel(j.run), j.job>> IN
    IF row.status = R!Absent THEN {}
    ELSE {Sample(<<"job", "info">>,
                 <<identity, IF runRow[j.run].status # R!Absent THEN PrLabel(j.run) ELSE NoPr>>, 1)}
         \union Progress("job", identity, row)

RunKeys == {r \in Rows : runRow[r].status # R!Absent}
JobKeys == {j \in JobRows : jobRow[j].status # R!Absent}

\* The payload: what each row gives, in order.
Payload == UNION {RunSamples(r) : r \in RunKeys} \union UNION {JobSamples(j) : j \in JobKeys}

-----------------------------------------------------------------------------

MergeRunUpdate(r) ==
    /\ \E u \in RunUpdates, authoritative \in BOOLEAN :
          runRow' = [runRow EXCEPT ![r] = R!MergeRun(@, u, authoritative)]
    /\ UNCHANGED jobRow

\* A job's delivery merges the stub of its run first.
MergeJobUpdate(j) ==
    \E u \in JobUpdates, authoritative \in BOOLEAN :
        /\ jobRow' = [jobRow EXCEPT ![j] = R!MergeJob(@, u, authoritative)]
        /\ runRow' = [runRow EXCEPT ![j.run] = R!MergeRun(@, R!RunStub(u), FALSE)]

Init ==
    /\ runRow = [r \in Rows |-> [status |-> R!Absent, conclusion |-> "", needs_lookup |-> FALSE,
                                  event |-> "", prs |-> {}]]
    /\ jobRow = [j \in JobRows |-> [status |-> R!Absent, conclusion |-> "", needs_lookup |-> FALSE]]

Next == (\E r \in Rows : MergeRunUpdate(r)) \/ (\E j \in JobRows : MergeJobUpdate(j))

Spec == Init /\ [][Next]_metricsVars

-----------------------------------------------------------------------------
(* Correctness *)

\* Two rows never give the same series, and a row gives a family at most once:
\* the sizes of the rows' samples add up.
SeriesUnique ==
    /\ \A r, q \in RunKeys : r # q =>
          \A s \in RunSamples(r), t \in RunSamples(q) :
              s.family = t.family => s.labels # t.labels
    /\ \A j, k \in JobKeys : j # k =>
          \A s \in JobSamples(j), t \in JobSamples(k) :
              s.family = t.family => s.labels # t.labels
    /\ \A samples \in {RunSamples(r) : r \in RunKeys} \union {JobSamples(j) : j \in JobKeys} :
          \A s, t \in samples : s.family = t.family => s = t

\* The status series are updated in place: no update of a row, in any order,
\* takes one away or moves it to other labels, and its value only grows.
StatusSeriesKept ==
    [][\A s \in Payload : s.family \in {<<"run", "status">>, <<"job", "status">>} =>
          \E t \in Payload' : t.family = s.family /\ t.labels = s.labels /\ t.value >= s.value]_metricsVars

=============================================================================
