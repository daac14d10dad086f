--------------------------- MODULE StatusRetention ---------------------------
(***************************************************************************)
(* What ci-github-status forgets, and when (status/store.py, prune): a     *)
(* completed run or job, and a delivery's id, a retention time after it    *)
(* finished or was received.  A run whose row is gone can be created again *)
(* by a late delivery: the stub of a job event says the run is active.     *)
(* One run with one job; the merge of an update is StatusReducer's.        *)
(***************************************************************************)
EXTENDS Naturals, FiniteSets

CONSTANTS
    Retention,          \* --retention
    Published,          \* --publish-completed
    Horizon,            \* active_horizon_seconds
    Redelivery,         \* how long after an event GitHub may still deliver it
    Duration,           \* how long the job, and the run, take at most
    MaxClock            \* bound on the clock

VARIABLES
    clock,
    happened,           \* GitHub: when each event happened, or Never
    run, job,           \* store: the rows
    ids,                \* store: deliveries, [event -> received_at or Never]
    forgotten,          \* history: prune has deleted the run's row
    unread              \* history: how long a due run was not read back, or more than Horizon

retentionVars == <<clock, happened, run, job, ids, forgotten, unread>>

Never == 0
Events == {"run_started", "job_started", "job_completed", "run_completed"}
Order == [run_started |-> 1, job_started |-> 2, job_completed |-> 3, run_completed |-> 4]

NoRow == [status |-> "none", finished |-> Never, touched |-> Never]
Statuses == {"none", "active", "completed"}

-----------------------------------------------------------------------------

\* The merge keeps a completed row completed; whatever it changes, it touches.
Merged(row, status, at) ==
    IF row.status = "completed" \/ status = "completed"
    THEN [status |-> "completed",
          finished |-> IF row.status = "completed" THEN row.finished ELSE at,
          touched |-> clock]
    ELSE [status |-> "active", finished |-> Never, touched |-> clock]

Happen(e) ==
    /\ happened[e] = Never
    /\ \A d \in Events : Order[d] < Order[e] => happened[d] # Never
    /\ happened' = [happened EXCEPT ![e] = clock]
    /\ UNCHANGED <<clock, run, job, ids, forgotten, unread>>

\* A delivery, first or repeated, in time or late; any may also be lost.
Deliver(e) ==
    /\ happened[e] # Never /\ clock <= happened[e] + Redelivery
    /\ ids[e] = Never
    /\ ids' = [ids EXCEPT ![e] = clock]
    /\ run' = Merged(run, IF e = "run_completed" THEN "completed" ELSE "active", happened[e])
    /\ job' = CASE e = "job_started" -> Merged(job, "active", Never)
                [] e = "job_completed" -> Merged(job, "completed", happened[e])
                [] OTHER -> job
    /\ UNCHANGED <<clock, happened, forgotten, unread>>

\* The reconciler reads back a run it is due to.
Due ==
    /\ run.status # "none"
    /\ run.touched + Horizon >= clock
    /\ run.status = "active" \/ job.status = "active"

Reconcile ==
    /\ Due
    /\ run' = Merged(run, IF happened["run_completed"] # Never THEN "completed" ELSE "active",
                     happened["run_completed"])
    /\ job' = IF happened["job_started"] = Never THEN job
              ELSE Merged(job, IF happened["job_completed"] # Never THEN "completed" ELSE "active",
                          happened["job_completed"])
    /\ unread' = 0
    /\ UNCHANGED <<clock, happened, ids, forgotten>>

\* Discovery finds it in a listing, as it is at GitHub now.
Discover ==
    /\ happened["run_started"] # Never
    /\ run' = Merged(run, IF happened["run_completed"] # Never THEN "completed" ELSE "active",
                     happened["run_completed"])
    /\ UNCHANGED <<clock, happened, job, ids, forgotten, unread>>

\* Mutant of Expired: a row goes when it is no longer published.
ExpiredUnpublished(at) == at # Never /\ at + Published < clock

Expired(at) == at # Never /\ at + Retention < clock

\* Active rows are kept whatever their age.
Prune ==
    /\ run' = IF Expired(run.finished) THEN NoRow ELSE run
    /\ job' = IF Expired(job.finished) THEN NoRow ELSE job
    /\ ids' = [e \in Events |-> IF Expired(ids[e]) THEN Never ELSE ids[e]]
    /\ forgotten' = (forgotten \/ Expired(run.finished))
    /\ <<run, job, ids>>' # <<run, job, ids>>
    /\ UNCHANGED <<clock, happened, unread>>

\* GitHub ends a job, and the run, Duration after it started.
Tick ==
    /\ clock < MaxClock
    /\ \A d, e \in Events :
          Order[e] = Order[d] + 1 /\ happened[d] # Never /\ happened[e] = Never
              => clock < happened[d] + Duration
    /\ clock' = clock + 1
    /\ unread' = IF Due /\ unread <= Horizon THEN unread + 1 ELSE unread
    /\ UNCHANGED <<happened, run, job, ids, forgotten>>

Init ==
    /\ clock = 1
    /\ happened = [e \in Events |-> Never]
    /\ run = NoRow /\ job = NoRow
    /\ ids = [e \in Events |-> Never]
    /\ forgotten = FALSE /\ unread = 0

Next ==
    \/ \E e \in Events : Happen(e) \/ Deliver(e)
    \/ Reconcile \/ Discover \/ Prune \/ Tick

Spec == Init /\ [][Next]_retentionVars

-----------------------------------------------------------------------------
(* Correctness *)

\* A run that completed and was forgotten is never shown as active again,
\* whatever is delivered twice, late or through a listing: an id and a row
\* outlive the time GitHub may still deliver an event of the run.  Its job is
\* only if the reconciler failed to read the run for a whole horizon: then the
\* job stays active for ever, there being no row left to make its run due.
ForgottenForGood ==
    forgotten => run.status # "active" /\ (job.status = "active" => unread > Horizon)

-----------------------------------------------------------------------------
(* The inductive invariant, for the proof of ForgottenForGood *)

\* Rows outlive what GitHub may still deliver, and the reconciler's horizon after it.
KeptLongEnough ==
    /\ Retention \in Nat /\ Horizon \in Nat /\ Redelivery \in Nat /\ Duration \in Nat
    /\ Redelivery + Horizon <= Retention

Row == [status : Statuses, finished : 0 .. clock, touched : 0 .. clock]

TypeOK ==
    /\ clock \in Nat \ {0} /\ happened \in [Events -> 0 .. clock]
    /\ run \in Row /\ job \in Row /\ ids \in [Events -> 0 .. clock]
    /\ forgotten \in BOOLEAN /\ unread \in Nat

\* Events happen in their order.
Ordered ==
    \A d, e \in Events :
        Order[d] < Order[e] /\ happened[e] # Never
            => happened[d] # Never /\ happened[d] <= happened[e]

\* A row says the run is over only when it is, and since when.
RunTrue ==
    IF run.status = "completed"
    THEN happened["run_completed"] # Never /\ run.finished = happened["run_completed"]
    ELSE run.finished = Never

\* What was forgotten was over longer than its rows are kept, and is not active again.
ForgottenLate ==
    forgotten =>
        /\ happened["run_completed"] # Never
        /\ happened["run_completed"] + Retention < clock
        /\ run.status # "active"

\* While a job is active its run is due, and every cycle that failed to read it since
\* the run was touched, or could last be told of the job, is counted.
Unfinished ==
    (job.status = "active" /\ unread <= Horizon) =>
        /\ run.status # "none"
        /\ clock <= unread + run.touched
        /\ happened["job_completed"] # Never =>
              clock <= unread + happened["job_completed"] + Redelivery

Remembered == TypeOK /\ Ordered /\ RunTrue /\ ForgottenLate /\ Unfinished

=============================================================================
