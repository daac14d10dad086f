---------------------------- MODULE StatusService ----------------------------
(***************************************************************************)
(* The ci-github-status service (src/src/transformersci/status): GitHub's  *)
(* workflow runs and jobs, the webhook deliveries about them (lost,        *)
(* repeated and reordered at will), the SQLite store the deliveries are    *)
(* merged into, and the reconciler thread, which reads runs back from the  *)
(* Actions API one request at a time while deliveries keep arriving.       *)
(*                                                                         *)
(* The store is durable; the reconciler's position is lost in a crash.     *)
(* GitHub is external: it is modelled by what its events and its API       *)
(* answers tell the service.                                               *)
(***************************************************************************)
EXTENDS StatusReducer, FiniteSets

CONSTANTS
    Runs,           \* run attempts: (repository, run_id, attempt)
    Jobs,           \* jobs: (repository, job_id)
    RunOf,          \* the run attempt a job belongs to
    Conclusions,    \* the conclusions GitHub may report
    PullRuns,       \* the runs triggered by a pull request
    NamedPRs,       \* the PRs GitHub names in a run's payload: none for a fork
    HeadPRs,        \* the PRs whose head is the run's commit
    MaxRevisions,   \* how often GitHub may revise a run's conclusion
    NoRun           \* no run is being refreshed

PRs == UNION {NamedPRs[r] \union HeadPRs[r] : r \in Runs}

ASSUME RunOfAssumption == RunOf \in [Jobs -> Runs]
ASSUME ConclusionsAssumption == NoConclusion \notin Conclusions
ASSUME PullRunsAssumption == PullRuns \subseteq Runs
ASSUME NamedPRsAssumption == DOMAIN NamedPRs = Runs
ASSUME HeadPRsAssumption == DOMAIN HeadPRs = Runs
ASSUME MaxRevisionsAssumption == MaxRevisions \in Nat
ASSUME NoRunAssumption == NoRun \notin Runs
ASSUME KeysAssumption == Runs \intersect Jobs = {}

VARIABLES
    ghRun,          \* GitHub: each run's status and conclusion
    ghJob,          \* GitHub: each job's status and conclusion
    deleted,        \* GitHub: runs that were deleted (404)
    revisions,      \* GitHub: how many conclusions were revised
    sent,           \* every delivery GitHub has emitted; any may arrive, ever
    runs,           \* store: table runs
    jobs,           \* store: table jobs
    deliveries,     \* store: table deliveries, the ids already applied
    pc,             \* reconciler: where the cycle is
    due,            \* reconciler: the runs left to refresh in this cycle
    cur,            \* reconciler: the run being refreshed
    read,           \* reconciler: the run updates read and not applied yet
    jobsRead,       \* reconciler: the job updates read and not applied yet
    complete,       \* reconciler: whether the job listing was complete
    unsettled       \* history: runs two deliveries disagreed on and no API
                    \* answer applied since has named a conclusion for

ghVars == <<ghRun, ghJob, deleted, revisions, sent>>
storeVars == <<runs, jobs, deliveries>>
recVars == <<pc, due, cur, read, jobsRead, complete>>
vars == <<ghVars, storeVars, recVars, unsettled>>

-----------------------------------------------------------------------------
(* Values *)

Statuses == {Absent, "queued", "in_progress", Completed}
AnyConclusion == Conclusions \union {NoConclusion}
Progress == [status : Statuses, conclusion : AnyConclusion]
Events == {"", "pull_request", "push"}

RunRow == [status : Statuses, conclusion : AnyConclusion,
           needs_lookup : BOOLEAN, event : Events, prs : SUBSET PRs,
           jobs_synced : BOOLEAN, pr_lookup_done : BOOLEAN, gone : BOOLEAN]
JobRow == [status : Statuses, conclusion : AnyConclusion,
           needs_lookup : BOOLEAN]
RunUpdate == [status : Statuses, conclusion : AnyConclusion,
              event : Events, prs : SUBSET PRs]
Delivery ==
    [kind : {"run"}, key : Runs, status : Statuses, conclusion : AnyConclusion]
    \union
    [kind : {"job"}, key : Jobs, status : Statuses, conclusion : AnyConclusion]

NoProgress == [status |-> Absent, conclusion |-> NoConclusion]
NoRunRow == [status |-> Absent, conclusion |-> NoConclusion,
             needs_lookup |-> FALSE, event |-> "", prs |-> {},
             jobs_synced |-> FALSE, pr_lookup_done |-> FALSE, gone |-> FALSE]
NoJobRow == [status |-> Absent, conclusion |-> NoConclusion,
             needs_lookup |-> FALSE]

Stages == {"idle", "listing", "listed", "select", "next", "run_read",
           "list_jobs", "jobs_read", "mark_synced", "find_pr", "pr_read",
           "mark_pr"}

\* No API answer is held.
Nothing == [x \in {} |-> x]

\* The runs and jobs the store holds a row for, and those GitHub has created.
Known(row) == row.status # Absent
JobsOf(r) == {j \in Jobs : RunOf[j] = r}
CreatedJobs(r) == {j \in JobsOf(r) : ghJob[j].status # Absent}

EventOf(r) == IF r \in PullRuns THEN "pull_request" ELSE "push"

\* parse_workflow_run: a run object says the event and the PRs GitHub names.
ParsedRun(r, progress) ==
    [status |-> progress.status, conclusion |-> progress.conclusion,
     event |-> EventOf(r), prs |-> NamedPRs[r]]

-----------------------------------------------------------------------------
(* GitHub *)

RunEvent(r, progress) == [kind |-> "run", key |-> r,
                          status |-> progress.status,
                          conclusion |-> progress.conclusion]
JobEvent(j, progress) == [kind |-> "job", key |-> j,
                          status |-> progress.status,
                          conclusion |-> progress.conclusion]

Queued == [status |-> "queued", conclusion |-> NoConclusion]
InProgress == [status |-> "in_progress", conclusion |-> NoConclusion]
Done(c) == [status |-> Completed, conclusion |-> c]

CreateRun(r) ==
    /\ ghRun[r] = NoProgress
    /\ ghRun' = [ghRun EXCEPT ![r] = Queued]
    /\ sent' = sent \union {RunEvent(r, Queued)}
    /\ UNCHANGED <<ghJob, deleted, revisions>>

CreateJob(j) ==
    /\ ghJob[j] = NoProgress
    /\ ghRun[RunOf[j]] \in {Queued, InProgress}
    /\ ghJob' = [ghJob EXCEPT ![j] = Queued]
    /\ sent' = sent \union {JobEvent(j, Queued)}
    /\ UNCHANGED <<ghRun, deleted, revisions>>

\* A job that starts, or is skipped, puts its run in progress.
AdvanceJob(j, progress) ==
    /\ ghRun[RunOf[j]] \in {Queued, InProgress}
    /\ ghJob' = [ghJob EXCEPT ![j] = progress]
    /\ ghRun' = [ghRun EXCEPT ![RunOf[j]] = InProgress]
    /\ sent' = sent \union {JobEvent(j, progress),
                            RunEvent(RunOf[j], InProgress)}
    /\ UNCHANGED <<deleted, revisions>>

StartJob(j) ==
    /\ ghJob[j] = Queued
    /\ AdvanceJob(j, InProgress)

FinishJob(j, c) ==
    /\ ghJob[j] \in {Queued, InProgress}
    /\ AdvanceJob(j, Done(c))

FinishRun(r, c) ==
    /\ ghRun[r] \in {Queued, InProgress}
    /\ \A j \in CreatedJobs(r) : ghJob[j].status = Completed
    /\ ghRun' = [ghRun EXCEPT ![r] = Done(c)]
    /\ sent' = sent \union {RunEvent(r, Done(c))}
    /\ UNCHANGED <<ghJob, deleted, revisions>>

\* A completed run's conclusion changes to one never reported before.
ReviseRun(r, c) ==
    /\ revisions < MaxRevisions
    /\ ghRun[r].status = Completed
    /\ RunEvent(r, Done(c)) \notin sent
    /\ revisions' = revisions + 1
    /\ ghRun' = [ghRun EXCEPT ![r] = Done(c)]
    /\ sent' = sent \union {RunEvent(r, Done(c))}
    /\ UNCHANGED <<ghJob, deleted>>

DeleteRun(r) ==
    /\ ghRun[r].status = Completed
    /\ r \notin deleted
    /\ deleted' = deleted \union {r}
    /\ UNCHANGED <<ghRun, ghJob, revisions, sent>>

GitHub ==
    /\ \/ \E r \in Runs : CreateRun(r) \/ DeleteRun(r)
       \/ \E j \in Jobs : CreateJob(j) \/ StartJob(j)
       \/ \E j \in Jobs, c \in Conclusions : FinishJob(j, c)
       \/ \E r \in Runs, c \in Conclusions : FinishRun(r, c) \/ ReviseRun(r, c)
    /\ UNCHANGED <<storeVars, recVars, unsettled>>

-----------------------------------------------------------------------------
(* The webhook receiver: one transaction records the delivery id and merges *)
(* the update; an id already on file changes nothing.                       *)

\* Mutant of Fresh: no deduplication.
FreshAlways(m) == TRUE

Fresh(m) == m \notin deliveries

Deliver(m) ==
    /\ m \in sent
    /\ Fresh(m)
    /\ deliveries' = deliveries \union {m}
    /\ \/ /\ m.kind = "run"
          /\ runs' = [runs EXCEPT ![m.key] =
                         MergeRun(@, ParsedRun(m.key, m), FALSE)]
          /\ unsettled' = IF Conflict(runs[m.key], m, FALSE)
                          THEN unsettled \union {m.key}
                          ELSE unsettled
          /\ UNCHANGED jobs
       \/ /\ m.kind = "job"
          /\ runs' = [runs EXCEPT ![RunOf[m.key]] =
                         MergeRun(@, RunStub(m), FALSE)]
          /\ jobs' = [jobs EXCEPT ![m.key] = MergeJob(@, m, FALSE)]
          /\ UNCHANGED unsettled
    /\ UNCHANGED <<ghVars, recVars>>

-----------------------------------------------------------------------------
(* The reconciler *)

\* A disputed, unfinished or unlisted run is read back, and one whose jobs
\* are open or disputed, or whose PR nobody has named yet.
PrUnknown(row) == row.prs = {} /\ row.event = "pull_request"
OpenJobs(r) == \E j \in JobsOf(r) :
                  /\ Known(jobs[j])
                  /\ jobs[j].status # Completed \/ jobs[j].needs_lookup

\* Mutant of NeedsReconcile: the jobs need not have been listed.
NeedsReconcileUnlisted(r) ==
    /\ Known(runs[r])
    /\ ~runs[r].gone
    /\ runs[r].status # Completed \/ runs[r].needs_lookup \/ OpenJobs(r)

NeedsReconcile(r) ==
    /\ Known(runs[r])
    /\ ~runs[r].gone
    /\ \/ runs[r].status # Completed
       \/ runs[r].needs_lookup
       \/ ~runs[r].jobs_synced
       \/ OpenJobs(r)
       \/ PrUnknown(runs[r]) /\ ~runs[r].pr_lookup_done

\* Mutant of Rest: the run being refreshed is not let go.
RestHolding(stage) ==
    /\ pc' = stage
    /\ UNCHANGED cur
    /\ read' = Nothing
    /\ jobsRead' = Nothing
    /\ complete' = FALSE

\* Moving to a stage that holds nothing read.
Rest(stage) ==
    /\ pc' = stage
    /\ cur' = NoRun
    /\ read' = Nothing
    /\ jobsRead' = Nothing
    /\ complete' = FALSE

\* An API answer is merged as authoritative.
Reconciled(row, update) == MergeRun(row, update, TRUE)

\* A dispute is settled by an API answer that names a conclusion.
Settle(updates) ==
    unsettled' = unsettled \
                   {r \in DOMAIN updates : updates[r].conclusion # NoConclusion}

StartCycle ==
    /\ pc = "idle"
    /\ Rest("listing")
    /\ due' = {}
    /\ UNCHANGED <<ghVars, storeVars, unsettled>>

\* The listing of one workflow: what GitHub has indexed of it, from the
\* watermark on, up to the page limit.
ListRuns(listed) ==
    /\ pc = "listing"
    /\ listed \subseteq {r \in Runs : ghRun[r].status # Absent} \ deleted
    /\ pc' = "listed"
    /\ read' = [r \in listed |-> ParsedRun(r, ghRun[r])]
    /\ UNCHANGED <<ghVars, storeVars, unsettled, due, cur, jobsRead, complete>>

\* Applied in one transaction; the next workflow is listed, or the unsettled
\* runs are selected.
ApplyListing(next) ==
    /\ pc = "listed"
    /\ runs' = [r \in Runs |-> IF r \in DOMAIN read
                               THEN Reconciled(runs[r], read[r])
                               ELSE runs[r]]
    /\ Settle(read)
    /\ Rest(next)
    /\ UNCHANGED <<ghVars, jobs, deliveries, due>>

SelectDue ==
    /\ pc = "select"
    /\ due' = {r \in Runs : NeedsReconcile(r)}
    /\ Rest("next")
    /\ UNCHANGED <<ghVars, storeVars, unsettled>>

EndCycle ==
    /\ pc = "next"
    /\ due = {}
    /\ Rest("idle")
    /\ UNCHANGED <<ghVars, storeVars, unsettled, due>>

ReadRun(r) ==
    /\ pc = "next"
    /\ r \in due \ deleted
    /\ due' = due \ {r}
    /\ cur' = r
    /\ read' = [q \in {r} |-> ParsedRun(r, ghRun[r])]
    /\ pc' = "run_read"
    /\ UNCHANGED <<ghVars, storeVars, unsettled, jobsRead, complete>>

\* 404: GitHub no longer has the run, so it is never asked for again. It is
\* not marked completed, because GitHub never said so.
RunGone(r) ==
    /\ \/ pc = "next" /\ r \in due
       \/ pc = "list_jobs" /\ r = cur
    /\ r \in deleted
    /\ runs' = [runs EXCEPT ![r].gone = TRUE]
    /\ due' = due \ {r}
    /\ Rest("next")
    /\ UNCHANGED <<ghVars, jobs, deliveries, unsettled>>

\* The run failed to refresh for another reason; the others still go on.
RefreshFails(r) ==
    /\ \/ pc = "next" /\ r \in due
       \/ pc \in {"list_jobs", "find_pr"} /\ r = cur
    /\ due' = due \ {r}
    /\ Rest("next")
    /\ UNCHANGED <<ghVars, storeVars, unsettled>>

\* The request budget is spent, GitHub throttles, or a listing fails.
AbortCycle ==
    /\ pc \in {"listing", "next", "list_jobs", "find_pr"}
    /\ due' = {}
    /\ Rest("idle")
    /\ UNCHANGED <<ghVars, storeVars, unsettled>>

ApplyRun ==
    /\ pc = "run_read"
    /\ runs' = [runs EXCEPT ![cur] = Reconciled(@, read[cur])]
    /\ Settle(read)
    /\ pc' = "list_jobs"
    /\ UNCHANGED <<ghVars, jobs, deliveries, due, cur, read, jobsRead, complete>>

ListJobs(listed, all) ==
    /\ pc = "list_jobs"
    /\ cur \notin deleted
    /\ listed \subseteq CreatedJobs(cur)
    /\ all => listed = CreatedJobs(cur)
    /\ jobsRead' = [j \in listed |-> ghJob[j]]
    /\ complete' = all
    /\ pc' = "jobs_read"
    /\ UNCHANGED <<ghVars, storeVars, unsettled, due, cur, read>>

\* The PR is looked up when neither the read nor an earlier lookup names one.
AfterJobs ==
    IF PrUnknown(read[cur]) /\ ~runs[cur].pr_lookup_done
    THEN pc' = "find_pr" /\ UNCHANGED <<cur, read, jobsRead, complete>>
    ELSE Rest("next")

\* Mutants of JobsListed: an incomplete listing will do; so will the listing of
\* a run that is still going.
JobsListedInPart == read[cur].status = Completed
JobsListedEarly == complete

\* The jobs are all on file once a complete listing followed a completed run.
JobsListed == complete /\ read[cur].status = Completed

\* Every job's stub is merged into the run as a delivery's would be; the job
\* itself is authoritative.
ApplyJobs ==
    /\ pc = "jobs_read"
    /\ jobs' = [j \in Jobs |-> IF j \in DOMAIN jobsRead
                               THEN MergeJob(jobs[j], jobsRead[j], TRUE)
                               ELSE jobs[j]]
    /\ runs' = IF \E j \in DOMAIN jobsRead : StatusRank(jobsRead[j].status) >= 2
               THEN [runs EXCEPT ![cur] = MergeRun(@, RunStub(InProgress), FALSE)]
               ELSE IF DOMAIN jobsRead # {}
               THEN [runs EXCEPT ![cur] = MergeRun(@, RunStub(Queued), FALSE)]
               ELSE runs
    /\ IF JobsListed
       THEN pc' = "mark_synced" /\ UNCHANGED <<cur, read, jobsRead, complete>>
       ELSE AfterJobs
    /\ UNCHANGED <<ghVars, deliveries, unsettled, due>>

MarkSynced ==
    /\ pc = "mark_synced"
    /\ runs' = [runs EXCEPT ![cur].jobs_synced = TRUE]
    /\ AfterJobs
    /\ UNCHANGED <<ghVars, jobs, deliveries, unsettled, due>>

\* The PRs whose head commit is the run's own; none when the run does not say
\* which repository its head lives in.
FindPr(found) ==
    /\ pc = "find_pr"
    /\ found \in {HeadPRs[cur], {}}
    /\ pc' = IF found = {} THEN "mark_pr" ELSE "pr_read"
    /\ read' = IF found = {} THEN Nothing
               ELSE [r \in {cur} |-> [status |-> read[cur].status,
                                      conclusion |-> NoConclusion,
                                      event |-> "", prs |-> found]]
    /\ UNCHANGED <<ghVars, storeVars, unsettled, due, cur, jobsRead, complete>>

ApplyPr ==
    /\ pc = "pr_read"
    /\ runs' = [runs EXCEPT ![cur] = Reconciled(@, read[cur])]
    /\ pc' = "mark_pr"
    /\ read' = Nothing
    /\ UNCHANGED <<ghVars, jobs, deliveries, unsettled, due, cur, jobsRead, complete>>

MarkPr ==
    /\ pc = "mark_pr"
    /\ runs' = [runs EXCEPT ![cur].pr_lookup_done = TRUE]
    /\ Rest("next")
    /\ UNCHANGED <<ghVars, jobs, deliveries, unsettled, due>>

Reconciler ==
    \/ StartCycle \/ SelectDue \/ EndCycle \/ AbortCycle
    \/ \E listed \in SUBSET Runs : ListRuns(listed)
    \/ \E next \in {"listing", "select"} : ApplyListing(next)
    \/ \E r \in Runs : ReadRun(r) \/ RunGone(r) \/ RefreshFails(r)
    \/ ApplyRun \/ ApplyJobs \/ MarkSynced \/ ApplyPr \/ MarkPr
    \/ \E listed \in SUBSET Jobs, all \in BOOLEAN : ListJobs(listed, all)
    \/ \E found \in SUBSET PRs : FindPr(found)

\* The pod restarts: the store is on disk, the cycle starts over.
Crash ==
    /\ pc # "idle"
    /\ due' = {}
    /\ Rest("idle")
    /\ UNCHANGED <<ghVars, storeVars, unsettled>>

-----------------------------------------------------------------------------

Init ==
    /\ ghRun = [r \in Runs |-> NoProgress]
    /\ ghJob = [j \in Jobs |-> NoProgress]
    /\ deleted = {}
    /\ revisions = 0
    /\ sent = {}
    /\ runs = [r \in Runs |-> NoRunRow]
    /\ jobs = [j \in Jobs |-> NoJobRow]
    /\ deliveries = {}
    /\ pc = "idle"
    /\ due = {}
    /\ cur = NoRun
    /\ read = Nothing
    /\ jobsRead = Nothing
    /\ complete = FALSE
    /\ unsettled = {}

Next ==
    \/ GitHub
    \/ \E m \in sent : Deliver(m)
    \/ Reconciler
    \/ Crash

Spec == Init /\ [][Next]_vars

\* The reconciler's own steps, which wait for nobody but the interval timer.
Internal ==
    \/ StartCycle \/ SelectDue \/ EndCycle
    \/ ApplyRun \/ ApplyJobs \/ MarkSynced \/ ApplyPr \/ MarkPr

\* The pod eventually stays up, and each kind of API request, asked for ever,
\* is in the end answered; some cycle gets through every followed workflow.
\* Nothing is assumed of GitHub's own progress, nor of any delivery arriving.
FairSpec ==
    /\ Spec
    /\ <>[][GitHub \/ Reconciler \/ \E m \in sent : Deliver(m)]_vars
    /\ WF_vars(Internal)
    /\ SF_vars(\E listed \in SUBSET Runs : ListRuns(listed))
    /\ SF_vars(ApplyListing("select"))
    /\ \A r \in Runs : SF_vars(ReadRun(r) \/ RunGone(r))
    /\ SF_vars(ListJobs(CreatedJobs(cur), TRUE))
    /\ SF_vars(\E found \in SUBSET PRs : FindPr(found))

-----------------------------------------------------------------------------
(* Correctness *)

\* Every variable holds a value of its kind, and an API answer is held only
\* while the reconciler is refreshing that run.
TypeOK ==
    /\ ghRun \in [Runs -> Progress]
    /\ ghJob \in [Jobs -> Progress]
    /\ deleted \subseteq Runs
    /\ revisions \in 0..MaxRevisions
    /\ sent \subseteq Delivery
    /\ runs \in [Runs -> RunRow]
    /\ jobs \in [Jobs -> JobRow]
    /\ deliveries \subseteq sent
    /\ pc \in Stages
    /\ due \subseteq Runs
    /\ DOMAIN read \subseteq Runs
    /\ \A r \in DOMAIN read : read[r] \in RunUpdate
    /\ DOMAIN jobsRead \subseteq Jobs
    /\ \A j \in DOMAIN jobsRead : jobsRead[j] \in Progress
    /\ complete \in BOOLEAN
    /\ unsettled \subseteq Runs
    /\ IF pc \in {"idle", "listing", "listed", "select", "next"}
       THEN cur = NoRun
       ELSE cur \in Runs /\ (pc # "mark_pr" => DOMAIN read = {cur})

\* What is said of a run or a job is no further along than GitHub has it, and
\* a conclusion is one GitHub reported.
RunWithin(r, said) ==
    /\ StatusRank(said.status) <= StatusRank(ghRun[r].status)
    /\ said.status = Completed => RunEvent(r, said) \in sent
JobWithin(j, said) ==
    /\ StatusRank(said.status) <= StatusRank(ghJob[j].status)
    /\ said.status = Completed => JobEvent(j, said) \in sent

\* The store never says more than GitHub did: no run or job is further along
\* than GitHub has it (a finished job does not finish its run, a deleted run
\* is not over), and a stored conclusion is one GitHub reported.
NeverAhead ==
    /\ \A r \in Runs : RunWithin(r, runs[r])
    /\ \A j \in Jobs : JobWithin(j, jobs[j])

\* Why NeverAhead holds: whatever has been emitted, or read and not applied
\* yet, is within what GitHub has got to.
GitHubAnnounced ==
    /\ \A r \in Runs :
          ghRun[r].status # Absent => RunEvent(r, ghRun[r]) \in sent
    /\ \A j \in Jobs :
          ghJob[j].status # Absent => JobEvent(j, ghJob[j]) \in sent

EventSound(m) ==
    /\ m.status # Absent
    /\ m.kind = "run" => RunWithin(m.key, m)
    /\ m.kind = "job" =>
          /\ JobWithin(m.key, m)
          /\ StatusRank(RunStub(m).status)
                <= StatusRank(ghRun[RunOf[m.key]].status)
EventsSound == \A m \in sent : EventSound(m)

\* The PR lookup's update repeats the status read before, without its
\* conclusion: it moves nothing, since that status is already applied.
ReadsSound ==
    /\ \A r \in DOMAIN read :
          read[r].status # Absent /\ (pc # "pr_read" => RunWithin(r, read[r]))
    /\ \A j \in DOMAIN jobsRead :
          /\ RunOf[j] = cur
          /\ jobsRead[j].status # Absent
          /\ JobWithin(j, jobsRead[j])
ReadApplied ==
    /\ pc \in {"list_jobs", "jobs_read", "mark_synced", "find_pr", "pr_read"} =>
          StatusRank(runs[cur].status) >= StatusRank(read[cur].status)
    /\ pc = "pr_read" => read[cur].conclusion = NoConclusion

DueKnown == \A r \in due : Known(runs[r])

NeverAheadInv ==
    /\ NeverAhead /\ GitHubAnnounced /\ EventsSound
    /\ ReadsSound /\ ReadApplied /\ DueKnown

\* A delivery whose id is on file has left its mark: whatever was redelivered,
\* reordered or lost in a crash, the store is at least as far along as it said,
\* for the job and for the run the job belongs to.
DeliveryReflected ==
    \A m \in deliveries :
        IF m.kind = "run"
        THEN StatusRank(runs[m.key].status) >= StatusRank(m.status)
        ELSE /\ StatusRank(jobs[m.key].status) >= StatusRank(m.status)
             /\ StatusRank(runs[RunOf[m.key]].status)
                   >= StatusRank(RunStub(m).status)

\* A run marked as having its jobs listed has all of them on file, finished.
SyncedMeansListed ==
    \A r \in Runs : runs[r].jobs_synced =>
        /\ ghRun[r].status = Completed
        /\ \A j \in CreatedJobs(r) : jobs[j].status = Completed

\* What the service answered for, to GitHub's deliveries and in its own books, is
\* in the store.
AnsweredFor == DeliveryReflected /\ SyncedMeansListed

\* Once the reconciler has stopped asking about a run it still could ask for,
\* the store says of it and of all its jobs what GitHub says (GitHub revising
\* no conclusion).
Agrees(row, progress) ==
    row.status = progress.status /\ row.conclusion = progress.conclusion
SettledIsAccurate ==
    \A r \in Runs :
        Known(runs[r]) /\ ~runs[r].gone /\ ~NeedsReconcile(r) =>
            /\ Agrees(runs[r], ghRun[r])
            /\ \A j \in CreatedJobs(r) : Agrees(jobs[j], ghJob[j])

\* A run two deliveries disagreed on stays due for a lookup until an API
\* answer has named its conclusion.
DisputeStaysDue ==
    \A r \in unsettled : runs[r].gone \/ NeedsReconcile(r)

\* Status only moves forward, whatever order events and answers arrive in.
StatusNeverRegresses ==
    [][/\ \A r \in Runs :
              StatusRank(runs'[r].status) >= StatusRank(runs[r].status)
       /\ \A j \in Jobs :
              StatusRank(jobs'[j].status) >= StatusRank(jobs[j].status)]_vars

\* The mirror this service is: each run's and job's rank at GitHub and in the
\* store, and what GitHub has reported of it.
Items == Runs \union Jobs
Row(i) == IF i \in Runs THEN runs[i] ELSE jobs[i]
AtGitHub(i) == IF i \in Runs THEN ghRun[i] ELSE ghJob[i]
ReportedOf(i) ==
    {c \in AnyConclusion : IF i \in Runs THEN RunEvent(i, Done(c)) \in sent
                           ELSE JobEvent(i, Done(c)) \in sent}

Mirror == INSTANCE RunMirror WITH
    progress   <- [i \in Items |-> StatusRank(AtGitHub(i).status)],
    reported   <- [i \in Items |-> ReportedOf(i)],
    mirror     <- [i \in Items |-> StatusRank(Row(i).status)],
    conclusion <- [i \in Items |-> Row(i).conclusion]

\* The service implements the mirror: by whatever deliveries, answers, losses
\* and restarts the store got where it is, each step of GitHub leaves it alone,
\* and each step of the service takes it no further than GitHub is, never back,
\* and never to a conclusion GitHub did not report.
MirrorsGitHub == Mirror!Spec

\* A terminal conclusion is replaced only by the one the API answer being
\* applied names for that run.
ConclusionReplacedByRead ==
    [][\A r \in Runs :
          /\ runs[r].status = Completed
          /\ runs'[r].conclusion # runs[r].conclusion
          => r \in DOMAIN read /\ runs'[r].conclusion = read[r].conclusion]_vars

\* A dispute is raised only by a delivery seen for the first time: a settled
\* dispute is not raised again by a redelivery, so they come to an end.
DisputeNeedsFreshDelivery ==
    [][\A r \in Runs : ~runs[r].needs_lookup /\ runs'[r].needs_lookup =>
            deliveries' # deliveries]_vars

\* Conclusions are GitHub's to revise, and disputes about them come to an end.
ConclusionsSettled == ConclusionReplacedByRead /\ DisputeNeedsFreshDelivery

\* Whatever deliveries are lost, a run the service has heard of ends up as
\* GitHub has it, with every one of its jobs, unless GitHub deleted it.
Repaired ==
    \A r \in Runs : <>[](Known(runs[r]) /\ r \notin deleted =>
        /\ Agrees(runs[r], ghRun[r])
        /\ \A j \in CreatedJobs(r) : Agrees(jobs[j], ghJob[j]))

-----------------------------------------------------------------------------
(* Values for the instances that are checked *)

\* The jobs of an instance are of one run.
OfOneRun == [j \in Jobs |-> CHOOSE r \in Runs : TRUE]

NoPRs == [r \in Runs |-> {}]
OnePR == [r \in Runs |-> {"pr1"}]

=============================================================================
