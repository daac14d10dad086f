--------------------------- MODULE TriageDispatch ---------------------------
(***************************************************************************)
(* One nightly triage run hands its failure groups to Serge and follows    *)
(* them (agentic/integration_failure_triage.py: _dispatch_targets_bounded, *)
(* reconcile_tracking_issue; agentic/serge_dispatch.py).  Serge, GitHub    *)
(* and maintainers act between any two calls, and any call may go          *)
(* unanswered.                                                             *)
(***************************************************************************)
EXTENDS Integers, Sequences, SequencesExt, FiniteSets

CONSTANTS
    Groups,         \* fingerprints of the run's targets, in dispatch order
    Limit,          \* serge_concurrency
    Retries,        \* serge_retry_attempts
    MaxPolls,       \* timeout_seconds of the reconcile, in polls
    MaxClosings     \* bound on pull requests closed while the run looks on

VARIABLES
    phase,          \* dispatch, sweep (polling the active jobs), reconcile, ask, ended, died
    pending,        \* groups to post with their attempt, in order
    active,         \* groups whose job is followed, with its attempt
    toPoll,         \* active jobs this sweep has still to ask about
    completed,      \* active jobs this sweep found ended
    accepted, failed,
    final,          \* groups counted
    errors,         \* dispatch_errors
    jobIds,         \* job_ids: groups with the id of a job
    job,            \* Serge: the group's latest job
    prOpen,         \* GitHub: an open pull request of the group
    closings,
    linked,         \* existing_prs, as last listed
    statuses,       \* statuses of the reconcile
    toAsk,          \* groups this poll has still to ask Serge about; all groups at rest
    lastKey,        \* counts the table was last written with
    shown,          \* the issue's table: a cell for each group
    written,        \* the last write of the table went through
    polls,
    posts           \* history: answered posts of each group

dispatchVars == <<phase, pending, active, toPoll, completed, accepted, failed, final, errors, jobIds>>
sergeVars == <<job, prOpen, closings>>
reconcileVars == <<linked, statuses, toAsk, lastKey, shown, written, polls>>
triageVars == <<dispatchVars, sergeVars, reconcileVars, posts>>

NotActive == -1
NoStatus == "none"
\* Mutant of TerminalStatuses: a task that found nothing to change is not over.
TerminalStatusesChanging == {"published", "error", "limited"}

TerminalStatuses == {"published", "no_fix", "error", "limited"}
Ended(status) == status \in TerminalStatuses
NoPrEnd == {"no_fix", "error"}

\* What a status payload says: Serge's word for a provider's 429 is an error too.
StatusOf(j) == IF j = "limited" THEN "error" ELSE j

-----------------------------------------------------------------------------
(* Serge, GitHub and the maintainers. *)

SergeEnds(g) ==
    /\ job[g] = "running"
    /\ \/ job' = [job EXCEPT ![g] = "published"] /\ prOpen' = prOpen \union {g}
       \/ \E end \in {"no_fix", "error", "limited"} :
             job' = [job EXCEPT ![g] = end] /\ UNCHANGED prOpen
    /\ UNCHANGED <<dispatchVars, reconcileVars, closings, posts>>

PullRequestCloses(g) ==
    /\ g \in prOpen /\ closings < MaxClosings
    /\ prOpen' = prOpen \ {g}
    /\ closings' = closings + 1
    /\ UNCHANGED <<dispatchVars, reconcileVars, job, posts>>

\* A maintainer's pull request for a group, or one reopened.
PullRequestOpens(g) ==
    /\ g \notin prOpen /\ closings < MaxClosings
    /\ prOpen' = prOpen \union {g}
    /\ closings' = closings + 1
    /\ UNCHANGED <<dispatchVars, reconcileVars, job, posts>>

-----------------------------------------------------------------------------
(* _dispatch_targets_bounded *)

ActiveGroups == {g \in Groups : active[g] # NotActive}

Fail(g) ==
    /\ failed' = failed + 1
    /\ final' = final \union {g}
    /\ errors' = errors \union {g}

\* Mutant of MayRetry: a retry too many.
MayRetryOnceMore(attempt) == attempt <= Retries

MayRetry(attempt) == attempt < Retries

\* The next pending group is posted: accepted, refused with a 429, refused
\* otherwise (or accepted without an id).  A bearer found expired is minted
\* again and the post replayed within the call.
Post ==
    /\ phase = "dispatch" /\ pending # <<>> /\ Cardinality(ActiveGroups) < Limit
    /\ LET g == Head(pending).group  attempt == Head(pending).attempt IN
       \/ /\ job' = [job EXCEPT ![g] = "running"]
          /\ jobIds' = jobIds \union {g}
          /\ active' = [active EXCEPT ![g] = attempt]
          /\ posts' = [posts EXCEPT ![g] = @ + 1]
          /\ pending' = Tail(pending)
          /\ UNCHANGED <<failed, final, errors>>
       \/ /\ MayRetry(attempt)
          /\ pending' = <<[group |-> g, attempt |-> attempt + 1]>> \o Tail(pending)
          /\ posts' = [posts EXCEPT ![g] = @ + 1]
          /\ UNCHANGED <<job, jobIds, active, failed, final, errors>>
       \/ /\ Fail(g)
          /\ pending' = Tail(pending)
          /\ posts' = [posts EXCEPT ![g] = @ + 1]
          /\ UNCHANGED <<job, jobIds, active>>
    /\ UNCHANGED <<phase, toPoll, completed, accepted, prOpen, closings, reconcileVars>>

BeginSweep ==
    /\ phase = "dispatch"
    /\ pending = <<>> \/ Cardinality(ActiveGroups) >= Limit
    /\ ActiveGroups # {}
    /\ phase' = "sweep"
    /\ toPoll' = ActiveGroups
    /\ completed' = {}
    /\ UNCHANGED <<pending, active, accepted, failed, final, errors, jobIds, sergeVars, reconcileVars, posts>>

\* An active job is asked about.  No answer reads as "no detail yet".
Poll(g) ==
    /\ phase = "sweep" /\ g \in toPoll
    /\ toPoll' = toPoll \ {g}
    /\ \/ ~Ended(job[g]) /\ UNCHANGED <<completed, pending, accepted, final>>
       \/ Ended(job[g]) /\ UNCHANGED <<completed, pending, accepted, final>>  \* unanswered
       \/ /\ Ended(job[g])
          /\ completed' = completed \union {g}
          /\ IF job[g] = "limited" /\ MayRetry(active[g])
             THEN /\ pending' = Append(pending, [group |-> g, attempt |-> active[g] + 1])
                  /\ UNCHANGED <<accepted, final>>
             ELSE /\ accepted' = accepted + 1
                  /\ final' = final \union {g}
                  /\ UNCHANGED pending
    /\ UNCHANGED <<phase, active, failed, errors, jobIds, sergeVars, reconcileVars, posts>>

\* Mutant of StillActive: a sweep forgets every job it asked about.
StillActiveNone(g) == FALSE

StillActive(g) == g \notin completed

EndSweep ==
    /\ phase = "sweep" /\ toPoll = {}
    /\ active' = [g \in Groups |-> IF StillActive(g) THEN active[g] ELSE NotActive]
    /\ phase' = "dispatch"
    /\ completed' = {}
    /\ UNCHANGED <<pending, toPoll, accepted, failed, final, errors, jobIds, sergeVars, reconcileVars, posts>>

\* The loop is over: a group without a job is an error before the first poll.
DispatchEnds ==
    /\ phase = "dispatch" /\ pending = <<>> /\ ActiveGroups = {}
    /\ phase' = "reconcile"
    /\ failed' = failed + (Cardinality(Groups) - Cardinality(final))
    /\ statuses' = [g \in Groups |-> IF g \in errors THEN "error" ELSE NoStatus]
    /\ UNCHANGED <<pending, active, toPoll, completed, accepted, final, errors, jobIds, sergeVars,
                   linked, toAsk, lastKey, shown, written, polls, posts>>

-----------------------------------------------------------------------------
(* reconcile_tracking_issue *)

\* Open pull requests are listed page by page; a page that fails ends the list.
ListPulls ==
    /\ phase = "reconcile" /\ toAsk = {}
    /\ \E listed \in SUBSET prOpen :
          /\ linked' = listed
          /\ toAsk' = Groups
          /\ phase' = "ask"
    /\ UNCHANGED <<pending, active, toPoll, completed, accepted, failed, final, errors, jobIds, sergeVars,
                   statuses, lastKey, shown, written, polls, posts>>

Ask(g) ==
    /\ phase = "ask" /\ g \in toAsk
    /\ toAsk' = toAsk \ {g}
    /\ \/ UNCHANGED statuses    \* resolved already, without a job, or unanswered
       \/ /\ g \notin linked /\ statuses[g] \notin NoPrEnd /\ g \in jobIds
          /\ statuses' = [statuses EXCEPT ![g] = StatusOf(job[g])]
    /\ UNCHANGED <<dispatchVars, sergeVars, linked, lastKey, shown, written, polls, posts>>

\* Mutant of TerminalGroups: a group counts once for its pull request and once for its status.
TerminalGroupsAll == {g \in Groups : statuses[g] \in NoPrEnd}

TerminalGroups == {g \in Groups : g \notin linked /\ statuses[g] \in NoPrEnd}

Cell(g) == IF g \in linked THEN "pr" ELSE IF statuses[g] \in NoPrEnd THEN statuses[g] ELSE "pending"

\* The poll's end: the table is written when a count changed, and the run
\* waits for the next poll unless every group is resolved or time is up.
EndPoll ==
    LET key == <<Cardinality(linked), Cardinality(TerminalGroups)>> IN
    /\ phase = "ask" /\ toAsk = {}
    /\ IF key # lastKey
       THEN /\ written' \in BOOLEAN
            /\ shown' = IF written' THEN [g \in Groups |-> Cell(g)] ELSE shown
       ELSE UNCHANGED <<written, shown>>
    /\ lastKey' = key
    /\ polls' = polls + 1
    /\ phase' = IF key[1] + key[2] >= Cardinality(Groups) \/ polls' >= MaxPolls
                THEN "ended" ELSE "reconcile"
    /\ UNCHANGED <<pending, active, toPoll, completed, accepted, failed, final, errors, jobIds, sergeVars,
                   linked, statuses, toAsk, posts>>

-----------------------------------------------------------------------------

\* A call to Serge whose answer does not come in time raises TimeoutError, which
\* nothing catches (_post_task and poll_serge_task know HTTPError and URLError):
\* the run ends there, whatever Serge has taken.
CallTimesOut ==
    /\ \/ phase = "dispatch" /\ pending # <<>> /\ Cardinality(ActiveGroups) < Limit
          /\ job' \in {job, [job EXCEPT ![Head(pending).group] = "running"]}
       \/ phase = "sweep" /\ toPoll # {} /\ UNCHANGED job
       \/ phase = "ask" /\ toAsk # {} /\ UNCHANGED job
    /\ phase' = "died"
    /\ UNCHANGED <<pending, active, toPoll, completed, accepted, failed, final, errors, jobIds,
                   prOpen, closings, reconcileVars, posts>>

Init ==
    /\ phase = "dispatch"
    /\ \E order \in SetToSeqs(Groups) :
          pending = [i \in DOMAIN order |-> [group |-> order[i], attempt |-> 0]]
    /\ active = [g \in Groups |-> NotActive]
    /\ toPoll = {} /\ completed = {}
    /\ accepted = 0 /\ failed = 0
    /\ final = {} /\ errors = {} /\ jobIds = {}
    /\ job = [g \in Groups |-> NoStatus]
    /\ prOpen \in {{}, Groups}
    /\ closings = 0
    /\ linked = {} /\ statuses = [g \in Groups |-> NoStatus] /\ toAsk = {}
    /\ lastKey = <<-1, -1>>
    /\ shown = [g \in Groups |-> "pending"]
    /\ written = TRUE
    /\ polls = 0
    /\ posts = [g \in Groups |-> 0]

Next ==
    \/ \E g \in Groups : SergeEnds(g) \/ PullRequestCloses(g) \/ PullRequestOpens(g) \/ Poll(g) \/ Ask(g)
    \/ Post \/ BeginSweep \/ EndSweep \/ DispatchEnds \/ ListPulls \/ EndPoll \/ CallTimesOut

Finds(g) == phase = "sweep" /\ g \in toPoll /\ Poll(g) /\ completed' # completed

\* The run keeps going; a job Serge has taken ends; an answer comes now and then.
Fairness ==
    /\ WF_triageVars(Post \/ BeginSweep \/ EndSweep \/ DispatchEnds \/ ListPulls \/ EndPoll)
    /\ WF_triageVars(\E g \in Groups : Poll(g) \/ Ask(g))
    /\ \A g \in Groups : WF_triageVars(SergeEnds(g)) /\ SF_triageVars(Finds(g))

SafetySpec == Init /\ [][Next]_triageVars
Spec == SafetySpec /\ Fairness

-----------------------------------------------------------------------------
(* Correctness *)

\* Serge never works on more of the run's groups at once than serge_concurrency,
\* and no group is tried more often than the first time and its retries.
BoundedLoad ==
    /\ Cardinality({g \in Groups : job[g] = "running"}) <= Limit
    /\ \A g \in Groups : posts[g] <= Retries + 1

\* Every group is counted once, accepted or failed, when dispatch is over,
\* and one that has no job at Serge has an error to show for it.
EveryGroupCounted ==
    phase \in {"reconcile", "ask", "ended"} =>
        /\ accepted + failed = Cardinality(Groups)
        /\ failed = Cardinality(errors)
        /\ Groups \ jobIds \subseteq errors
        /\ \A g \in Groups \ errors : Ended(job[g])

\* A reconcile that ends before its time leaves no group pending in the table,
\* if the table's last write went through.
EndsInformed ==
    phase = "ended" /\ polls < MaxPolls /\ written => \A g \in Groups : shown[g] # "pending"

\* Dispatch and reconcile end, if Serge ends what it takes.
TriageEnds == <>(phase \in {"ended", "died"})

\* What the docstring of reconcile_tracking_issue says: "The issue body is
\* PATCHed whenever the resolved set changes".  The code compares how many
\* groups are linked and how many are terminal, not which.
TableFollows == phase = "ended" /\ written => \A g \in Groups : shown[g] = Cell(g)

-----------------------------------------------------------------------------
(* The inductive invariant                                                   *)

Bounds == IsFiniteSet(Groups) /\ Limit \in Nat /\ Retries \in Nat /\ MaxPolls \in Nat

Entry == [group : Groups, attempt : 0..Retries]
JobStates == {NoStatus, "running"} \union TerminalStatuses
Statuses == {NoStatus, "running", "published", "no_fix", "error"}
Cells == {"pr", "pending"} \union NoPrEnd

\* Every variable holds a value of its kind.
TypeOK ==
    /\ phase \in {"dispatch", "sweep", "reconcile", "ask", "ended", "died"}
    /\ pending \in Seq(Entry)
    /\ active \in [Groups -> {NotActive} \union 0..Retries]
    /\ toPoll \subseteq Groups /\ completed \subseteq Groups
    /\ accepted \in Nat /\ failed \in Nat
    /\ final \subseteq Groups /\ errors \subseteq Groups /\ jobIds \subseteq Groups
    /\ job \in [Groups -> JobStates]
    /\ prOpen \subseteq Groups /\ closings \in Nat
    /\ linked \subseteq Groups /\ toAsk \subseteq Groups
    /\ statuses \in [Groups -> Statuses]
    /\ lastKey \in Int \X Int
    /\ shown \in [Groups -> Cells] /\ written \in BOOLEAN
    /\ polls \in Nat
    /\ posts \in [Groups -> Nat]

Entries(s) == {s[i] : i \in DOMAIN s}
NoneTwice(s) == \A i, j \in DOMAIN s : s[i].group = s[j].group => i = j

Dispatching == phase \in {"dispatch", "sweep"}
Waiting == {e.group : e \in Entries(pending)}
Working == ActiveGroups \ completed
Running == {g \in Groups : job[g] = "running"}

\* While the groups are dispatched each is in one place: it waits, Serge works
\* on it, or it is counted.
Placed ==
    /\ NoneTwice(pending)
    /\ completed \subseteq ActiveGroups
    /\ toPoll \subseteq Working
    /\ phase = "dispatch" => completed = {}
    /\ Waiting \union Working \union final = Groups
    /\ Waiting \intersect Working = {}
    /\ Waiting \intersect final = {}
    /\ Working \intersect final = {}

\* A counted group failed, or has a job that ended.
FinalTrue(g) ==
    g \in final => job[g] # "running" /\ (g \in errors \/ (g \in jobIds /\ Ended(job[g])))

Tallied ==
    /\ errors \subseteq final
    /\ failed = Cardinality(errors)
    /\ accepted = Cardinality(final \ errors)

\* Serge runs nothing but what is followed, and no more than that.
Loaded ==
    /\ Cardinality(Running) <= Limit
    /\ Dispatching => Running \subseteq Working /\ Cardinality(ActiveGroups) <= Limit

\* A group has been posted once for each attempt.
Tried ==
    /\ \A g \in Groups : posts[g] <= Retries + 1
    /\ Dispatching =>
          /\ \A g \in Working : g \in jobIds /\ posts[g] <= active[g] + 1
          /\ \A e \in Entries(pending) : posts[e.group] <= e.attempt

\* The reconcile goes on as long as a group is unresolved.
Reconciled ==
    /\ phase \in {"reconcile", "ask", "ended"} => final = Groups
    /\ phase \in {"dispatch", "sweep", "reconcile", "ask"} =>
          lastKey[1] + lastKey[2] < Cardinality(Groups)

Handed ==
    /\ TypeOK
    /\ Dispatching => Placed
    /\ \A g \in Groups : FinalTrue(g)
    /\ Tallied /\ Loaded /\ Tried /\ Reconciled
    /\ EndsInformed
=============================================================================
