--------------------------- MODULE DashboardTriage ---------------------------
(***************************************************************************)
(* Maintainers hand one failing test of the dashboard to Serge             *)
(* (agentic/dashboard_failure_triage.py).  Nothing is shared but GitHub: a *)
(* pull request, a tracking issue and other people's work on the test are  *)
(* the lock, looked for before and set after.  Two of them may be at it at *)
(* once.                                                                   *)
(***************************************************************************)
EXTENDS Naturals, FiniteSets

CONSTANTS
    Dispatchers,
    MaxPolls        \* timeout_seconds of the reconcile, in polls

\* A failure's identity, with the trace's message or without: the trace may be
\* too large or out of reach.
Identities == {"withMessage", "bare"}

VARIABLES
    pc,             \* what each dispatcher does next
    identity,       \* fingerprint it works under
    forced,         \* --force
    task,           \* Serge: its task, none / running / published / no_fix / error
    pr,             \* it has found a pull request
    status,         \* status its reconcile last heard
    last,           \* what it last wrote the issue with
    polls,
    issue,          \* GitHub: the tracking issue under each fingerprint, none / open / closed
    body,           \* what that issue says: none, running, pr, no_fix, error
    prOpen,         \* fingerprints an open pull request carries
    humanWork,      \* somebody is at work on the test
    numbered,       \* dispatchers that know the number of their issue
    locked,         \* dispatchers whose check found the lock held
    late            \* history: dispatchers that checked after another's task was taken

dashboardVars == <<pc, identity, forced, task, pr, status, last, polls, issue, body, prOpen,
                   humanWork, numbered, locked, late>>

Go(d, from, to) == pc[d] = from /\ pc' = [pc EXCEPT ![d] = to]

-----------------------------------------------------------------------------

\* main up to the lock: the trace is fetched, or the URL's words have to do.
Fetch(d) ==
    /\ Go(d, "start", "check")
    /\ identity' \in {[identity EXCEPT ![d] = i] : i \in Identities}
    /\ forced' \in {forced, [forced EXCEPT ![d] = TRUE]}
    /\ UNCHANGED <<task, pr, status, last, polls, issue, body, prOpen, humanWork, numbered, locked, late>>

\* Mutant of Held: only a pull request holds the lock.
HeldByPull(i) == i \in prOpen

Held(i) == i \in prOpen \/ issue[i] = "open" \/ humanWork

\* Dispatchers whose task Serge took and whose issue still says so.
TakenWith(i) == {d \in Dispatchers : identity[d] = i /\ task[d] # "none" /\ issue[i] = "open"}

\* check_lock; a lookup that fails finds nothing.
Check(d) ==
    /\ Go(d, "check", "decide")
    /\ \/ /\ locked' = IF Held(identity[d]) THEN locked \union {d} ELSE locked
          /\ late' = IF TakenWith(identity[d]) # {} THEN late \union {d} ELSE late
       \/ UNCHANGED <<locked, late>>
    /\ UNCHANGED <<identity, forced, task, pr, status, last, polls, issue, body, prOpen, humanWork, numbered>>

\* The issue's new body, or a write that failed.
Writes(d, said) == body' \in {body, [body EXCEPT ![identity[d]] = said]}

Refuse(d) ==
    /\ d \in locked /\ ~forced[d]
    /\ Go(d, "decide", "end")
    /\ UNCHANGED <<identity, forced, task, pr, status, last, polls, issue, body, prOpen, humanWork, numbered, locked, late>>

\* ensure_failure_issue, before the task so that it can point to it; the run
\* goes on without an issue.
EnsureIssue(d) ==
    /\ d \notin locked \/ forced[d]
    /\ Go(d, "decide", "dispatch")
    /\ \/ /\ issue' = [issue EXCEPT ![identity[d]] = "open"]
          /\ Writes(d, "none")
          /\ numbered' = numbered \union {d}
       \/ UNCHANGED <<issue, body, numbered>>
    /\ UNCHANGED <<identity, forced, task, pr, status, last, polls, prOpen, humanWork, locked, late>>

\* dispatch_to_serge: taken, or refused, which ends the run.
Dispatch(d) ==
    /\ pc[d] = "dispatch"
    /\ \/ /\ Go(d, "dispatch", "record")
          /\ task' = [task EXCEPT ![d] = "running"]
       \/ Go(d, "dispatch", "end") /\ UNCHANGED task
    /\ UNCHANGED <<identity, forced, pr, status, last, polls, issue, body, prOpen, humanWork, numbered, locked, late>>

\* Without an issue there is nothing to follow.
Record(d) ==
    /\ Go(d, "record", IF d \in numbered THEN "poll" ELSE "end")
    /\ IF d \in numbered THEN Writes(d, "running") ELSE UNCHANGED body
    /\ UNCHANGED <<identity, forced, task, pr, status, last, polls, issue, prOpen, humanWork, numbered, locked, late>>

Over(d) == pr[d] \/ status[d] \in {"no_fix", "error"} \/ polls[d] >= MaxPolls

\* reconcile_failure_issue: the pull request first; Serge is asked only without.
Poll(d) ==
    /\ Go(d, "poll", "refresh")
    /\ \E answered \in BOOLEAN :
          pr' = [pr EXCEPT ![d] = answered /\ identity[d] \in prOpen]
    /\ IF pr'[d] THEN UNCHANGED status
       ELSE status' \in {status, [status EXCEPT ![d] = task[d]]}
    /\ polls' = [polls EXCEPT ![d] = @ + 1]
    /\ UNCHANGED <<identity, forced, task, last, issue, body, prOpen, humanWork, numbered, locked, late>>

Found(d) == <<pr[d], status[d]>>

Say(d) == IF pr[d] THEN "pr" ELSE status[d]

Refresh(d) ==
    /\ Go(d, "refresh", IF Over(d) THEN "end" ELSE "poll")
    /\ IF Found(d) # last[d] THEN Writes(d, Say(d)) ELSE UNCHANGED body
    /\ last' = [last EXCEPT ![d] = Found(d)]
    /\ UNCHANGED <<identity, forced, task, pr, status, polls, issue, prOpen, humanWork, numbered, locked, late>>

-----------------------------------------------------------------------------

SergeEnds(d) ==
    /\ task[d] = "running"
    /\ \/ /\ task' = [task EXCEPT ![d] = "published"]
          /\ prOpen' = prOpen \union {identity[d]}
       \/ /\ task' \in {[task EXCEPT ![d] = end] : end \in {"no_fix", "error"}}
          /\ UNCHANGED prOpen
    /\ UNCHANGED <<pc, identity, forced, pr, status, last, polls, issue, body, humanWork, numbered, locked, late>>

\* Somebody closes the issue, or takes up the test.
People ==
    /\ \/ /\ \E i \in Identities : issue[i] = "open" /\ issue' = [issue EXCEPT ![i] = "closed"]
          /\ UNCHANGED humanWork
       \/ /\ ~humanWork /\ humanWork' = TRUE
          /\ UNCHANGED issue
    /\ UNCHANGED <<pc, identity, forced, task, pr, status, last, polls, body, prOpen, numbered, locked, late>>

Init ==
    /\ pc = [d \in Dispatchers |-> "start"]
    /\ identity = [d \in Dispatchers |-> "bare"]
    /\ forced = [d \in Dispatchers |-> FALSE]
    /\ task = [d \in Dispatchers |-> "none"]
    /\ pr = [d \in Dispatchers |-> FALSE]
    /\ status = [d \in Dispatchers |-> "none"]
    /\ last = [d \in Dispatchers |-> <<FALSE, "unset">>]
    /\ polls = [d \in Dispatchers |-> 0]
    /\ issue = [i \in Identities |-> "none"]
    /\ body = [i \in Identities |-> "none"]
    /\ prOpen = {} /\ humanWork = FALSE /\ numbered = {} /\ locked = {} /\ late = {}

Next ==
    \/ \E d \in Dispatchers :
          Fetch(d) \/ Check(d) \/ Refuse(d) \/ EnsureIssue(d) \/ Dispatch(d) \/ Record(d)
          \/ Poll(d) \/ Refresh(d) \/ SergeEnds(d)
    \/ People

Spec == Init /\ [][Next]_dashboardVars

-----------------------------------------------------------------------------
(* Correctness *)

\* Who looks after Serge took a task for the failure, and hears of the issue
\* that was opened for it, does not start another unless told to.
LockedFromDispatch == \A d \in late : task[d] # "none" => forced[d]

\* What the module's docstring says: the lock is held if "a per-failure
\* tracking issue already records a task/PR".  The code asks only whether the
\* issue is open: one left by a task Serge refused holds it too.
LockRecordsTask ==
    \A d \in locked : pc[d] = "decide" =>
        humanWork \/ identity[d] \in prOpen
        \/ \E e \in Dispatchers \ {d} :
              identity[e] = identity[d] /\ (pc[e] # "end" \/ task[e] # "none")

-----------------------------------------------------------------------------
(* The inductive invariant, for the proof of LockedFromDispatch *)

Stages == {"start", "check", "decide", "dispatch", "record", "poll", "refresh", "end"}

TypeOK ==
    /\ pc \in [Dispatchers -> Stages]
    /\ forced \in [Dispatchers -> BOOLEAN]
    /\ task \in [Dispatchers -> {"none", "running", "published", "no_fix", "error"}]
    /\ issue \in [Identities -> {"none", "open", "closed"}]
    /\ identity \in [Dispatchers -> Identities]

\* Serge has no task of a dispatcher that has not sent one.
SentOnce(d) == pc[d] \in {"start", "check", "decide", "dispatch"} => task[d] = "none"

\* Who checked late found the lock held, and has gone past it only if forced.
HeldLate(d) ==
    d \in late =>
        /\ d \in locked /\ pc[d] \notin {"start", "check"}
        /\ pc[d] = "dispatch" => forced[d]

Locking ==
    /\ TypeOK
    /\ \A d \in Dispatchers : SentOnce(d) /\ HeldLate(d)
    /\ late \subseteq Dispatchers
    /\ LockedFromDispatch
=============================================================================
