---------------------------- MODULE RerunActions ----------------------------
(***************************************************************************)
(* Re-running the failed tests of a pull request                           *)
(* (src/src/transformersci/otel/rerun_actions.py, and submit_rerun in      *)
(* trace_exporter.py).  A POST creates an action, a row in SQLite; one     *)
(* worker thread per action cancels the source runs the person confirmed,  *)
(* then dispatches at most one workflow run per lane, then watches them.   *)
(* The process may crash at any step: rows survive, the worker's own copy  *)
(* of its record does not, and at start-up every live row gets a worker.   *)
(*                                                                         *)
(* GitHub (and serge, which makes the writes) is external: source runs     *)
(* complete when they like, a dispatched run takes its time to be listed,  *)
(* and any call may fail, with or without having had its effect.           *)
(***************************************************************************)
EXTENDS Naturals, FiniteSets, TLAPS

CONSTANTS
    PRs,            \* pull requests
    Lanes,          \* "cpu", "gpu"
    Actions,        \* actions, named by their idempotency key
    PrOf,           \* the pull request an action is for
    LanesOf,        \* the lanes it re-runs
    Posts,          \* the POSTs of the browser or of Slack
    KeyOf,          \* the idempotency key a POST carries
    SourceRuns,     \* the runs an action may have to cancel
    SourceOf,       \* <<pull request, lane>> of a source run
    MaxRestarts,    \* how often the process may restart
    NoTarget        \* the worker is between two targets

ASSUME PrOfAssumption == PrOf \in [Actions -> PRs]
ASSUME LanesOfAssumption == LanesOf \in [Actions -> SUBSET Lanes]
ASSUME KeyOfAssumption == KeyOf \in [Posts -> Actions]
ASSUME SourceOfAssumption == SourceOf \in [SourceRuns -> PRs \X Lanes]
ASSUME MaxRestartsAssumption == MaxRestarts \in Nat
ASSUME NoTargetAssumption == NoTarget \notin Lanes \union SourceRuns

VARIABLES
    moved,          \* GitHub: the PRs closed, or whose head has moved
    source,         \* GitHub: each source run's status
    ghRun,          \* GitHub: the workflow run of an action's lane
    asked,          \* GitHub: how many dispatches of the lane it accepted
    rows,           \* store: table actions
    post,           \* handler threads: how far each POST is
    seen,           \* handler threads: the active runs the POST confirmed
    pc,             \* workers: where each is
    mem,            \* workers: their copy of the record
    at,             \* workers: the run being cancelled or lane dispatched
    failures,       \* workers: a lane has failed in this pass
    restarts        \* how often the process has restarted

ghVars == <<moved, source, ghRun, asked>>
postVars == <<post, seen>>
workerVars == <<pc, mem, at, failures>>
vars == <<ghVars, rows, postVars, workerVars, restarts>>

-----------------------------------------------------------------------------
(* Records *)

OpenStates == {"prepared", "cancelling", "dispatching"}
LiveStates == OpenStates \union {"dispatched"}
FinalStates == {"completed", "failed"}
States == LiveStates \union FinalStates
CancelResults == {"pending", "requested", "cancelled", "already completed", "refused"}
DispatchStates == {"pending", "requested", "dispatched", "unknown", "failed"}
LaneRuns == {"none", "live", "completed"}

\* No action by that key: no row, or no worker to hold a copy of it.
NoRecord == [state |-> "absent"]

Record(a) ==
    [state : States,
     cancel : UNION {[targets -> CancelResults] : targets \in SUBSET SourceRuns},
     dispatch : [LanesOf[a] -> DispatchStates],
     run : [LanesOf[a] -> LaneRuns]]

NewRecord(a, targets) ==
    [state |-> "prepared",
     cancel |-> [t \in targets |-> "pending"],
     dispatch |-> [l \in LanesOf[a] |-> "pending"],
     run |-> [l \in LanesOf[a] |-> "none"]]

Exists(a) == rows[a] # NoRecord
OpenFor(pr) == \E a \in Actions : PrOf[a] = pr /\ rows[a].state \in OpenStates
Targets(a) == DOMAIN mem[a].cancel

Running == {a \in Actions : pc[a] \notin {"none", "ended"}}

-----------------------------------------------------------------------------
(* GitHub *)

\* Source runs start and complete; a pull request is closed or pushed to.
StartSource(s) ==
    /\ source[s] = "absent"
    /\ source' = [source EXCEPT ![s] = "active"]
    /\ UNCHANGED <<moved, ghRun, asked>>

CompleteSource(s) ==
    /\ source[s] = "active"
    /\ source' = [source EXCEPT ![s] = "completed"]
    /\ UNCHANGED <<moved, ghRun, asked>>

MovePr(pr) ==
    /\ pr \notin moved
    /\ moved' = moved \union {pr}
    /\ UNCHANGED <<source, ghRun, asked>>

\* A dispatched run appears in the workflow's list some time later, then ends.
AdvanceRun(a, l) ==
    /\ \/ ghRun[a][l] = "unlisted" /\ ghRun' = [ghRun EXCEPT ![a][l] = "listed"]
       \/ ghRun[a][l] = "listed" /\ ghRun' = [ghRun EXCEPT ![a][l] = "completed"]
    /\ UNCHANGED <<moved, source, asked>>

GitHub ==
    /\ \/ \E s \in SourceRuns : StartSource(s) \/ CompleteSource(s)
       \/ \E pr \in PRs : MovePr(pr)
       \/ \E a \in Actions : \E l \in LanesOf[a] : AdvanceRun(a, l)
    /\ UNCHANGED <<rows, postVars, workerVars>>

-----------------------------------------------------------------------------
(* submit_rerun *)

\* The active source runs of the lanes asked for.
ActiveFor(a) ==
    {s \in SourceRuns : /\ source[s] = "active"
                        /\ SourceOf[s][1] = PrOf[a]
                        /\ SourceOf[s][2] \in LanesOf[a]}

\* The POST is answered without an action of its own: the key is known, or it
\* is refused (permission, rate, a busy GPU, a moved PR, runs not confirmed).
PostRefused(p) ==
    /\ post[p] = "new"
    /\ post' = [post EXCEPT ![p] = "answered"]
    /\ UNCHANGED <<ghVars, rows, seen, workerVars>>

\* Every check passed, on a fresh snapshot of the pull request.
PostChecked(p) ==
    /\ post[p] = "new"
    /\ ~Exists(KeyOf[p])
    /\ PrOf[KeyOf[p]] \notin moved
    /\ post' = [post EXCEPT ![p] = "checked"]
    /\ seen' = [seen EXCEPT ![p] = ActiveFor(KeyOf[p])]
    /\ UNCHANGED <<ghVars, rows, workerVars>>

\* start: one worker per action in this process.
StartWorker(a) ==
    pc' = [pc EXCEPT ![a] = IF a \in Running THEN @ ELSE "start"]

\* Mutant of MayCreate: the index over open actions is missing.
MayCreateAnyway(a) == TRUE

\* The unique index over the open actions of one pull request.
MayCreate(a) == ~OpenFor(PrOf[a])

\* Store.create, then start: a key that is already on file returns its first
\* action; an open action for the same pull request refuses this one.
PostCreates(p) ==
    LET a == KeyOf[p] IN
    /\ post[p] = "checked"
    /\ post' = [post EXCEPT ![p] = "answered"]
    /\ seen' = [seen EXCEPT ![p] = {}]
    /\ \/ /\ Exists(a)
          /\ StartWorker(a)
          /\ UNCHANGED rows
       \/ /\ ~Exists(a) /\ MayCreate(a)
          /\ rows' = [rows EXCEPT ![a] = NewRecord(a, seen[p])]
          /\ StartWorker(a)
       \/ /\ ~Exists(a) /\ ~MayCreate(a)
          /\ UNCHANGED <<rows, pc>>
    /\ UNCHANGED <<ghVars, mem, at, failures>>

-----------------------------------------------------------------------------
(* The worker: run_action *)

\* The worker's record is changed and written to the store.
Save(a, record) ==
    /\ mem' = [mem EXCEPT ![a] = record]
    /\ rows' = [rows EXCEPT ![a] = record]

Goto(a, stage) == pc' = [pc EXCEPT ![a] = stage]
Between(a) == at' = [at EXCEPT ![a] = NoTarget]

\* _fail, after which run_action returns.
Fail(a) ==
    /\ Save(a, [mem[a] EXCEPT !.state = "failed"])
    /\ Goto(a, "ended")
    /\ Between(a)

LoadRecord(a) ==
    /\ pc[a] = "start"
    /\ mem' = [mem EXCEPT ![a] = rows[a]]
    /\ Goto(a, IF rows[a].state \in OpenStates THEN "validate"
               ELSE IF rows[a].state \in {"dispatched", "failed"} THEN "watch"
               ELSE "ended")
    /\ UNCHANGED <<ghVars, rows, postVars, at, failures>>

\* Mutant of AskedBefore: a restart sends the request again.
AskedBeforeForgotten(a, l) == FALSE

\* A restart between the request and finding its run: look, never resend.
AskedBefore(a, l) == mem[a].dispatch[l] = "requested" /\ mem[a].run[l] = "none"
NotAsked(a, l) == mem[a].dispatch[l] = "pending" \/
                  (mem[a].dispatch[l] = "requested" /\ ~AskedBefore(a, l))

\* Whether the worker's next step calls GitHub or serge.
CallsApi(a) ==
    \/ pc[a] \in {"validate", "cancel_post", "revalidate", "dispatch_post", "find"}
    \/ pc[a] = "cancel" /\ \E t \in Targets(a) : mem[a].cancel[t] \in {"pending", "requested"}
    \/ pc[a] = "dispatch" /\ \E l \in LanesOf[a] : AskedBefore(a, l)
    \/ pc[a] = "watch" /\ \E l \in LanesOf[a] : mem[a].run[l] = "live"

\* The call raises: an open action fails; otherwise nothing is written.
Raises(a) ==
    /\ CallsApi(a)
    /\ IF mem[a].state \in OpenStates
       THEN Fail(a)
       ELSE Goto(a, "ended") /\ Between(a) /\ UNCHANGED <<rows, mem>>
    /\ UNCHANGED <<ghVars, postVars, failures>>

Validate(a) ==
    /\ pc[a] = "validate"
    /\ PrOf[a] \notin moved
    /\ Goto(a, CASE mem[a].state = "prepared" -> "begin"
                 [] mem[a].state = "cancelling" -> "cancel"
                 [] mem[a].state = "dispatching" -> "revalidate")
    /\ UNCHANGED <<ghVars, rows, postVars, mem, at, failures>>

Begin(a) ==
    /\ pc[a] = "begin"
    /\ IF Targets(a) = {}
       THEN /\ Save(a, [mem[a] EXCEPT !.state = "dispatching"])
            /\ Goto(a, "revalidate")
       ELSE /\ Save(a, [mem[a] EXCEPT !.state = "cancelling"])
            /\ Goto(a, "cancel")
    /\ UNCHANGED <<ghVars, postVars, at, failures>>

\* _cancel reads a run it has not dealt with: done, or to be cancelled.
CancelRead(a, t) ==
    /\ pc[a] = "cancel"
    /\ t \in Targets(a)
    /\ mem[a].cancel[t] = "pending"
    /\ IF source[t] = "completed"
       THEN /\ Save(a, [mem[a] EXCEPT !.cancel[t] = "already completed"])
            /\ UNCHANGED <<pc, at>>
       ELSE /\ Goto(a, "cancel_post")
            /\ at' = [at EXCEPT ![a] = t]
            /\ UNCHANGED <<rows, mem>>
    /\ UNCHANGED <<ghVars, postVars, failures>>

\* Mutant of CancelTaken: the status code itself is recorded as the result.
CancelTakenUnread(t) == {"202", "409"}

\* 202 for an active run; 409 for one that is finishing, which is read again.
CancelTaken(t) ==
    IF source[t] = "completed" THEN {"already completed"} ELSE {"requested"}

CancelPost(a) ==
    /\ pc[a] = "cancel_post"
    /\ \E result \in CancelTaken(at[a]) :
          Save(a, [mem[a] EXCEPT !.cancel[at[a]] = result])
    /\ Goto(a, "cancel")
    /\ Between(a)
    /\ UNCHANGED <<ghVars, postVars, failures>>

CancelRefused(a) ==
    /\ pc[a] = "cancel_post"
    /\ source[at[a]] # "completed"
    /\ Save(a, [mem[a] EXCEPT !.cancel[at[a]] = "refused"])
    /\ Goto(a, "refused")
    /\ UNCHANGED <<ghVars, postVars, at, failures>>

CancelFails(a) ==
    /\ pc[a] = "refused"
    /\ Fail(a)
    /\ UNCHANGED <<ghVars, postVars, failures>>

Waiting(a) == {t \in Targets(a) : /\ mem[a].cancel[t] = "requested"
                                  /\ source[t] # "completed"}
AllAsked(a) == \A t \in Targets(a) : mem[a].cancel[t] # "pending"

\* Mutant of MayLeaveCancel: the runs asked to stop are not waited for.
MayLeaveCancelAtOnce(a) == AllAsked(a)

MayLeaveCancel(a) == AllAsked(a) /\ Waiting(a) = {}

CancelDone(a) ==
    /\ pc[a] = "cancel"
    /\ MayLeaveCancel(a)
    /\ Save(a, [mem[a] EXCEPT !.cancel =
                   [t \in Targets(a) |-> IF @[t] = "requested" THEN "cancelled"
                                         ELSE @[t]]])
    /\ Goto(a, "cancelled")
    /\ UNCHANGED <<ghVars, postVars, at, failures>>

CancelTimeout(a) ==
    /\ pc[a] = "cancel"
    /\ AllAsked(a)
    /\ Waiting(a) # {}
    /\ Fail(a)
    /\ UNCHANGED <<ghVars, postVars, failures>>

ToDispatch(a) ==
    /\ pc[a] = "cancelled"
    /\ Save(a, [mem[a] EXCEPT !.state = "dispatching"])
    /\ Goto(a, "revalidate")
    /\ UNCHANGED <<ghVars, postVars, at, failures>>

\* Mutant of HeadCurrent: the second validation is skipped.
HeadCurrentAssumed(a) == TRUE

HeadCurrent(a) == PrOf[a] \notin moved

Revalidate(a) ==
    /\ pc[a] = "revalidate"
    /\ HeadCurrent(a)
    /\ Goto(a, "dispatch")
    /\ failures' = [failures EXCEPT ![a] = FALSE]
    /\ UNCHANGED <<ghVars, rows, postVars, mem, at>>

Listed(a, l) == ghRun[a][l] \in {"listed", "completed"}

\* The lane's outcome: its run, or none found.
Found(record, l) == [record EXCEPT !.dispatch[l] = "dispatched", !.run[l] = "live"]
NotFound(record, l) == [record EXCEPT !.dispatch[l] = "unknown"]

DispatchLook(a, l) ==
    /\ pc[a] = "dispatch"
    /\ AskedBefore(a, l)
    /\ IF Listed(a, l)
       THEN Save(a, Found(mem[a], l)) /\ UNCHANGED failures
       ELSE Save(a, NotFound(mem[a], l)) /\ failures' = [failures EXCEPT ![a] = TRUE]
    /\ UNCHANGED <<ghVars, postVars, pc, at>>

\* Mutant of Marked: the request is recorded only once it is answered.
MarkedLate(a, l) == rows[a]

\* The request is on file before it is made.
Marked(a, l) == [mem[a] EXCEPT !.dispatch[l] = "requested"]

DispatchMark(a, l) ==
    /\ pc[a] = "dispatch"
    /\ NotAsked(a, l)
    /\ mem' = [mem EXCEPT ![a] = [@ EXCEPT !.dispatch[l] = "requested"]]
    /\ rows' = [rows EXCEPT ![a] = Marked(a, l)]
    /\ Goto(a, "dispatch_post")
    /\ at' = [at EXCEPT ![a] = l]
    /\ UNCHANGED <<ghVars, postVars, failures>>

\* GitHub starts a run (a second one for the same lane is counted, once).
Accept(a) ==
    /\ asked' = [asked EXCEPT ![a][at[a]] = IF @ = 0 THEN 1 ELSE 2]
    /\ ghRun' = [ghRun EXCEPT ![a][at[a]] = IF @ = "none" THEN "unlisted" ELSE @]
    /\ UNCHANGED <<moved, source>>

DispatchAccepted(a) ==
    /\ pc[a] = "dispatch_post"
    /\ Accept(a)
    /\ Goto(a, "find")
    /\ UNCHANGED <<rows, postVars, mem, at, failures>>

DispatchRefused(a) ==
    /\ pc[a] = "dispatch_post"
    /\ Save(a, [mem[a] EXCEPT !.dispatch[at[a]] = "failed"])
    /\ failures' = [failures EXCEPT ![a] = TRUE]
    /\ Goto(a, "dispatch")
    /\ Between(a)
    /\ UNCHANGED <<ghVars, postVars>>

\* The run is started but the call itself raises (a timeout).
DispatchLost(a) ==
    /\ pc[a] = "dispatch_post"
    /\ Accept(a)
    /\ Fail(a)
    /\ UNCHANGED <<postVars, failures>>

FindRun(a) ==
    /\ pc[a] = "find"
    /\ Listed(a, at[a])
    /\ Save(a, Found(mem[a], at[a]))
    /\ Goto(a, "dispatch")
    /\ Between(a)
    /\ UNCHANGED <<ghVars, postVars, failures>>

FindTimeout(a) ==
    /\ pc[a] = "find"
    /\ ~Listed(a, at[a])
    /\ Save(a, NotFound(mem[a], at[a]))
    /\ failures' = [failures EXCEPT ![a] = TRUE]
    /\ Goto(a, "dispatch")
    /\ Between(a)
    /\ UNCHANGED <<ghVars, postVars>>

\* Every lane has been dealt with.
DispatchDone(a) ==
    /\ pc[a] = "dispatch"
    /\ \A l \in LanesOf[a] : ~AskedBefore(a, l) /\ ~NotAsked(a, l)
    /\ Save(a, [mem[a] EXCEPT !.state = IF failures[a] THEN "failed" ELSE "dispatched"])
    /\ Goto(a, "watch")
    /\ UNCHANGED <<ghVars, postVars, at, failures>>

\* Mutant of AfterWatch: every watched action is completed.
AfterWatchCompleted(a) == "watched"

\* Every listed run has ended: a dispatched action is completed, a failed one
\* stays failed.
AfterWatch(a) == IF mem[a].state = "dispatched" THEN "watched" ELSE "ended"

\* One pass of _watch over the lanes that list a run: those it reads as ended.
WatchPass(a, ended) ==
    /\ pc[a] = "watch"
    /\ ended \subseteq {l \in LanesOf[a] : /\ mem[a].run[l] = "live"
                                           /\ ghRun[a][l] = "completed"}
    /\ LET runs == [l \in LanesOf[a] |-> IF l \in ended THEN "completed"
                                         ELSE mem[a].run[l]] IN
       /\ Save(a, [mem[a] EXCEPT !.run = runs])
       /\ Goto(a, IF \E l \in LanesOf[a] : runs[l] = "live" THEN "watch"
                  ELSE AfterWatch(a))
    /\ UNCHANGED <<ghVars, postVars, at, failures>>

WatchDone(a) ==
    /\ pc[a] = "watched"
    /\ Save(a, [mem[a] EXCEPT !.state = "completed"])
    /\ Goto(a, "ended")
    /\ UNCHANGED <<ghVars, postVars, at, failures>>

\* Eight hours after the action was created.
WatchExpires(a) ==
    /\ pc[a] = "watch"
    /\ Goto(a, "ended")
    /\ UNCHANGED <<ghVars, rows, postVars, mem, at, failures>>

CancelStep(a) ==
    \/ CancelPost(a) \/ CancelRefused(a) \/ CancelFails(a) \/ CancelDone(a) \/ CancelTimeout(a)
    \/ \E t \in SourceRuns : CancelRead(a, t)
DispatchStep(a) ==
    \/ DispatchAccepted(a) \/ DispatchRefused(a) \/ DispatchLost(a)
    \/ FindRun(a) \/ FindTimeout(a) \/ DispatchDone(a)
    \/ \E l \in LanesOf[a] : DispatchLook(a, l) \/ DispatchMark(a, l)
WatchStep(a) ==
    \/ WatchDone(a) \/ WatchExpires(a)
    \/ \E ended \in SUBSET LanesOf[a] : WatchPass(a, ended)
Worker(a) ==
    \/ LoadRecord(a) \/ Raises(a) \/ Validate(a) \/ Begin(a) \/ ToDispatch(a)
    \/ Revalidate(a) \/ CancelStep(a) \/ DispatchStep(a) \/ WatchStep(a)

\* Mutant of Resumed: only the actions past dispatch are picked up.
ResumedDispatched(a) == rows[a].state = "dispatched"

Resumed(a) == rows[a].state \in LiveStates

\* The process restarts: handlers and workers are gone; resume_all starts a
\* worker for every live row.
Restart ==
    /\ restarts < MaxRestarts
    /\ restarts' = restarts + 1
    /\ pc' = [a \in Actions |-> IF Resumed(a) THEN "start" ELSE "none"]
    /\ mem' = [a \in Actions |-> NoRecord]
    /\ at' = [a \in Actions |-> NoTarget]
    /\ failures' = [a \in Actions |-> FALSE]
    /\ post' = [p \in Posts |-> IF post[p] = "checked" THEN "answered" ELSE post[p]]
    /\ seen' = [p \in Posts |-> {}]
    /\ UNCHANGED <<ghVars, rows>>

-----------------------------------------------------------------------------

Init ==
    /\ moved = {}
    /\ source = [s \in SourceRuns |-> "absent"]
    /\ ghRun = [a \in Actions |-> [l \in LanesOf[a] |-> "none"]]
    /\ asked = [a \in Actions |-> [l \in LanesOf[a] |-> 0]]
    /\ rows = [a \in Actions |-> NoRecord]
    /\ post = [p \in Posts |-> "new"]
    /\ seen = [p \in Posts |-> {}]
    /\ pc = [a \in Actions |-> "none"]
    /\ mem = [a \in Actions |-> NoRecord]
    /\ at = [a \in Actions |-> NoTarget]
    /\ failures = [a \in Actions |-> FALSE]
    /\ restarts = 0

Next ==
    \/ /\ \/ GitHub
          \/ \E p \in Posts : PostRefused(p) \/ PostChecked(p) \/ PostCreates(p)
          \/ \E a \in Actions : Worker(a)
       /\ UNCHANGED restarts
    \/ Restart

Spec == Init /\ [][Next]_vars

\* A worker thread gets on with it: every call it makes returns or raises, and
\* every loop it waits in has a deadline.  GitHub may take for ever.
FairSpec == Spec /\ \A a \in Actions : WF_vars(Worker(a) /\ UNCHANGED restarts)

-----------------------------------------------------------------------------
(* Correctness *)

Stages == {"none", "start", "validate", "begin", "cancel", "cancel_post",
           "refused", "cancelled", "revalidate", "dispatch", "dispatch_post",
           "find", "watch", "watched", "ended"}

\* Every variable holds a value of its kind, and the worker works on a run or a
\* lane only while it waits for the call about it.
ActionTypeOK(a) ==
    /\ ghRun[a] \in [LanesOf[a] -> {"none", "unlisted", "listed", "completed"}]
    /\ asked[a] \in [LanesOf[a] -> 0..2]
    /\ rows[a] \in Record(a) \union {NoRecord}
    /\ mem[a] \in Record(a) \union {NoRecord}
    /\ pc[a] \in Stages
    /\ IF pc[a] \in {"cancel_post", "refused"} THEN at[a] \in Targets(a)
       ELSE IF pc[a] \in {"dispatch_post", "find"} THEN at[a] \in LanesOf[a]
       ELSE at[a] = NoTarget

TypeOK ==
    /\ moved \subseteq PRs
    /\ source \in [SourceRuns -> {"absent", "active", "completed"}]
    /\ \A a \in Actions : ActionTypeOK(a)
    /\ post \in [Posts -> {"new", "checked", "answered"}]
    /\ seen \in [Posts -> SUBSET SourceRuns]
    /\ failures \in [Actions -> BOOLEAN]
    /\ restarts \in 0..MaxRestarts

\* No lane of an action is dispatched twice, whatever crashes, lost answers and
\* repeated POSTs there are.
AtMostOneDispatch ==
    \A a \in Actions : \A l \in LanesOf[a] : asked[a][l] <= 1

\* Of two actions for one pull request, only one is cancelling or dispatching.
Starting(a) == pc[a] \in {"validate", "begin", "cancel", "cancel_post", "refused",
                          "cancelled", "revalidate", "dispatch", "dispatch_post", "find"}
OneStarterPerPr ==
    \A a, b \in Actions :
        Starting(a) /\ Starting(b) /\ PrOf[a] = PrOf[b] => a = b

\* An action that has not dispatched yet has a worker: it cannot block its pull
\* request with nobody working on it.
OpenHasWorker ==
    \A a \in Actions : rows[a].state \in OpenStates => a \in Running

\* Nothing is dispatched while a run the person agreed to cancel still goes on,
\* unless GitHub refused to cancel it.
CancelledOrRefused ==
    \A a \in Actions : \A l \in LanesOf[a] :
        asked[a][l] > 0 =>
            \A t \in DOMAIN rows[a].cancel :
                source[t] = "completed" \/ rows[a].cancel[t] = "refused"

\* Once the pull request has moved while runs were still being cancelled, the
\* action dispatches nothing any more.
MovedPrevents ==
    \A a \in Actions : \A l \in LanesOf[a] :
        [](/\ PrOf[a] \in moved
           /\ rows[a].state \in {"prepared", "cancelling"}
           => [](asked[a][l] = 0))

\* A failed action stays failed, though its dispatched lanes are still watched.
FailedStaysFailed ==
    [][\A a \in Actions :
          rows[a].state = "failed" => rows'[a].state = "failed"]_vars

\* Every action comes to dispatch or fail: the pull request is free again.
Unblocked ==
    \A a \in Actions :
        rows[a].state \in OpenStates ~> rows[a].state \notin OpenStates

\* rerun_actions.py: "cancel the confirmed source runs, then dispatch".
DispatchAfterCancel ==
    \A a \in Actions : \A l \in LanesOf[a] :
        asked[a][l] > 0 => \A t \in DOMAIN rows[a].cancel : source[t] = "completed"

\* rerun_actions.py: "Safe to call again after a crash": a lane GitHub refused,
\* or whose run was not found, makes the action fail, not succeed.
SuccessMeansDispatched ==
    \A a \in Actions :
        rows[a].state \in {"dispatched", "completed"} =>
            \A l \in LanesOf[a] : rows[a].dispatch[l] = "dispatched"

\* rerun_actions.py: "Drive one action to a final state": a worker that has
\* ended leaves its action completed or failed.
EndsFinal ==
    \A a \in Actions : pc[a] = "ended" => rows[a].state \in FinalStates

\* rerun_actions.py: a failed action's "lane that dispatched still lists its
\* run" (or says the outcome is unknown).
FailedListsRuns ==
    \A a \in Actions :
        pc[a] = "ended" /\ rows[a].state = "failed" =>
            \A l \in LanesOf[a] :
                asked[a][l] > 0 => \/ rows[a].run[l] # "none"
                                   \/ rows[a].dispatch[l] = "unknown"

-----------------------------------------------------------------------------
(* The inductive invariant: what is true of every action, whatever its posts, *)
(* its targets, its lanes and its crashes.  It reads nothing of the other     *)
(* actions, but for OneOpen.                                                  *)

\* Each of the tables is a function of the actions.
Shaped ==
    /\ ghRun = [a \in Actions |-> ghRun[a]]
    /\ asked = [a \in Actions |-> asked[a]]
    /\ rows = [a \in Actions |-> rows[a]]
    /\ mem = [a \in Actions |-> mem[a]]
    /\ pc = [a \in Actions |-> pc[a]]
    /\ at = [a \in Actions |-> at[a]]

\* A worker past its start works on the record as it is on file.
Copied(a) ==
    /\ pc[a] # "none" => rows[a] \in Record(a)
    /\ pc[a] \notin {"none", "start"} => mem[a] = rows[a]

\* The stage of the worker and the state on file go together, and an open
\* action has a worker.
Staged(a) ==
    /\ pc[a] = "validate" => rows[a].state \in OpenStates
    /\ pc[a] = "begin" => rows[a].state = "prepared"
    /\ pc[a] \in {"cancel", "cancel_post", "refused", "cancelled"} =>
          rows[a].state = "cancelling"
    /\ pc[a] \in {"revalidate", "dispatch", "dispatch_post", "find"} =>
          rows[a].state = "dispatching"
    /\ pc[a] = "watch" => rows[a].state \in {"dispatched", "failed"}
    /\ pc[a] = "watched" => rows[a].state = "dispatched"
    /\ pc[a] \in {"ended", "none"} => rows[a].state \notin OpenStates

\* Nothing is asked for before the dispatch, nor before it is on file as
\* requested; a lane with a run was dispatched.
Accounted(a) ==
    \A l \in LanesOf[a] :
        /\ asked[a][l] <= 1
        /\ rows[a].state \in {"absent", "prepared", "cancelling"} => asked[a][l] = 0
        /\ rows[a].state # "absent" =>
              /\ rows[a].dispatch[l] = "pending" => asked[a][l] = 0
              /\ rows[a].run[l] # "none" => rows[a].dispatch[l] = "dispatched"
        /\ at[a] = l =>
              /\ pc[a] = "dispatch_post" => asked[a][l] = 0
              /\ pc[a] \in {"dispatch_post", "find"} =>
                    rows[a].dispatch[l] = "requested"

\* What a record says of the runs to cancel is true.
ResultsTrue(record) ==
    \A t \in DOMAIN record.cancel :
        /\ record.cancel[t] = "cancelled" => source[t] = "completed"
        /\ record.cancel[t] = "already completed" => source[t] = "completed"

\* The runs to cancel have ended, or GitHub refused to cancel them.
AllCleared(record) ==
    \A t \in DOMAIN record.cancel :
        source[t] = "completed" \/ record.cancel[t] = "refused"
Cleared(a) == AllCleared(rows[a])

\* What is on file as cancelled has ended, and they are all cleared before the
\* dispatch begins.
Cancelled(a) ==
    rows[a].state # "absent" =>
        /\ ResultsTrue(rows[a])
        /\ pc[a] = "cancelled" \/ rows[a].state \notin {"prepared", "cancelling", "failed"} =>
              Cleared(a)
        /\ (\E l \in LanesOf[a] : asked[a][l] > 0) => Cleared(a)

ActionInv(a) ==
    ActionTypeOK(a) /\ Copied(a) /\ Staged(a) /\ Accounted(a) /\ Cancelled(a)

\* One action of a pull request at most is open.
OneOpen ==
    \A a, b \in Actions :
        /\ rows[a].state \in OpenStates /\ rows[b].state \in OpenStates
        /\ PrOf[a] = PrOf[b]
        => a = b

RerunInv == TypeOK /\ Shaped /\ OneOpen /\ \A a \in Actions : ActionInv(a)

-----------------------------------------------------------------------------
(* Records *)

\* What a record is made of.
LEMMA RecordParts ==
    ASSUME NEW a \in Actions, NEW r \in Record(a)
    PROVE  /\ r.state \in States
           /\ DOMAIN r.cancel \subseteq SourceRuns
           /\ r.cancel \in [DOMAIN r.cancel -> CancelResults]
           /\ r.dispatch \in [LanesOf[a] -> DispatchStates]
           /\ r.run \in [LanesOf[a] -> LaneRuns]
           /\ r.state # "absent"
<1>1. /\ r.state \in States
      /\ r.cancel \in UNION {[targets -> CancelResults] : targets \in SUBSET SourceRuns}
      /\ r.dispatch \in [LanesOf[a] -> DispatchStates]
      /\ r.run \in [LanesOf[a] -> LaneRuns]
    BY DEF Record
<1>2. PICK targets \in SUBSET SourceRuns : r.cancel \in [targets -> CancelResults]
    BY <1>1
<1>3. "absent" \notin States
    BY DEF States, LiveStates, OpenStates, FinalStates
<1>4. DOMAIN r.cancel = targets
    BY <1>2
<1>5. QED
    BY <1>1, <1>2, <1>3, <1>4

\* A record with one part replaced is a record, its other parts as they were.
LEMMA RecordState ==
    ASSUME NEW a \in Actions, NEW r \in Record(a), NEW s \in States
    PROVE  LET q == [r EXCEPT !.state = s] IN
           /\ q \in Record(a) /\ q.state = s /\ q.cancel = r.cancel
           /\ q.dispatch = r.dispatch /\ q.run = r.run
BY DEF Record

LEMMA RecordCancel ==
    ASSUME NEW a \in Actions, NEW r \in Record(a), NEW results,
           results \in [DOMAIN r.cancel -> CancelResults]
    PROVE  LET q == [r EXCEPT !.cancel = results] IN
           /\ q \in Record(a) /\ q.state = r.state /\ q.cancel = results
           /\ q.dispatch = r.dispatch /\ q.run = r.run
<1>1. results \in UNION {[targets -> CancelResults] : targets \in SUBSET SourceRuns}
    BY RecordParts
<1>2. QED
    BY <1>1 DEF Record

LEMMA RecordDispatch ==
    ASSUME NEW a \in Actions, NEW r \in Record(a),
           NEW lanes \in [LanesOf[a] -> DispatchStates]
    PROVE  LET q == [r EXCEPT !.dispatch = lanes] IN
           /\ q \in Record(a) /\ q.state = r.state /\ q.cancel = r.cancel
           /\ q.dispatch = lanes /\ q.run = r.run
BY DEF Record

LEMMA RecordRun ==
    ASSUME NEW a \in Actions, NEW r \in Record(a),
           NEW runs \in [LanesOf[a] -> LaneRuns]
    PROVE  LET q == [r EXCEPT !.run = runs] IN
           /\ q \in Record(a) /\ q.state = r.state /\ q.cancel = r.cancel
           /\ q.dispatch = r.dispatch /\ q.run = runs
BY DEF Record

\* One run's or one lane's entry is set, the others stay.
WithResults(r, results) == [r EXCEPT !.cancel = results]
WithResult(r, t, result) == [r EXCEPT !.cancel[t] = result]
SameLanes(r, q) == r.dispatch = q.dispatch /\ r.run = q.run
OthersSame(r, q, t) == \A u \in DOMAIN q.cancel : u # t => r.cancel[u] = q.cancel[u]
SameTargets(r, q) == DOMAIN r.cancel = DOMAIN q.cancel
WithLane(r, l, s) == [r EXCEPT !.dispatch[l] = s]

LEMMA SetResults ==
    ASSUME NEW a \in Actions, NEW r \in Record(a), NEW results,
           results \in [DOMAIN r.cancel -> CancelResults]
    PROVE  /\ WithResults(r, results) \in Record(a)
           /\ WithResults(r, results).state = r.state
           /\ WithResults(r, results).cancel = results
           /\ SameLanes(WithResults(r, results), r)
BY RecordCancel DEF WithResults, SameLanes

LEMMA SetResult ==
    ASSUME NEW a \in Actions, NEW r \in Record(a),
           NEW t \in DOMAIN r.cancel, NEW result \in CancelResults
    PROVE  /\ WithResult(r, t, result) \in Record(a)
           /\ WithResult(r, t, result).state = r.state
           /\ SameTargets(WithResult(r, t, result), r)
           /\ WithResult(r, t, result).cancel[t] = result
           /\ OthersSame(WithResult(r, t, result), r, t)
           /\ SameLanes(WithResult(r, t, result), r)
<1> DEFINE results == [r.cancel EXCEPT ![t] = result]
<1>1. /\ results \in [DOMAIN r.cancel -> CancelResults]
      /\ results[t] = result
      /\ \A u \in DOMAIN r.cancel : u # t => results[u] = r.cancel[u]
    BY RecordParts
<1>2. WithResult(r, t, result) = WithResults(r, results)
    BY DEF Record, WithResult, WithResults
<1> HIDE DEF results
<1>3. DOMAIN results = DOMAIN r.cancel
    BY <1>1
<1>4. /\ WithResults(r, results) \in Record(a)
      /\ WithResults(r, results).state = r.state
      /\ WithResults(r, results).cancel = results
      /\ SameLanes(WithResults(r, results), r)
    BY <1>1, SetResults
<1>5. QED
    BY <1>1, <1>2, <1>3, <1>4 DEF SameTargets, OthersSame

LEMMA SetLane ==
    ASSUME NEW a \in Actions, NEW r \in Record(a),
           NEW l \in LanesOf[a], NEW s \in DispatchStates
    PROVE  /\ WithLane(r, l, s) \in Record(a)
           /\ WithLane(r, l, s).state = r.state
           /\ WithLane(r, l, s).cancel = r.cancel
           /\ WithLane(r, l, s).dispatch[l] = s
           /\ \A m \in LanesOf[a] :
                 m # l => WithLane(r, l, s).dispatch[m] = r.dispatch[m]
           /\ WithLane(r, l, s).run = r.run
<1> DEFINE lanes == [r.dispatch EXCEPT ![l] = s]
<1>1. /\ lanes \in [LanesOf[a] -> DispatchStates]
      /\ lanes[l] = s
      /\ \A m \in LanesOf[a] : m # l => lanes[m] = r.dispatch[m]
    BY RecordParts
<1>2. WithLane(r, l, s) = [r EXCEPT !.dispatch = lanes]
    BY DEF Record, WithLane
<1> HIDE DEF lanes
<1> DEFINE q == [r EXCEPT !.dispatch = lanes]
<1>3. /\ q \in Record(a) /\ q.state = r.state /\ q.cancel = r.cancel
      /\ q.dispatch = lanes /\ q.run = r.run
    BY <1>1, RecordDispatch
<1> HIDE DEF q
<1>4. WithLane(r, l, s) = q
    BY <1>2 DEF q
<1>5. QED
    BY <1>1, <1>3, <1>4

LEMMA FoundRecord ==
    ASSUME NEW a \in Actions, NEW r \in Record(a), NEW l \in LanesOf[a]
    PROVE  LET q == Found(r, l) IN
           /\ q \in Record(a) /\ q.state = r.state /\ q.cancel = r.cancel
           /\ q.dispatch[l] = "dispatched" /\ q.run[l] = "live"
           /\ \A m \in LanesOf[a] :
                 m # l => q.dispatch[m] = r.dispatch[m] /\ q.run[m] = r.run[m]
<1> DEFINE p == WithLane(r, l, "dispatched")
           runs == [p.run EXCEPT ![l] = "live"]
<1>1. /\ p \in Record(a) /\ p.state = r.state /\ p.cancel = r.cancel
      /\ p.dispatch[l] = "dispatched"
      /\ \A m \in LanesOf[a] : m # l => p.dispatch[m] = r.dispatch[m]
      /\ p.run = r.run
  <2>1. "dispatched" \in DispatchStates
    BY DEF DispatchStates
  <2>2. QED
    BY <2>1, SetLane
<1>2. Found(r, l) = [p EXCEPT !.run[l] = "live"]
    BY DEF Found, Record, WithLane
<1> HIDE DEF p
<1>3. /\ runs \in [LanesOf[a] -> LaneRuns]
      /\ runs[l] = "live"
      /\ \A m \in LanesOf[a] : m # l => runs[m] = p.run[m]
    BY <1>1, RecordParts DEF LaneRuns
<1>4. [p EXCEPT !.run[l] = "live"] = [p EXCEPT !.run = runs]
    BY <1>1 DEF Record
<1> HIDE DEF runs
<1> DEFINE q == [p EXCEPT !.run = runs]
<1>5. /\ q \in Record(a) /\ q.state = p.state /\ q.cancel = p.cancel
      /\ q.dispatch = p.dispatch /\ q.run = runs
    BY <1>1, <1>3, RecordRun
<1>6. Found(r, l) = q
    BY <1>2, <1>4
<1> HIDE DEF q
<1>7. QED
    BY <1>1, <1>3, <1>5, <1>6

LEMMA CreatedRecord ==
    ASSUME NEW a \in Actions, NEW targets \in SUBSET SourceRuns
    PROVE  LET q == NewRecord(a, targets) IN
           /\ q \in Record(a) /\ q.state = "prepared"
           /\ DOMAIN q.cancel = targets
           /\ \A t \in targets : q.cancel[t] = "pending"
           /\ \A l \in LanesOf[a] : q.dispatch[l] = "pending" /\ q.run[l] = "none"
<1>1. [t \in targets |-> "pending"] \in
          UNION {[ts -> CancelResults] : ts \in SUBSET SourceRuns}
    BY DEF CancelResults
<1>2. QED
    BY <1>1 DEF NewRecord, Record, States, LiveStates, OpenStates, DispatchStates, LaneRuns

-----------------------------------------------------------------------------
(* What a step leaves alone *)

\* The step does not touch action b.
Kept(b) ==
    /\ rows'[b] = rows[b] /\ mem'[b] = mem[b] /\ pc'[b] = pc[b]
    /\ at'[b] = at[b] /\ asked'[b] = asked[b]

\* The step is a's own.
Touches(a) ==
    /\ Shaped'
    /\ \A b \in Actions \ {a} : Kept(b) /\ ghRun'[b] = ghRun[b]

\* A run that has completed stays completed.
SourcesStay == \A s \in SourceRuns : source[s] = "completed" => source'[s] = "completed"

\* What is true of an action stays true while it is not touched.
LEMMA Frame ==
    ASSUME NEW b \in Actions, ActionInv(b), Kept(b), SourcesStay,
           ghRun'[b] \in [LanesOf[b] -> {"none", "unlisted", "listed", "completed"}]
    PROVE  ActionInv(b)'
<1>1. rows[b].state # "absent" => rows[b] \in Record(b)
    BY DEF ActionInv, ActionTypeOK, NoRecord
<1>2. rows[b].state # "absent" => DOMAIN rows[b].cancel \subseteq SourceRuns
    BY <1>1, RecordParts
<1>3. ActionTypeOK(b)' /\ Copied(b)'
    BY DEF ActionInv, ActionTypeOK, Copied, Kept, Targets
<1>4. Staged(b)' /\ Accounted(b)'
    BY DEF ActionInv, Staged, Accounted, Kept
<1>5. Cancelled(b)'
    BY <1>2 DEF ActionInv, Cancelled, Cleared, AllCleared, ResultsTrue, Kept, SourcesStay
<1>6. QED
    BY <1>3, <1>4, <1>5 DEF ActionInv

\* What the parts of a worker's step do to its own entries and the others'.
LEMMA SaveSets ==
    ASSUME Shaped, NEW a \in Actions, NEW record, Save(a, record)
    PROVE  /\ rows' = [x \in Actions |-> rows'[x]] /\ rows'[a] = record
           /\ mem' = [x \in Actions |-> mem'[x]] /\ mem'[a] = record
           /\ \A b \in Actions \ {a} : rows'[b] = rows[b] /\ mem'[b] = mem[b]
BY DEF Shaped, Save

LEMMA GotoSets ==
    ASSUME Shaped, NEW a \in Actions, NEW stage, Goto(a, stage)
    PROVE  /\ pc' = [x \in Actions |-> pc'[x]] /\ pc'[a] = stage
           /\ \A b \in Actions \ {a} : pc'[b] = pc[b]
BY DEF Shaped, Goto

LEMMA BetweenSets ==
    ASSUME Shaped, NEW a \in Actions, Between(a)
    PROVE  /\ at' = [x \in Actions |-> at'[x]] /\ at'[a] = NoTarget
           /\ \A b \in Actions \ {a} : at'[b] = at[b]
BY DEF Shaped, Between

LEMMA FailSets ==
    ASSUME Shaped, NEW a \in Actions, Fail(a), ghVars' = ghVars
    PROVE  /\ Touches(a)
           /\ rows'[a] = [mem[a] EXCEPT !.state = "failed"] /\ mem'[a] = rows'[a]
           /\ pc'[a] = "ended" /\ at'[a] = NoTarget
<1>1. Save(a, [mem[a] EXCEPT !.state = "failed"]) /\ Goto(a, "ended") /\ Between(a)
    BY DEF Fail
<1>2. /\ rows' = [x \in Actions |-> rows'[x]] /\ rows'[a] = [mem[a] EXCEPT !.state = "failed"]
      /\ mem' = [x \in Actions |-> mem'[x]] /\ mem'[a] = rows'[a]
      /\ \A b \in Actions \ {a} : rows'[b] = rows[b] /\ mem'[b] = mem[b]
    BY <1>1, SaveSets
<1>3. /\ pc' = [x \in Actions |-> pc'[x]] /\ pc'[a] = "ended"
      /\ \A b \in Actions \ {a} : pc'[b] = pc[b]
    BY <1>1, GotoSets
<1>4. /\ at' = [x \in Actions |-> at'[x]] /\ at'[a] = NoTarget
      /\ \A b \in Actions \ {a} : at'[b] = at[b]
    BY <1>1, BetweenSets
<1>5. ghRun' = ghRun /\ asked' = asked
    BY DEF ghVars
<1>6. QED
    BY <1>2, <1>3, <1>4, <1>5 DEF Touches, Shaped, Kept

-----------------------------------------------------------------------------
(* Each step of a worker *)

\* The step keeps the invariant of its action, leaves the other actions and
\* GitHub's source runs alone, opens nothing and mends nothing.
Works(a) ==
    /\ Touches(a)
    /\ ActionInv(a)'
    /\ rows'[a].state \in OpenStates => rows[a].state \in OpenStates
    /\ rows[a].state = "failed" => rows'[a].state = "failed"

\* A worker past its start holds the record on file.
LEMMA Held ==
    ASSUME NEW a \in Actions, ActionInv(a), pc[a] \notin {"none", "start"}
    PROVE  /\ mem[a] = rows[a] /\ rows[a] \in Record(a)
           /\ rows[a].state \in States /\ rows[a].state # "absent"
           /\ DOMAIN rows[a].cancel \subseteq SourceRuns
           /\ rows[a].cancel \in [DOMAIN rows[a].cancel -> CancelResults]
           /\ rows[a].dispatch \in [LanesOf[a] -> DispatchStates]
           /\ rows[a].run \in [LanesOf[a] -> LaneRuns]
<1>1. mem[a] = rows[a] /\ rows[a] \in Record(a)
    BY DEF ActionInv, Copied
<1>2. QED
    BY <1>1, RecordParts

\* A record whose state alone changes is accounted for as before, once the
\* worker is between two lanes.
LEMMA StateSaved ==
    ASSUME NEW a \in Actions, ActionInv(a), pc[a] \notin {"none", "start"},
           NEW s \in States,
           rows'[a] = [mem[a] EXCEPT !.state = s], mem'[a] = rows'[a],
           asked'[a] \in [LanesOf[a] -> 0..2], source' = source,
           ghRun'[a] \in [LanesOf[a] -> {"none", "unlisted", "listed", "completed"}],
           \A l \in LanesOf[a] :
               \/ asked'[a][l] = asked[a][l]
               \/ asked'[a][l] <= 1 /\ rows[a].dispatch[l] = "requested",
           s \in {"prepared", "cancelling"} => rows[a].state \in {"prepared", "cancelling"}
                                               /\ asked'[a] = asked[a],
           pc'[a] \in Stages \ {"cancel_post", "refused", "dispatch_post", "find"},
           at'[a] = NoTarget
    PROVE  /\ ActionTypeOK(a)' /\ Copied(a)' /\ Accounted(a)'
           /\ rows'[a].state = s
           /\ rows'[a].cancel = rows[a].cancel
           /\ rows'[a].dispatch = rows[a].dispatch
           /\ rows'[a].run = rows[a].run
<1>1. /\ mem[a] = rows[a] /\ rows[a] \in Record(a)
      /\ rows[a].state # "absent"
    BY Held
<1>2. /\ rows'[a] \in Record(a) /\ rows'[a].state = s
      /\ rows'[a].cancel = rows[a].cancel
      /\ rows'[a].dispatch = rows[a].dispatch
      /\ rows'[a].run = rows[a].run
    BY <1>1, RecordState
<1>3. ActionTypeOK(a)' /\ Copied(a)'
    BY <1>2 DEF ActionTypeOK, Copied
<1>4. s # "absent"
    BY DEF States, LiveStates, OpenStates, FinalStates
<1>5. Accounted(a)'
  <2> SUFFICES ASSUME NEW l \in LanesOf[a]
               PROVE  /\ asked'[a][l] <= 1
                      /\ s \in {"prepared", "cancelling"} => asked'[a][l] = 0
                      /\ rows[a].dispatch[l] = "pending" => asked'[a][l] = 0
                      /\ rows[a].run[l] # "none" => rows[a].dispatch[l] = "dispatched"
    BY <1>2, <1>4 DEF Accounted
  <2>1. /\ asked[a][l] <= 1
        /\ rows[a].state \in {"prepared", "cancelling"} => asked[a][l] = 0
        /\ rows[a].dispatch[l] = "pending" => asked[a][l] = 0
        /\ rows[a].run[l] # "none" => rows[a].dispatch[l] = "dispatched"
    BY <1>1 DEF ActionInv, Accounted
  <2>2. QED
    BY <2>1
<1>6. QED
    BY <1>2, <1>3, <1>5

\* A failing action keeps the invariant, whatever it was doing: nothing more is
\* asked of it, and what it has dispatched it has cleared.
LEMMA FailWorks ==
    ASSUME Shaped, NEW a \in Actions, ActionInv(a), pc[a] \notin {"none", "start"},
           Fail(a), ghVars' = ghVars
    PROVE  Works(a)
<1>1. /\ Touches(a)
      /\ rows'[a] = [mem[a] EXCEPT !.state = "failed"] /\ mem'[a] = rows'[a]
      /\ pc'[a] = "ended" /\ at'[a] = NoTarget
    BY FailSets
<1>2. /\ asked'[a] = asked[a] /\ source' = source /\ ghRun'[a] = ghRun[a]
      /\ asked[a] \in [LanesOf[a] -> 0..2]
      /\ ghRun[a] \in [LanesOf[a] -> {"none", "unlisted", "listed", "completed"}]
    BY DEF ghVars, ActionInv, ActionTypeOK
<1>3. "failed" \in States /\ "failed" \notin OpenStates
    BY DEF States, LiveStates, OpenStates, FinalStates
<1>4. pc'[a] \in Stages \ {"cancel_post", "refused", "dispatch_post", "find"}
    BY <1>1 DEF Stages
<1>5. /\ ActionTypeOK(a)' /\ Copied(a)' /\ Accounted(a)'
      /\ rows'[a].state = "failed"
      /\ rows'[a].cancel = rows[a].cancel
    BY <1>1, <1>2, <1>3, <1>4, StateSaved
<1>6. Staged(a)'
    BY <1>1, <1>3, <1>5 DEF Staged
<1>7. Cancelled(a)'
    BY <1>1, <1>2, <1>5, Held DEF ActionInv, Cancelled, Cleared, AllCleared, ResultsTrue
<1>8. QED
    BY <1>1, <1>3, <1>5, <1>6, <1>7 DEF Works, ActionInv

\* A step that only moves the worker on, to a stage that fits the record.
LEMMA MoveWorks ==
    ASSUME Shaped, NEW a \in Actions, ActionInv(a), pc[a] \notin {"none", "start"},
           NEW stage \in {"begin", "cancel", "revalidate", "dispatch", "ended"},
           Goto(a, stage),
           UNCHANGED <<ghVars, rows, mem>>,
           \/ pc[a] \notin {"cancel_post", "refused", "dispatch_post", "find"} /\ at' = at
           \/ Between(a),
           stage = "begin" => rows[a].state = "prepared",
           stage = "cancel" => rows[a].state = "cancelling",
           stage \in {"revalidate", "dispatch"} => rows[a].state = "dispatching",
           stage = "ended" => rows[a].state \notin OpenStates
    PROVE  Works(a)
<1>1. /\ pc' = [x \in Actions |-> pc'[x]] /\ pc'[a] = stage
      /\ \A b \in Actions \ {a} : pc'[b] = pc[b]
    BY GotoSets
<1>2. /\ at' = [x \in Actions |-> at'[x]] /\ at'[a] = NoTarget
      /\ \A b \in Actions \ {a} : at'[b] = at[b]
  <2>1. CASE pc[a] \notin {"cancel_post", "refused", "dispatch_post", "find"} /\ at' = at
    BY <2>1 DEF Shaped, ActionInv, ActionTypeOK
  <2>2. CASE Between(a)
    BY <2>2, BetweenSets
  <2>3. QED
    BY <2>1, <2>2
<1>3. ghRun' = ghRun /\ asked' = asked /\ source' = source /\ rows' = rows /\ mem' = mem
    BY DEF ghVars
<1>4. Touches(a)
    BY <1>1, <1>2, <1>3 DEF Touches, Shaped, Kept
<1>5. mem[a] = rows[a] /\ rows[a] \in Record(a) /\ rows[a].state # "absent"
    BY Held
<1>6. ActionTypeOK(a)' /\ Copied(a)'
    BY <1>1, <1>2, <1>3, <1>5 DEF ActionInv, ActionTypeOK, Copied, Stages
<1>7. Staged(a)'
    BY <1>1, <1>3 DEF Staged, OpenStates
<1>8. Accounted(a)'
    BY <1>1, <1>3 DEF ActionInv, Accounted
<1>9. Cancelled(a)'
  <2>1. pc[a] = "cancelled" => rows[a].state = "cancelling"
    BY DEF ActionInv, Staged
  <2>2. QED
    BY <1>1, <1>3, <2>1 DEF ActionInv, Cancelled, Cleared, AllCleared, ResultsTrue
<1>10. QED
    BY <1>3, <1>4, <1>6, <1>7, <1>8, <1>9 DEF Works, ActionInv

LEMMA LoadWorks ==
    ASSUME Shaped, NEW a \in Actions, ActionInv(a), LoadRecord(a)
    PROVE  Works(a)
<1> DEFINE stage == IF rows[a].state \in OpenStates THEN "validate"
                    ELSE IF rows[a].state \in {"dispatched", "failed"} THEN "watch"
                    ELSE "ended"
<1>1. /\ pc[a] = "start" /\ Goto(a, stage) /\ mem' = [mem EXCEPT ![a] = rows[a]]
      /\ UNCHANGED <<ghVars, rows, at>>
    BY DEF LoadRecord
<1>2. stage \in {"validate", "watch", "ended"}
    OBVIOUS
<1>3. /\ stage = "validate" => rows[a].state \in OpenStates
      /\ stage = "watch" => rows[a].state \in {"dispatched", "failed"}
      /\ stage = "ended" => rows[a].state \notin OpenStates
    OBVIOUS
<1> HIDE DEF stage
<1>4. /\ pc' = [x \in Actions |-> pc'[x]] /\ pc'[a] = stage
      /\ \A b \in Actions \ {a} : pc'[b] = pc[b]
    BY <1>1, GotoSets
<1>5. /\ mem' = [x \in Actions |-> mem'[x]] /\ mem'[a] = rows[a]
      /\ \A b \in Actions \ {a} : mem'[b] = mem[b]
    BY <1>1 DEF Shaped
<1>6. /\ ghRun' = ghRun /\ asked' = asked /\ source' = source
      /\ rows' = rows /\ at' = at
    BY <1>1 DEF ghVars
<1>7. Touches(a)
    BY <1>4, <1>5, <1>6 DEF Touches, Shaped, Kept
<1>8. ActionTypeOK(a)' /\ Copied(a)'
    BY <1>1, <1>2, <1>4, <1>5, <1>6 DEF ActionInv, ActionTypeOK, Copied, Stages
<1>9. Staged(a)'
    BY <1>2, <1>3, <1>4, <1>6 DEF Staged
<1>10. Accounted(a)'
    BY <1>2, <1>4, <1>6 DEF ActionInv, Accounted
<1>11. Cancelled(a)'
    BY <1>1, <1>2, <1>4, <1>6 DEF ActionInv, Cancelled, Cleared, AllCleared, ResultsTrue
<1>12. QED
    BY <1>6, <1>7, <1>8, <1>9, <1>10, <1>11 DEF Works, ActionInv

\* Whoever calls an API is past its start.
LEMMA RaisesWorks ==
    ASSUME Shaped, NEW a \in Actions, ActionInv(a), Raises(a)
    PROVE  Works(a)
<1>1. pc[a] \notin {"none", "start"}
    BY DEF Raises, CallsApi
<1>2. mem[a] = rows[a]
    BY <1>1, Held
<1>3. CASE mem[a].state \in OpenStates
    BY <1>1, <1>3, FailWorks DEF Raises
<1>4. CASE mem[a].state \notin OpenStates
  <2>1. Goto(a, "ended") /\ Between(a) /\ UNCHANGED <<ghVars, rows, mem>>
    BY <1>4 DEF Raises
  <2>2. QED
    BY <1>1, <1>2, <1>4, <2>1, MoveWorks
<1>5. QED
    BY <1>3, <1>4

LEMMA ValidateWorks ==
    ASSUME Shaped, NEW a \in Actions, ActionInv(a), Validate(a)
    PROVE  Works(a)
<1> DEFINE stage == CASE mem[a].state = "prepared" -> "begin"
                      [] mem[a].state = "cancelling" -> "cancel"
                      [] mem[a].state = "dispatching" -> "revalidate"
<1>1. /\ pc[a] = "validate" /\ Goto(a, stage)
      /\ UNCHANGED <<ghVars, rows, mem>> /\ at' = at
    BY DEF Validate
<1>2. mem[a] = rows[a] /\ rows[a].state \in {"prepared", "cancelling", "dispatching"}
    BY <1>1, Held DEF ActionInv, Staged, OpenStates
<1>3. /\ stage \in {"begin", "cancel", "revalidate", "dispatch", "ended"}
      /\ stage = "begin" => rows[a].state = "prepared"
      /\ stage = "cancel" => rows[a].state = "cancelling"
      /\ stage \in {"revalidate", "dispatch"} => rows[a].state = "dispatching"
      /\ stage = "ended" => rows[a].state \notin OpenStates
    BY <1>2
<1> HIDE DEF stage
<1>4. QED
    BY <1>1, <1>3, MoveWorks

LEMMA RevalidateWorks ==
    ASSUME Shaped, NEW a \in Actions, ActionInv(a), Revalidate(a)
    PROVE  Works(a)
<1>1. /\ pc[a] = "revalidate" /\ Goto(a, "dispatch")
      /\ UNCHANGED <<ghVars, rows, mem>> /\ at' = at
    BY DEF Revalidate
<1>2. rows[a].state = "dispatching"
    BY <1>1 DEF ActionInv, Staged, OpenStates
<1>3. QED
    BY <1>1, <1>2, MoveWorks

LEMMA WatchExpiresWorks ==
    ASSUME Shaped, NEW a \in Actions, ActionInv(a), WatchExpires(a)
    PROVE  Works(a)
<1>1. /\ pc[a] = "watch" /\ Goto(a, "ended")
      /\ UNCHANGED <<ghVars, rows, mem>> /\ at' = at
    BY DEF WatchExpires
<1>2. rows[a].state \notin OpenStates
    BY <1>1 DEF ActionInv, Staged, OpenStates
<1>3. QED
    BY <1>1, <1>2, MoveWorks

\* A step that saves another state, and moves on to a stage that fits it.
LEMMA StateWorks ==
    ASSUME Shaped, NEW a \in Actions, ActionInv(a),
           pc[a] \in {"begin", "cancelled", "dispatch", "watched"},
           NEW s \in {"cancelling", "dispatching", "dispatched", "completed", "failed"},
           NEW stage \in {"cancel", "revalidate", "watch", "ended"},
           Save(a, [mem[a] EXCEPT !.state = s]), Goto(a, stage),
           UNCHANGED <<ghVars, at>>,
           s = "cancelling" => stage = "cancel" /\ rows[a].state = "prepared",
           s = "dispatching" => stage = "revalidate" /\ rows[a].state \in OpenStates,
           s \in {"dispatched", "failed"} => stage = "watch",
           s = "completed" => stage = "ended",
           s \in {"cancelling", "failed"} \/ Cleared(a)
    PROVE  Works(a)
<1>1. /\ pc' = [x \in Actions |-> pc'[x]] /\ pc'[a] = stage
      /\ \A b \in Actions \ {a} : pc'[b] = pc[b]
    BY GotoSets
<1>2. /\ rows' = [x \in Actions |-> rows'[x]] /\ rows'[a] = [mem[a] EXCEPT !.state = s]
      /\ mem' = [x \in Actions |-> mem'[x]] /\ mem'[a] = rows'[a]
      /\ \A b \in Actions \ {a} : rows'[b] = rows[b] /\ mem'[b] = mem[b]
    BY SaveSets
<1>3. /\ ghRun' = ghRun /\ asked' = asked /\ source' = source
      /\ at' = at /\ at[a] = NoTarget
      /\ asked[a] \in [LanesOf[a] -> 0..2]
      /\ ghRun[a] \in [LanesOf[a] -> {"none", "unlisted", "listed", "completed"}]
    BY DEF ghVars, ActionInv, ActionTypeOK
<1>4. Touches(a)
    BY <1>1, <1>2, <1>3 DEF Touches, Shaped, Kept
<1>5. s \in States /\ (s \in OpenStates => rows[a].state \in OpenStates)
    BY DEF States, LiveStates, OpenStates, FinalStates
<1>6. rows[a].state # "failed"
    BY DEF ActionInv, Staged
<1>7. /\ pc'[a] \in Stages \ {"cancel_post", "refused", "dispatch_post", "find"}
      /\ s \in {"prepared", "cancelling"} => rows[a].state \in {"prepared", "cancelling"}
    BY <1>1 DEF Stages
<1>8. /\ ActionTypeOK(a)' /\ Copied(a)' /\ Accounted(a)'
      /\ rows'[a].state = s
      /\ rows'[a].cancel = rows[a].cancel
    BY <1>1, <1>2, <1>3, <1>5, <1>7, StateSaved
<1>9. Staged(a)'
    BY <1>1, <1>8 DEF Staged, OpenStates
<1>10. Cancelled(a)'
    BY <1>1, <1>3, <1>8, Held DEF ActionInv, Cancelled, Cleared, AllCleared, ResultsTrue
<1>11. QED
    BY <1>4, <1>5, <1>6, <1>8, <1>9, <1>10 DEF Works, ActionInv

LEMMA BeginWorks ==
    ASSUME Shaped, NEW a \in Actions, ActionInv(a), Begin(a)
    PROVE  Works(a)
<1>1. pc[a] = "begin" /\ UNCHANGED <<ghVars, at>> /\ rows[a].state = "prepared"
    BY DEF Begin, ActionInv, Staged
<1>2. mem[a] = rows[a] /\ "prepared" \in OpenStates
    BY <1>1, Held DEF OpenStates
<1>3. CASE Targets(a) = {}
  <2>1. Save(a, [mem[a] EXCEPT !.state = "dispatching"]) /\ Goto(a, "revalidate")
    BY <1>3 DEF Begin
  <2>2. Cleared(a)
    BY <1>2, <1>3 DEF Targets, Cleared, AllCleared
  <2>3. QED
    BY <1>1, <1>2, <2>1, <2>2, StateWorks
<1>4. CASE Targets(a) # {}
  <2>1. Save(a, [mem[a] EXCEPT !.state = "cancelling"]) /\ Goto(a, "cancel")
    BY <1>4 DEF Begin
  <2>2. QED
    BY <1>1, <1>2, <2>1, StateWorks
<1>5. QED
    BY <1>3, <1>4

LEMMA ToDispatchWorks ==
    ASSUME Shaped, NEW a \in Actions, ActionInv(a), ToDispatch(a)
    PROVE  Works(a)
<1>1. /\ pc[a] = "cancelled" /\ UNCHANGED <<ghVars, at>>
      /\ Save(a, [mem[a] EXCEPT !.state = "dispatching"]) /\ Goto(a, "revalidate")
    BY DEF ToDispatch
<1>2. rows[a].state \in OpenStates /\ Cleared(a)
    BY <1>1 DEF ActionInv, Staged, Cancelled, OpenStates
<1>3. QED
    BY <1>1, <1>2, StateWorks

LEMMA DispatchDoneWorks ==
    ASSUME Shaped, NEW a \in Actions, ActionInv(a), DispatchDone(a)
    PROVE  Works(a)
<1> DEFINE s == IF failures[a] THEN "failed" ELSE "dispatched"
<1>1. /\ pc[a] = "dispatch" /\ UNCHANGED <<ghVars, at>>
      /\ Save(a, [mem[a] EXCEPT !.state = s]) /\ Goto(a, "watch")
    BY DEF DispatchDone
<1>2. s \in {"failed", "dispatched"}
    OBVIOUS
<1>3. Cleared(a)
    BY <1>1 DEF ActionInv, Staged, Cancelled
<1> HIDE DEF s
<1>4. QED
    BY <1>1, <1>2, <1>3, StateWorks

LEMMA WatchDoneWorks ==
    ASSUME Shaped, NEW a \in Actions, ActionInv(a), WatchDone(a)
    PROVE  Works(a)
<1>1. /\ pc[a] = "watched" /\ UNCHANGED <<ghVars, at>>
      /\ Save(a, [mem[a] EXCEPT !.state = "completed"]) /\ Goto(a, "ended")
    BY DEF WatchDone
<1>2. Cleared(a)
    BY <1>1 DEF ActionInv, Staged, Cancelled
<1>3. QED
    BY <1>1, <1>2, StateWorks

\* A step of _cancel that saves other results for the runs to cancel, every one
\* of them true.
LEMMA CancelWorks ==
    ASSUME Shaped, NEW a \in Actions, ActionInv(a), pc[a] \in {"cancel", "cancel_post"},
           NEW record \in Record(a), Save(a, record),
           NEW stage \in {"cancel", "refused", "cancelled"}, Touches(a),
           record.state = rows[a].state,
           SameTargets(record, rows[a]),
           SameLanes(record, rows[a]),
           UNCHANGED ghVars, pc'[a] = stage,
           IF stage = "refused" THEN at'[a] \in DOMAIN record.cancel
                                ELSE at'[a] = NoTarget,
           ResultsTrue(record),
           stage = "cancelled" => AllCleared(record)
    PROVE  Works(a)
<1>1. rows'[a] = record /\ mem'[a] = record
    BY SaveSets
<1>2. /\ ghRun' = ghRun /\ asked' = asked /\ source' = source
    BY DEF ghVars
<1>3. rows[a].state = "cancelling"
    BY DEF ActionInv, Staged
<1>4. ActionTypeOK(a)' /\ Copied(a)'
    BY <1>1, <1>2 DEF ActionInv, ActionTypeOK, Copied, Targets, Stages, SameTargets
<1>5. Staged(a)'
    BY <1>1, <1>3 DEF Staged, OpenStates
<1>6. Accounted(a)'
    BY <1>1, <1>2, <1>3 DEF ActionInv, Accounted, SameLanes
<1>7. \A l \in LanesOf[a] : asked[a][l] = 0
    BY <1>3 DEF ActionInv, Accounted
<1>8. Cancelled(a)'
  <2>1. ResultsTrue(rows[a])'
    BY <1>1, <1>2 DEF ResultsTrue
  <2>2. pc'[a] = "cancelled" => Cleared(a)'
    BY <1>1, <1>2 DEF Cleared, AllCleared
  <2>3. /\ rows'[a].state = "cancelling"
        /\ \A l \in LanesOf[a] : asked'[a][l] = 0
    BY <1>1, <1>2, <1>3, <1>7
  <2>4. \A l \in LanesOf[a] : ~(asked'[a][l] > 0)
    BY <2>3
  <2>5. QED
    BY <2>1, <2>2, <2>3, <2>4 DEF Cancelled
<1>9. QED
    BY <1>1, <1>3, <1>4, <1>5, <1>6, <1>8 DEF Works, ActionInv, OpenStates

\* What is on file as cancelled at a stage of _cancel is true.
LEMMA CancelledIsTrue ==
    ASSUME NEW a \in Actions, ActionInv(a), pc[a] \in {"cancel", "cancel_post"}
    PROVE  /\ mem[a] = rows[a] /\ rows[a] \in Record(a)
           /\ rows[a].cancel \in [DOMAIN rows[a].cancel -> CancelResults]
           /\ ResultsTrue(rows[a])
<1>1. /\ mem[a] = rows[a] /\ rows[a] \in Record(a)
      /\ rows[a].state # "absent"
      /\ rows[a].cancel \in [DOMAIN rows[a].cancel -> CancelResults]
    BY Held
<1>2. ResultsTrue(rows[a])
    BY <1>1 DEF ActionInv, Cancelled
<1>3. QED
    BY <1>1, <1>2

LEMMA CancelReadWorks ==
    ASSUME Shaped, NEW a \in Actions, ActionInv(a),
           NEW t \in SourceRuns, CancelRead(a, t)
    PROVE  Works(a)
<1>1. /\ pc[a] = "cancel" /\ t \in DOMAIN rows[a].cancel
      /\ mem[a] = rows[a] /\ rows[a] \in Record(a)
      /\ ResultsTrue(rows[a])
    BY CancelledIsTrue DEF CancelRead, Targets
<1>2. UNCHANGED ghVars /\ ghRun' = ghRun /\ asked' = asked /\ source' = source
    BY DEF CancelRead, ghVars
<1>3. at[a] = NoTarget /\ at = [x \in Actions |-> at[x]]
    BY <1>1 DEF ActionInv, ActionTypeOK, Shaped
<1>4. CASE source[t] = "completed"
  <2> DEFINE record == WithResult(rows[a], t, "already completed")
  <2>1. /\ record = WithResult(rows[a], t, "already completed")
        /\ Save(a, record) /\ pc' = pc /\ at' = at
    BY <1>1, <1>4 DEF CancelRead, WithResult
  <2> HIDE DEF record
  <2>2. "already completed" \in CancelResults
    BY DEF CancelResults
  <2>3. /\ record \in Record(a) /\ record.state = rows[a].state
        /\ SameTargets(record, rows[a])
        /\ record.cancel[t] = "already completed"
        /\ OthersSame(record, rows[a], t)
        /\ SameLanes(record, rows[a])
    BY <1>1, <2>1, <2>2, SetResult
  <2>4. /\ rows' = [x \in Actions |-> rows'[x]]
        /\ mem' = [x \in Actions |-> mem'[x]]
        /\ \A b \in Actions \ {a} : rows'[b] = rows[b] /\ mem'[b] = mem[b]
    BY <2>1, SaveSets
  <2>5. Touches(a)
    BY <1>2, <2>1, <2>4 DEF Touches, Shaped, Kept
  <2>6. ResultsTrue(record)
    BY <1>1, <1>4, <2>3 DEF ResultsTrue, SameTargets, OthersSame
  <2>7. QED
    BY <1>1, <1>2, <1>3, <1>4, <2>1, <2>3, <2>5, <2>6, CancelWorks
<1>5. CASE source[t] # "completed"
  <2>1. /\ Goto(a, "cancel_post") /\ at' = [at EXCEPT ![a] = t]
        /\ rows' = rows /\ mem' = mem
    BY <1>5 DEF CancelRead
  <2>2. /\ pc' = [x \in Actions |-> pc'[x]] /\ pc'[a] = "cancel_post"
        /\ \A b \in Actions \ {a} : pc'[b] = pc[b]
    BY <2>1, GotoSets
  <2>3. /\ at' = [x \in Actions |-> at'[x]] /\ at'[a] = t
        /\ \A b \in Actions \ {a} : at'[b] = at[b]
    BY <1>3, <2>1
  <2>4. Touches(a)
    BY <1>2, <2>1, <2>2, <2>3 DEF Touches, Shaped, Kept
  <2>5. rows[a].state = "cancelling"
    BY <1>1 DEF ActionInv, Staged
  <2>6. ActionTypeOK(a)' /\ Copied(a)'
    BY <1>1, <1>2, <2>1, <2>2, <2>3 DEF ActionInv, ActionTypeOK, Copied, Targets, Stages
  <2>7. Staged(a)'
    BY <2>1, <2>2, <2>5 DEF Staged
  <2>8. Accounted(a)'
    BY <1>2, <2>1, <2>2, <2>5 DEF ActionInv, Accounted
  <2>9. \A l \in LanesOf[a] : ~(asked'[a][l] > 0)
    BY <2>8, <2>1, <2>5 DEF Accounted
  <2>10. ResultsTrue(rows[a])'
    BY <1>1, <1>2, <2>1 DEF ResultsTrue
  <2>11. Cancelled(a)'
    BY <2>1, <2>2, <2>5, <2>9, <2>10 DEF Cancelled
  <2>12. QED
    BY <2>1, <2>4, <2>5, <2>6, <2>7, <2>8, <2>11 DEF Works, ActionInv
<1>6. QED
    BY <1>4, <1>5

LEMMA CancelPostWorks ==
    ASSUME Shaped, NEW a \in Actions, ActionInv(a), CancelPost(a)
    PROVE  Works(a)
<1>1. /\ pc[a] = "cancel_post" /\ mem[a] = rows[a] /\ rows[a] \in Record(a)
      /\ ResultsTrue(rows[a])
    BY CancelledIsTrue DEF CancelPost
<1>2. at[a] \in DOMAIN rows[a].cancel
    BY <1>1 DEF ActionInv, ActionTypeOK, Targets
<1>3. PICK result \in CancelTaken(at[a]) : Save(a, [mem[a] EXCEPT !.cancel[at[a]] = result])
    BY DEF CancelPost
<1>4. /\ result \in CancelResults
      /\ result \notin {"already completed", "requested"} => FALSE
      /\ result = "already completed" => source[at[a]] = "completed"
    BY DEF CancelTaken, CancelResults
<1> DEFINE record == WithResult(rows[a], at[a], result)
<1>5. record = WithResult(rows[a], at[a], result) /\ Save(a, record)
    BY <1>1, <1>3 DEF WithResult
<1> HIDE DEF record
<1>6. /\ record \in Record(a) /\ record.state = rows[a].state
      /\ SameTargets(record, rows[a])
      /\ record.cancel[at[a]] = result
      /\ OthersSame(record, rows[a], at[a])
      /\ SameLanes(record, rows[a])
    BY <1>1, <1>2, <1>4, <1>5, SetResult
<1>7. /\ rows' = [x \in Actions |-> rows'[x]]
      /\ mem' = [x \in Actions |-> mem'[x]]
      /\ \A b \in Actions \ {a} : rows'[b] = rows[b] /\ mem'[b] = mem[b]
    BY <1>5, SaveSets
<1>8. /\ pc' = [x \in Actions |-> pc'[x]] /\ pc'[a] = "cancel"
      /\ \A b \in Actions \ {a} : pc'[b] = pc[b]
    BY GotoSets DEF CancelPost
<1>9. /\ at' = [x \in Actions |-> at'[x]] /\ at'[a] = NoTarget
      /\ \A b \in Actions \ {a} : at'[b] = at[b]
    BY BetweenSets DEF CancelPost
<1>10. UNCHANGED ghVars /\ ghRun' = ghRun /\ asked' = asked
    BY DEF CancelPost, ghVars
<1>11. Touches(a)
    BY <1>7, <1>8, <1>9, <1>10 DEF Touches, Shaped, Kept
<1>12. ResultsTrue(record)
    BY <1>1, <1>4, <1>6 DEF ResultsTrue, SameTargets, OthersSame
<1>13. QED
    BY <1>1, <1>5, <1>6, <1>8, <1>9, <1>10, <1>11, <1>12, CancelWorks

LEMMA CancelRefusedWorks ==
    ASSUME Shaped, NEW a \in Actions, ActionInv(a), CancelRefused(a)
    PROVE  Works(a)
<1>1. /\ pc[a] = "cancel_post" /\ mem[a] = rows[a] /\ rows[a] \in Record(a)
      /\ ResultsTrue(rows[a])
    BY CancelledIsTrue DEF CancelRefused
<1>2. at[a] \in DOMAIN rows[a].cancel
    BY <1>1 DEF ActionInv, ActionTypeOK, Targets
<1>3. "refused" \in CancelResults
    BY DEF CancelResults
<1> DEFINE record == WithResult(rows[a], at[a], "refused")
<1>4. /\ record = WithResult(rows[a], at[a], "refused")
      /\ Save(a, record) /\ at' = at
    BY <1>1 DEF CancelRefused, WithResult
<1> HIDE DEF record
<1>5. /\ record \in Record(a) /\ record.state = rows[a].state
      /\ SameTargets(record, rows[a])
      /\ record.cancel[at[a]] = "refused"
      /\ OthersSame(record, rows[a], at[a])
      /\ SameLanes(record, rows[a])
    BY <1>1, <1>2, <1>3, <1>4, SetResult
<1>6. /\ rows' = [x \in Actions |-> rows'[x]]
      /\ mem' = [x \in Actions |-> mem'[x]]
      /\ \A b \in Actions \ {a} : rows'[b] = rows[b] /\ mem'[b] = mem[b]
    BY <1>4, SaveSets
<1>7. /\ pc' = [x \in Actions |-> pc'[x]] /\ pc'[a] = "refused"
      /\ \A b \in Actions \ {a} : pc'[b] = pc[b]
    BY GotoSets DEF CancelRefused
<1>8. UNCHANGED ghVars /\ ghRun' = ghRun /\ asked' = asked
    BY DEF CancelRefused, ghVars
<1>9. Touches(a)
    BY <1>4, <1>6, <1>7, <1>8 DEF Touches, Shaped, Kept
<1>10. ResultsTrue(record)
    BY <1>1, <1>5 DEF ResultsTrue, SameTargets, OthersSame
<1>11. at'[a] \in DOMAIN record.cancel
    BY <1>2, <1>5, <1>4 DEF SameTargets
<1>12. QED
    BY <1>1, <1>5, <1>4, <1>7, <1>8, <1>9, <1>10, <1>11, CancelWorks

\* A run still to be waited for is none; every other result is final.
LEMMA CancelDoneWorks ==
    ASSUME Shaped, NEW a \in Actions, ActionInv(a), CancelDone(a)
    PROVE  Works(a)
<1>1. /\ pc[a] = "cancel" /\ mem[a] = rows[a] /\ rows[a] \in Record(a)
      /\ rows[a].cancel \in [DOMAIN rows[a].cancel -> CancelResults]
      /\ ResultsTrue(rows[a])
    BY CancelledIsTrue DEF CancelDone
<1> DEFINE results == [t \in DOMAIN rows[a].cancel |->
                           IF rows[a].cancel[t] = "requested" THEN "cancelled"
                           ELSE rows[a].cancel[t]]
           record == WithResults(rows[a], results)
<1>2. /\ record = WithResults(rows[a], results)
      /\ Save(a, record) /\ at' = at
    BY <1>1 DEF CancelDone, Targets, WithResults
<1> HIDE DEF record
<1>3. /\ DOMAIN results = DOMAIN rows[a].cancel
      /\ \A t \in DOMAIN rows[a].cancel :
            results[t] = IF rows[a].cancel[t] = "requested" THEN "cancelled"
                         ELSE rows[a].cancel[t]
      /\ results \in [DOMAIN rows[a].cancel -> CancelResults]
    BY <1>1 DEF Targets, CancelResults
<1>4. \A t \in DOMAIN rows[a].cancel :
          /\ rows[a].cancel[t] # "pending"
          /\ rows[a].cancel[t] = "requested" => source[t] = "completed"
    BY <1>1 DEF CancelDone, MayLeaveCancel, AllAsked, Waiting, Targets
<1> HIDE DEF results
<1>5. /\ record \in Record(a) /\ record.state = rows[a].state
      /\ record.cancel = results
      /\ SameLanes(record, rows[a])
    BY <1>1, <1>2, <1>3, SetResults
<1>6. /\ rows' = [x \in Actions |-> rows'[x]]
      /\ mem' = [x \in Actions |-> mem'[x]]
      /\ \A b \in Actions \ {a} : rows'[b] = rows[b] /\ mem'[b] = mem[b]
    BY <1>2, SaveSets
<1>7. /\ pc' = [x \in Actions |-> pc'[x]] /\ pc'[a] = "cancelled"
      /\ \A b \in Actions \ {a} : pc'[b] = pc[b]
    BY GotoSets DEF CancelDone
<1>8. UNCHANGED ghVars /\ ghRun' = ghRun /\ asked' = asked
    BY DEF CancelDone, ghVars
<1>9. Touches(a)
    BY <1>2, <1>6, <1>7, <1>8 DEF Touches, Shaped, Kept
<1>10. ResultsTrue(record)
    BY <1>1, <1>3, <1>4, <1>5 DEF ResultsTrue
<1>11. AllCleared(record)
  <2> SUFFICES ASSUME NEW t \in DOMAIN rows[a].cancel, source[t] # "completed"
               PROVE  results[t] = "refused"
    BY <1>3, <1>5 DEF AllCleared
  <2>1. rows[a].cancel[t] \in CancelResults
    BY <1>1
  <2>2. /\ rows[a].cancel[t] # "pending" /\ rows[a].cancel[t] # "requested"
        /\ rows[a].cancel[t] # "cancelled" /\ rows[a].cancel[t] # "already completed"
    BY <1>1, <1>4 DEF ResultsTrue
  <2>3. QED
    BY <1>3, <2>1, <2>2 DEF CancelResults
<1>12. SameTargets(record, rows[a])
    BY <1>3, <1>5 DEF SameTargets
<1>13. at'[a] = NoTarget
    BY <1>1, <1>2 DEF ActionInv, ActionTypeOK
<1>14. QED
    BY <1>1, <1>2, <1>5, <1>7, <1>8, <1>9, <1>10, <1>11, <1>12, <1>13, CancelWorks

LEMMA CancelStepWorks ==
    ASSUME Shaped, NEW a \in Actions, ActionInv(a), CancelStep(a)
    PROVE  Works(a)
<1>1. ASSUME CancelFails(a) \/ CancelTimeout(a)
      PROVE  Works(a)
  <2>1. /\ pc[a] \notin {"none", "start"}
        /\ Fail(a) /\ ghVars' = ghVars
    BY <1>1 DEF CancelFails, CancelTimeout
  <2>2. QED
    BY <2>1, FailWorks
<1>2. QED
    BY <1>1, CancelPostWorks, CancelRefusedWorks, CancelDoneWorks, CancelReadWorks
    DEF CancelStep

\* A step that saves what became of a lane, or of several: the runs to cancel
\* stay as they were recorded, and they had been cleared.
LEMMA LanesWork ==
    ASSUME Shaped, NEW a \in Actions, ActionInv(a),
           pc[a] \in {"dispatch", "dispatch_post", "find", "watch"},
           NEW record \in Record(a), rows'[a] = record, mem'[a] = record,
           record.state = rows[a].state, record.cancel = rows[a].cancel,
           Touches(a), source' = source,
           pc[a] # "watch" \/ asked' = asked,
           asked'[a] \in [LanesOf[a] -> 0..2],
           ghRun'[a] \in [LanesOf[a] -> {"none", "unlisted", "listed", "completed"}],
           pc'[a] \in {"dispatch", "dispatch_post", "find", "watch", "watched", "ended"},
           IF pc'[a] \in {"dispatch_post", "find"} THEN at'[a] \in LanesOf[a]
                                                   ELSE at'[a] = NoTarget,
           Staged(a)', Accounted(a)'
    PROVE  Works(a)
<1>1. ActionTypeOK(a)'
    BY DEF ActionTypeOK, Stages
<1>2. Copied(a)'
    BY DEF Copied
<1>3. rows[a].state # "absent" /\ rows[a].state \notin {"prepared", "cancelling"}
    BY DEF ActionInv, Staged
<1>4. ResultsTrue(rows[a])'
    BY <1>3 DEF ActionInv, Cancelled, ResultsTrue
<1>5. Cleared(a)' <=> Cleared(a)
    BY DEF Cleared, AllCleared
<1>6. rows[a].state = "dispatching" => Cleared(a)
    BY <1>3 DEF ActionInv, Cancelled
<1>7. pc[a] # "watch" => rows[a].state = "dispatching"
    BY DEF ActionInv, Staged
<1>8. Cancelled(a)'
  <2>1. rows'[a].state # "failed" => Cleared(a)'
    BY <1>3, <1>5 DEF ActionInv, Cancelled
  <2>2. (\E l \in LanesOf[a] : asked'[a][l] > 0) => Cleared(a)'
    BY <1>3, <1>5, <1>6, <1>7 DEF ActionInv, Cancelled
  <2>3. QED
    BY <1>4, <2>1, <2>2 DEF Cancelled
<1>9. QED
    BY <1>1, <1>2, <1>8 DEF Works, ActionInv

\* What the worker knows while it dispatches.
LEMMA Dispatching ==
    ASSUME NEW a \in Actions, ActionInv(a), pc[a] \in {"dispatch", "dispatch_post", "find"}
    PROVE  /\ mem[a] = rows[a] /\ rows[a] \in Record(a)
           /\ rows[a].state = "dispatching"
           /\ asked[a] \in [LanesOf[a] -> 0..2]
           /\ ghRun[a] \in [LanesOf[a] -> {"none", "unlisted", "listed", "completed"}]
           /\ \A l \in LanesOf[a] :
                 /\ asked[a][l] <= 1
                 /\ rows[a].dispatch[l] = "pending" => asked[a][l] = 0
                 /\ rows[a].run[l] # "none" => rows[a].dispatch[l] = "dispatched"
           /\ pc[a] \in {"dispatch_post", "find"} =>
                 at[a] \in LanesOf[a] /\ rows[a].dispatch[at[a]] = "requested"
           /\ pc[a] = "dispatch_post" => asked[a][at[a]] = 0
           /\ pc[a] = "dispatch" => at[a] = NoTarget
<1>1. mem[a] = rows[a] /\ rows[a] \in Record(a)
    BY Held
<1>2. /\ rows[a].state = "dispatching"
      /\ asked[a] \in [LanesOf[a] -> 0..2]
      /\ ghRun[a] \in [LanesOf[a] -> {"none", "unlisted", "listed", "completed"}]
      /\ pc[a] \in {"dispatch_post", "find"} => at[a] \in LanesOf[a]
      /\ pc[a] = "dispatch" => at[a] = NoTarget
    BY DEF ActionInv, ActionTypeOK, Staged
<1>3. QED
    BY <1>1, <1>2 DEF ActionInv, Accounted

\* One lane's entry is saved; its request, if it was made, stays on record.
LEMMA LaneWorks ==
    ASSUME Shaped, NEW a \in Actions, ActionInv(a),
           pc[a] \in {"dispatch", "dispatch_post", "find"},
           NEW l \in LanesOf[a],
           NEW record \in Record(a), Save(a, record),
           record.state = rows[a].state, record.cancel = rows[a].cancel,
           record.dispatch[l] # "pending",
           record.run[l] # "none" => record.dispatch[l] = "dispatched",
           \A m \in LanesOf[a] : m # l => record.dispatch[m] = rows[a].dispatch[m],
           \A m \in LanesOf[a] : m # l => record.run[m] = rows[a].run[m],
           UNCHANGED ghVars, Touches(a),
           \/ pc'[a] = "dispatch" /\ at'[a] = NoTarget
           \/ /\ pc'[a] = "dispatch_post" /\ at'[a] = l
              /\ asked[a][l] = 0 /\ record.dispatch[l] = "requested"
    PROVE  Works(a)
<1>1. rows'[a] = record /\ mem'[a] = record
    BY SaveSets
<1>2. /\ ghRun' = ghRun /\ asked' = asked /\ source' = source
    BY DEF ghVars
<1>3. /\ rows[a].state = "dispatching"
      /\ asked[a] \in [LanesOf[a] -> 0..2]
      /\ ghRun[a] \in [LanesOf[a] -> {"none", "unlisted", "listed", "completed"}]
      /\ \A m \in LanesOf[a] :
            /\ asked[a][m] <= 1
            /\ rows[a].dispatch[m] = "pending" => asked[a][m] = 0
            /\ rows[a].run[m] # "none" => rows[a].dispatch[m] = "dispatched"
    BY Dispatching
<1>4. Staged(a)'
    BY <1>1, <1>3 DEF Staged
<1>5. Accounted(a)'
  <2> SUFFICES ASSUME NEW m \in LanesOf[a]
               PROVE  /\ asked[a][m] <= 1
                      /\ record.dispatch[m] = "pending" => asked[a][m] = 0
                      /\ record.run[m] # "none" => record.dispatch[m] = "dispatched"
                      /\ at'[a] = m =>
                            /\ pc'[a] = "dispatch_post" => asked[a][m] = 0
                            /\ pc'[a] \in {"dispatch_post", "find"} =>
                                  record.dispatch[m] = "requested"
    BY <1>1, <1>2, <1>3 DEF Accounted
  <2>1. l \in LanesOf[a] /\ LanesOf[a] \subseteq Lanes /\ NoTarget \notin Lanes
    BY LanesOfAssumption, NoTargetAssumption
  <2>2. CASE m = l
    BY <1>3, <2>1, <2>2
  <2>3. CASE m # l
    BY <1>3, <2>1, <2>3
  <2>4. QED
    BY <2>2, <2>3
<1>6. QED
    BY <1>1, <1>2, <1>3, <1>4, <1>5, LanesWork

LEMMA DispatchLookWorks ==
    ASSUME Shaped, NEW a \in Actions, ActionInv(a),
           NEW l \in LanesOf[a], DispatchLook(a, l)
    PROVE  Works(a)
<1>1. /\ pc[a] = "dispatch" /\ mem[a] = rows[a] /\ rows[a] \in Record(a)
      /\ at[a] = NoTarget
    BY Dispatching DEF DispatchLook
<1>2. mem[a].run[l] = "none"
    BY DEF DispatchLook, AskedBefore
<1> DEFINE record == IF Listed(a, l) THEN Found(rows[a], l) ELSE NotFound(rows[a], l)
<1>3. /\ record = Found(rows[a], l) \/ record = WithLane(rows[a], l, "unknown")
      /\ Save(a, record) /\ pc' = pc /\ at' = at
    BY <1>1 DEF DispatchLook, NotFound, WithLane
<1> HIDE DEF record
<1>4. "unknown" \in DispatchStates
    BY DEF DispatchStates
<1>5. /\ record \in Record(a) /\ record.state = rows[a].state
      /\ record.cancel = rows[a].cancel
      /\ record.dispatch[l] # "pending"
      /\ record.run[l] # "none" => record.dispatch[l] = "dispatched"
      /\ \A m \in LanesOf[a] : m # l => record.dispatch[m] = rows[a].dispatch[m]
      /\ \A m \in LanesOf[a] : m # l => record.run[m] = rows[a].run[m]
  <2>1. CASE record = Found(rows[a], l)
    BY <1>1, <2>1, FoundRecord
  <2>2. CASE record = WithLane(rows[a], l, "unknown")
    BY <1>1, <1>2, <1>4, <2>2, SetLane
  <2>3. QED
    BY <1>3, <2>1, <2>2
<1>6. /\ rows' = [x \in Actions |-> rows'[x]]
      /\ mem' = [x \in Actions |-> mem'[x]]
      /\ \A b \in Actions \ {a} : rows'[b] = rows[b] /\ mem'[b] = mem[b]
    BY <1>3, SaveSets
<1>7. UNCHANGED ghVars /\ ghRun' = ghRun /\ asked' = asked
    BY DEF DispatchLook, ghVars
<1>8. Touches(a)
    BY <1>3, <1>6, <1>7 DEF Touches, Shaped, Kept
<1>9. QED
    BY <1>1, <1>3, <1>5, <1>7, <1>8, LaneWorks

\* Only a lane that was never asked for is marked.
LEMMA DispatchMarkWorks ==
    ASSUME Shaped, NEW a \in Actions, ActionInv(a),
           NEW l \in LanesOf[a], DispatchMark(a, l)
    PROVE  Works(a)
<1>1. /\ pc[a] = "dispatch" /\ mem[a] = rows[a] /\ rows[a] \in Record(a)
      /\ rows[a].dispatch[l] = "pending" => asked[a][l] = 0
      /\ rows[a].run[l] # "none" => rows[a].dispatch[l] = "dispatched"
    BY Dispatching DEF DispatchMark
<1>2. rows[a].dispatch[l] = "pending" /\ rows[a].run[l] = "none" /\ asked[a][l] = 0
    BY <1>1 DEF DispatchMark, NotAsked, AskedBefore
<1> DEFINE record == WithLane(rows[a], l, "requested")
<1>3. record = WithLane(rows[a], l, "requested") /\ Save(a, record)
    BY <1>1 DEF DispatchMark, Marked, Save, WithLane, Shaped
<1> HIDE DEF record
<1>4. "requested" \in DispatchStates
    BY DEF DispatchStates
<1>5. /\ record \in Record(a) /\ record.state = rows[a].state
      /\ record.cancel = rows[a].cancel
      /\ record.dispatch[l] = "requested"
      /\ record.run = rows[a].run
      /\ \A m \in LanesOf[a] : m # l => record.dispatch[m] = rows[a].dispatch[m]
    BY <1>1, <1>3, <1>4, SetLane
<1>6. /\ rows' = [x \in Actions |-> rows'[x]]
      /\ mem' = [x \in Actions |-> mem'[x]]
      /\ \A b \in Actions \ {a} : rows'[b] = rows[b] /\ mem'[b] = mem[b]
    BY <1>3, SaveSets
<1>7. /\ pc' = [x \in Actions |-> pc'[x]] /\ pc'[a] = "dispatch_post"
      /\ \A b \in Actions \ {a} : pc'[b] = pc[b]
    BY GotoSets DEF DispatchMark
<1>8. /\ at' = [x \in Actions |-> at'[x]] /\ at'[a] = l
      /\ \A b \in Actions \ {a} : at'[b] = at[b]
    BY DEF DispatchMark, Shaped
<1>9. UNCHANGED ghVars /\ ghRun' = ghRun /\ asked' = asked
    BY DEF DispatchMark, ghVars
<1>10. Touches(a)
    BY <1>6, <1>7, <1>8, <1>9 DEF Touches, Shaped, Kept
<1>11. QED
    BY <1>1, <1>2, <1>3, <1>5, <1>7, <1>8, <1>9, <1>10, LaneWorks

\* What the worker hears of a lane it has asked for is saved.
LEMMA LaneAnswered ==
    ASSUME Shaped, NEW a \in Actions, ActionInv(a),
           pc[a] \in {"dispatch_post", "find"},
           NEW record, Save(a, record),
           \/ record = Found(rows[a], at[a])
           \/ record = WithLane(rows[a], at[a], "unknown")
           \/ record = WithLane(rows[a], at[a], "failed"),
           Goto(a, "dispatch"), Between(a), UNCHANGED ghVars
    PROVE  Works(a)
<1>1. /\ rows[a] \in Record(a)
      /\ at[a] \in LanesOf[a] /\ rows[a].run[at[a]] = "none"
    BY Dispatching
<1>2. "unknown" \in DispatchStates /\ "failed" \in DispatchStates
    BY DEF DispatchStates
<1>3. PICK l \in LanesOf[a] : l = at[a]
    BY <1>1
<1>4. /\ record \in Record(a) /\ record.state = rows[a].state
      /\ record.cancel = rows[a].cancel
      /\ record.dispatch[l] # "pending"
      /\ record.run[l] # "none" => record.dispatch[l] = "dispatched"
      /\ \A m \in LanesOf[a] : m # l => record.dispatch[m] = rows[a].dispatch[m]
      /\ \A m \in LanesOf[a] : m # l => record.run[m] = rows[a].run[m]
  <2>1. CASE record = Found(rows[a], at[a])
    BY <1>1, <1>3, <2>1, FoundRecord
  <2>2. CASE record = WithLane(rows[a], at[a], "unknown")
    BY <1>1, <1>2, <1>3, <2>2, SetLane
  <2>3. CASE record = WithLane(rows[a], at[a], "failed")
    BY <1>1, <1>2, <1>3, <2>3, SetLane
  <2>4. QED
    BY <2>1, <2>2, <2>3
<1>5. /\ rows' = [x \in Actions |-> rows'[x]]
      /\ mem' = [x \in Actions |-> mem'[x]]
      /\ \A b \in Actions \ {a} : rows'[b] = rows[b] /\ mem'[b] = mem[b]
    BY SaveSets
<1>6. /\ pc' = [x \in Actions |-> pc'[x]] /\ pc'[a] = "dispatch"
      /\ \A b \in Actions \ {a} : pc'[b] = pc[b]
    BY GotoSets
<1>7. /\ at' = [x \in Actions |-> at'[x]] /\ at'[a] = NoTarget
      /\ \A b \in Actions \ {a} : at'[b] = at[b]
    BY BetweenSets
<1>8. ghRun' = ghRun /\ asked' = asked
    BY DEF ghVars
<1>9. Touches(a)
    BY <1>5, <1>6, <1>7, <1>8 DEF Touches, Shaped, Kept
<1>10. QED
    BY <1>4, <1>6, <1>7, <1>9, LaneWorks

LEMMA AnswersWork ==
    ASSUME Shaped, NEW a \in Actions, ActionInv(a),
           DispatchRefused(a) \/ FindRun(a) \/ FindTimeout(a)
    PROVE  Works(a)
<1>1. /\ pc[a] \in {"dispatch_post", "find"}
      /\ Goto(a, "dispatch") /\ Between(a) /\ UNCHANGED ghVars
    BY DEF DispatchRefused, FindRun, FindTimeout
<1>2. mem[a] = rows[a]
    BY <1>1, Dispatching
<1>3. CASE DispatchRefused(a)
    BY <1>1, <1>2, <1>3, LaneAnswered DEF DispatchRefused, WithLane
<1>4. CASE FindRun(a)
    BY <1>1, <1>2, <1>4, LaneAnswered DEF FindRun
<1>5. CASE FindTimeout(a)
    BY <1>1, <1>2, <1>5, LaneAnswered DEF FindTimeout, NotFound, WithLane
<1>6. QED
    BY <1>3, <1>4, <1>5

\* GitHub takes the request: that lane was never asked for before.
LEMMA AcceptSets ==
    ASSUME Shaped, NEW a \in Actions, ActionInv(a), pc[a] = "dispatch_post", Accept(a)
    PROVE  /\ asked' = [x \in Actions |-> asked'[x]]
           /\ ghRun' = [x \in Actions |-> ghRun'[x]]
           /\ \A b \in Actions \ {a} : asked'[b] = asked[b] /\ ghRun'[b] = ghRun[b]
           /\ asked'[a] \in [LanesOf[a] -> 0..2]
           /\ ghRun'[a] \in [LanesOf[a] -> {"none", "unlisted", "listed", "completed"}]
           /\ at[a] \in LanesOf[a] /\ asked'[a][at[a]] = 1
           /\ \A l \in LanesOf[a] : l # at[a] => asked'[a][l] = asked[a][l]
           /\ source' = source /\ moved' = moved
<1>1. /\ asked[a] \in [LanesOf[a] -> 0..2]
      /\ ghRun[a] \in [LanesOf[a] -> {"none", "unlisted", "listed", "completed"}]
      /\ at[a] \in LanesOf[a] /\ asked[a][at[a]] = 0
    BY Dispatching
<1> DEFINE n == IF asked[a][at[a]] = 0 THEN 1 ELSE 2
           s == IF ghRun[a][at[a]] = "none" THEN "unlisted" ELSE ghRun[a][at[a]]
           counts == [asked[a] EXCEPT ![at[a]] = n]
           runs == [ghRun[a] EXCEPT ![at[a]] = s]
<1>2. asked' = [asked EXCEPT ![a] = counts] /\ ghRun' = [ghRun EXCEPT ![a] = runs]
    BY DEF Accept
<1>3. /\ counts \in [LanesOf[a] -> 0..2] /\ counts[at[a]] = 1
      /\ \A l \in LanesOf[a] : l # at[a] => counts[l] = asked[a][l]
    BY <1>1
<1>4. runs \in [LanesOf[a] -> {"none", "unlisted", "listed", "completed"}]
    BY <1>1
<1> HIDE DEF counts, runs
<1>5. asked = [x \in Actions |-> asked[x]] /\ ghRun = [x \in Actions |-> ghRun[x]]
    BY DEF Shaped
<1>6. asked'[a] = counts /\ ghRun'[a] = runs
    BY <1>2, <1>5
<1>7. /\ asked' = [x \in Actions |-> asked'[x]]
      /\ ghRun' = [x \in Actions |-> ghRun'[x]]
      /\ \A b \in Actions \ {a} : asked'[b] = asked[b] /\ ghRun'[b] = ghRun[b]
    BY <1>2, <1>5
<1>8. source' = source /\ moved' = moved
    BY DEF Accept
<1>9. QED
    BY <1>1, <1>3, <1>4, <1>6, <1>7, <1>8

LEMMA DispatchAcceptedWorks ==
    ASSUME Shaped, NEW a \in Actions, ActionInv(a), DispatchAccepted(a)
    PROVE  Works(a)
<1>1. /\ pc[a] = "dispatch_post" /\ Accept(a) /\ Goto(a, "find")
      /\ rows' = rows /\ mem' = mem /\ at' = at
    BY DEF DispatchAccepted
<1>2. /\ mem[a] = rows[a] /\ rows[a] \in Record(a)
      /\ rows[a].state = "dispatching"
      /\ rows[a].dispatch[at[a]] = "requested"
      /\ \A l \in LanesOf[a] :
            /\ asked[a][l] <= 1
            /\ rows[a].dispatch[l] = "pending" => asked[a][l] = 0
            /\ rows[a].run[l] # "none" => rows[a].dispatch[l] = "dispatched"
    BY <1>1, Dispatching
<1>3. /\ asked' = [x \in Actions |-> asked'[x]]
      /\ ghRun' = [x \in Actions |-> ghRun'[x]]
      /\ \A b \in Actions \ {a} : asked'[b] = asked[b] /\ ghRun'[b] = ghRun[b]
      /\ asked'[a] \in [LanesOf[a] -> 0..2]
      /\ ghRun'[a] \in [LanesOf[a] -> {"none", "unlisted", "listed", "completed"}]
      /\ at[a] \in LanesOf[a] /\ asked'[a][at[a]] = 1
      /\ \A l \in LanesOf[a] : l # at[a] => asked'[a][l] = asked[a][l]
      /\ source' = source
    BY <1>1, AcceptSets
<1>4. /\ pc' = [x \in Actions |-> pc'[x]] /\ pc'[a] = "find"
      /\ \A b \in Actions \ {a} : pc'[b] = pc[b]
    BY <1>1, GotoSets
<1>5. Touches(a)
    BY <1>1, <1>3, <1>4 DEF Touches, Shaped, Kept
<1>6. Staged(a)'
    BY <1>1, <1>2, <1>4 DEF Staged
<1>7. Accounted(a)'
  <2> SUFFICES ASSUME NEW l \in LanesOf[a]
               PROVE  /\ asked'[a][l] <= 1
                      /\ rows[a].dispatch[l] = "pending" => asked'[a][l] = 0
                      /\ rows[a].run[l] # "none" => rows[a].dispatch[l] = "dispatched"
                      /\ at[a] = l => rows[a].dispatch[l] = "requested"
    BY <1>1, <1>2, <1>4 DEF Accounted
  <2>1. CASE l = at[a]
    BY <1>2, <1>3, <2>1
  <2>2. CASE l # at[a]
    BY <1>2, <1>3, <2>2
  <2>3. QED
    BY <2>1, <2>2
<1>8. QED
    BY <1>1, <1>2, <1>3, <1>4, <1>5, <1>6, <1>7, LanesWork

LEMMA DispatchLostWorks ==
    ASSUME Shaped, NEW a \in Actions, ActionInv(a), DispatchLost(a)
    PROVE  Works(a)
<1>1. /\ pc[a] = "dispatch_post" /\ Accept(a)
      /\ Save(a, [mem[a] EXCEPT !.state = "failed"])
      /\ Goto(a, "ended") /\ Between(a)
    BY DEF DispatchLost, Fail
<1>2. /\ mem[a] = rows[a] /\ rows[a] \in Record(a)
      /\ rows[a].state = "dispatching"
      /\ rows[a].dispatch[at[a]] = "requested"
    BY <1>1, Dispatching
<1>3. /\ asked' = [x \in Actions |-> asked'[x]]
      /\ ghRun' = [x \in Actions |-> ghRun'[x]]
      /\ \A b \in Actions \ {a} : asked'[b] = asked[b] /\ ghRun'[b] = ghRun[b]
      /\ asked'[a] \in [LanesOf[a] -> 0..2]
      /\ ghRun'[a] \in [LanesOf[a] -> {"none", "unlisted", "listed", "completed"}]
      /\ at[a] \in LanesOf[a] /\ asked'[a][at[a]] = 1
      /\ \A l \in LanesOf[a] : l # at[a] => asked'[a][l] = asked[a][l]
      /\ source' = source
    BY <1>1, AcceptSets
<1>4. /\ pc' = [x \in Actions |-> pc'[x]] /\ pc'[a] = "ended"
      /\ \A b \in Actions \ {a} : pc'[b] = pc[b]
    BY <1>1, GotoSets
<1>5. /\ rows' = [x \in Actions |-> rows'[x]]
      /\ rows'[a] = [mem[a] EXCEPT !.state = "failed"]
      /\ mem' = [x \in Actions |-> mem'[x]] /\ mem'[a] = rows'[a]
      /\ \A b \in Actions \ {a} : rows'[b] = rows[b] /\ mem'[b] = mem[b]
    BY <1>1, SaveSets
<1>6. /\ at' = [x \in Actions |-> at'[x]] /\ at'[a] = NoTarget
      /\ \A b \in Actions \ {a} : at'[b] = at[b]
    BY <1>1, BetweenSets
<1>7. Touches(a)
    BY <1>3, <1>4, <1>5, <1>6 DEF Touches, Shaped, Kept
<1>8. "failed" \in States /\ "failed" \notin OpenStates
    BY DEF States, LiveStates, OpenStates, FinalStates
<1>9. \A l \in LanesOf[a] :
          \/ asked'[a][l] = asked[a][l]
          \/ asked'[a][l] <= 1 /\ rows[a].dispatch[l] = "requested"
  <2> SUFFICES ASSUME NEW l \in LanesOf[a]
               PROVE  \/ asked'[a][l] = asked[a][l]
                      \/ asked'[a][l] <= 1 /\ rows[a].dispatch[l] = "requested"
    OBVIOUS
  <2>1. CASE l = at[a]
    BY <1>2, <1>3, <2>1
  <2>2. CASE l # at[a]
    BY <1>3, <2>2
  <2>3. QED
    BY <2>1, <2>2
<1>10. pc'[a] \in Stages \ {"cancel_post", "refused", "dispatch_post", "find"}
    BY <1>4 DEF Stages
<1>11. /\ ActionTypeOK(a)' /\ Copied(a)' /\ Accounted(a)'
       /\ rows'[a].state = "failed"
       /\ rows'[a].cancel = rows[a].cancel
    BY <1>1, <1>3, <1>5, <1>6, <1>8, <1>9, <1>10, StateSaved
<1>12. Staged(a)'
    BY <1>4, <1>8, <1>11 DEF Staged
<1>13. Cancelled(a)'
  <2>1. Cleared(a) /\ ResultsTrue(rows[a])
    BY <1>2 DEF ActionInv, Cancelled
  <2>2. Cleared(a)' /\ ResultsTrue(rows[a])'
    BY <1>3, <1>11, <2>1 DEF Cleared, AllCleared, ResultsTrue
  <2>3. QED
    BY <2>2 DEF Cancelled
<1>14. QED
    BY <1>7, <1>8, <1>11, <1>12, <1>13 DEF Works, ActionInv

\* A lane whose run has ended was dispatched, and stays so.
LEMMA WatchPassWorks ==
    ASSUME Shaped, NEW a \in Actions, ActionInv(a),
           NEW ended \in SUBSET LanesOf[a], WatchPass(a, ended)
    PROVE  Works(a)
<1>1. /\ pc[a] = "watch" /\ mem[a] = rows[a] /\ rows[a] \in Record(a)
      /\ rows[a].run \in [LanesOf[a] -> LaneRuns]
      /\ rows[a].state \in {"dispatched", "failed"} /\ at[a] = NoTarget
    BY Held DEF WatchPass, ActionInv, ActionTypeOK, Staged
<1>2. \A l \in ended : rows[a].run[l] = "live"
    BY <1>1 DEF WatchPass
<1> DEFINE runs == [l \in LanesOf[a] |-> IF l \in ended THEN "completed" ELSE mem[a].run[l]]
           record == [mem[a] EXCEPT !.run = runs]
           stage == IF \E l \in LanesOf[a] : runs[l] = "live" THEN "watch" ELSE AfterWatch(a)
<1>3. Save(a, record) /\ Goto(a, stage) /\ UNCHANGED ghVars /\ at' = at
    BY DEF WatchPass
<1>4. /\ runs \in [LanesOf[a] -> LaneRuns]
      /\ \A l \in LanesOf[a] : runs[l] = IF l \in ended THEN "completed" ELSE rows[a].run[l]
    BY <1>1 DEF LaneRuns
<1>5. /\ stage \in {"watch", "watched", "ended"}
      /\ stage = "watched" => rows[a].state = "dispatched"
    BY <1>1 DEF AfterWatch
<1> HIDE DEF runs, stage
<1>6. /\ record \in Record(a) /\ record.state = rows[a].state
      /\ record.cancel = rows[a].cancel /\ record.dispatch = rows[a].dispatch
      /\ record.run = runs
    BY <1>1, <1>4, RecordRun
<1> HIDE DEF record
<1>7. /\ rows' = [x \in Actions |-> rows'[x]] /\ rows'[a] = record
      /\ mem' = [x \in Actions |-> mem'[x]] /\ mem'[a] = record
      /\ \A b \in Actions \ {a} : rows'[b] = rows[b] /\ mem'[b] = mem[b]
    BY <1>3, SaveSets
<1>8. /\ pc' = [x \in Actions |-> pc'[x]] /\ pc'[a] = stage
      /\ \A b \in Actions \ {a} : pc'[b] = pc[b]
    BY <1>3, GotoSets
<1>9. /\ ghRun' = ghRun /\ asked' = asked /\ source' = source
      /\ asked[a] \in [LanesOf[a] -> 0..2]
      /\ ghRun[a] \in [LanesOf[a] -> {"none", "unlisted", "listed", "completed"}]
    BY <1>3 DEF ghVars, ActionInv, ActionTypeOK
<1>10. Touches(a)
    BY <1>3, <1>7, <1>8, <1>9 DEF Touches, Shaped, Kept
<1>11. Staged(a)'
    BY <1>1, <1>5, <1>6, <1>7, <1>8 DEF Staged, OpenStates
<1>12. Accounted(a)'
  <2> SUFFICES ASSUME NEW l \in LanesOf[a]
               PROVE  /\ asked[a][l] <= 1
                      /\ rows[a].dispatch[l] = "pending" => asked[a][l] = 0
                      /\ runs[l] # "none" => rows[a].dispatch[l] = "dispatched"
    BY <1>1, <1>5, <1>6, <1>7, <1>8, <1>9 DEF Accounted
  <2>1. rows[a].state # "absent"
    BY <1>1
  <2>2. /\ asked[a][l] <= 1
        /\ rows[a].dispatch[l] = "pending" => asked[a][l] = 0
        /\ rows[a].run[l] # "none" => rows[a].dispatch[l] = "dispatched"
    BY <2>1 DEF ActionInv, Accounted
  <2>3. QED
    BY <1>2, <1>4, <2>2
<1>13. QED
    BY <1>1, <1>3, <1>5, <1>6, <1>7, <1>8, <1>9, <1>10, <1>11, <1>12, LanesWork

LEMMA WorkerWorks ==
    ASSUME Shaped, NEW a \in Actions, ActionInv(a), Worker(a)
    PROVE  Works(a)
<1>1. CASE DispatchStep(a)
    BY <1>1, DispatchAcceptedWorks, DispatchLostWorks, AnswersWork, DispatchDoneWorks,
       DispatchLookWorks, DispatchMarkWorks DEF DispatchStep
<1>2. CASE WatchStep(a)
    BY <1>2, WatchDoneWorks, WatchExpiresWorks, WatchPassWorks DEF WatchStep
<1>3. CASE CancelStep(a)
    BY <1>3, CancelStepWorks
<1>4. QED
    BY <1>1, <1>2, <1>3, LoadWorks, RaisesWorks, ValidateWorks, BeginWorks,
       ToDispatchWorks, RevalidateWorks DEF Worker

-----------------------------------------------------------------------------
(* Every step *)

\* What a worker does not own: the pull requests, the source runs, the posts.
LEMMA WorkerLeaves ==
    ASSUME TypeOK, NEW a \in Actions, Worker(a)
    PROVE  /\ moved' = moved /\ source' = source /\ post' = post /\ seen' = seen
           /\ failures' \in [Actions -> BOOLEAN]
<1>1. CASE CancelStep(a)
    BY <1>1 DEF CancelStep, CancelPost, CancelRefused, CancelFails, CancelDone,
       CancelTimeout, CancelRead, ghVars, postVars, TypeOK
<1>2. CASE DispatchStep(a)
    BY <1>2 DEF DispatchStep, DispatchAccepted, DispatchRefused, DispatchLost, FindRun,
       FindTimeout, DispatchDone, DispatchLook, DispatchMark, Accept, ghVars, postVars, TypeOK
<1>3. CASE WatchStep(a)
    BY <1>3 DEF WatchStep, WatchDone, WatchExpires, WatchPass, ghVars, postVars, TypeOK
<1>4. CASE LoadRecord(a) \/ Raises(a) \/ Validate(a) \/ Begin(a) \/ ToDispatch(a)
           \/ Revalidate(a)
    BY <1>4 DEF LoadRecord, Raises, Validate, Begin, ToDispatch, Revalidate,
       ghVars, postVars, TypeOK
<1>5. QED
    BY <1>1, <1>2, <1>3, <1>4 DEF Worker

LEMMA RerunWorker ==
    ASSUME RerunInv, NEW a \in Actions, Worker(a), restarts' = restarts
    PROVE  RerunInv'
<1>1. Works(a)
    BY WorkerWorks DEF RerunInv
<1>2. /\ moved' = moved /\ source' = source /\ post' = post /\ seen' = seen
      /\ failures' \in [Actions -> BOOLEAN]
    BY WorkerLeaves DEF RerunInv
<1>3. ASSUME NEW b \in Actions
      PROVE  ActionInv(b)'
  <2>1. CASE b = a
    BY <1>1, <2>1 DEF Works
  <2>2. CASE b # a
    <3>1. Kept(b) /\ ghRun'[b] = ghRun[b]
      BY <1>1, <2>2 DEF Works, Touches
    <3>2. ActionInv(b) /\ ghRun[b] \in [LanesOf[b] -> {"none", "unlisted", "listed", "completed"}]
      BY DEF RerunInv, ActionInv, ActionTypeOK
    <3>3. SourcesStay
      BY <1>2 DEF SourcesStay
    <3>4. QED
      BY <3>1, <3>2, <3>3, Frame
  <2>3. QED
    BY <2>1, <2>2
<1>4. TypeOK'
    BY <1>2, <1>3 DEF RerunInv, TypeOK, ActionInv
<1>5. OneOpen'
  <2>1. \A b \in Actions : rows'[b].state \in OpenStates => rows[b].state \in OpenStates
    BY <1>1 DEF Works, Touches, Kept
  <2>2. QED
    BY <2>1 DEF RerunInv, OneOpen
<1>6. Shaped'
    BY <1>1 DEF Works, Touches
<1>7. QED
    BY <1>3, <1>4, <1>5, <1>6 DEF RerunInv

LEMMA RerunGitHub ==
    ASSUME RerunInv, GitHub, restarts' = restarts
    PROVE  RerunInv'
<1>1. /\ rows' = rows /\ mem' = mem /\ pc' = pc /\ at' = at /\ failures' = failures
      /\ post' = post /\ seen' = seen /\ asked' = asked
    BY DEF GitHub, postVars, workerVars, StartSource, CompleteSource, MovePr, AdvanceRun
<1>2. /\ source \in [SourceRuns -> {"absent", "active", "completed"}]
      /\ moved \subseteq PRs
      /\ ghRun = [b \in Actions |-> ghRun[b]]
      /\ \A b \in Actions : ghRun[b] \in [LanesOf[b] -> {"none", "unlisted", "listed", "completed"}]
    BY DEF RerunInv, TypeOK, Shaped, ActionTypeOK
<1>3. /\ source' \in [SourceRuns -> {"absent", "active", "completed"}]
      /\ SourcesStay
      /\ moved' \subseteq PRs
    BY <1>2 DEF GitHub, SourcesStay, StartSource, CompleteSource, MovePr, AdvanceRun
<1>4. /\ ghRun' = [b \in Actions |-> ghRun'[b]]
      /\ \A b \in Actions : ghRun'[b] \in [LanesOf[b] -> {"none", "unlisted", "listed", "completed"}]
  <2>1. CASE ghRun' = ghRun
    BY <1>2, <2>1
  <2>2. ASSUME NEW a \in Actions, NEW l \in LanesOf[a], AdvanceRun(a, l)
        PROVE  /\ ghRun' = [b \in Actions |-> ghRun'[b]]
               /\ \A b \in Actions :
                     ghRun'[b] \in [LanesOf[b] -> {"none", "unlisted", "listed", "completed"}]
    <3>1. PICK s \in {"listed", "completed"} :
              ghRun' = [ghRun EXCEPT ![a] = [ghRun[a] EXCEPT ![l] = s]]
      BY <2>2 DEF AdvanceRun
    <3> DEFINE runs == [ghRun[a] EXCEPT ![l] = s]
    <3>2. runs \in [LanesOf[a] -> {"none", "unlisted", "listed", "completed"}]
      BY <1>2
    <3>3. ghRun' = [ghRun EXCEPT ![a] = runs]
      BY <3>1
    <3> HIDE DEF runs
    <3>4. /\ ghRun' = [b \in Actions |-> ghRun'[b]]
          /\ \A b \in Actions : ghRun'[b] = IF b = a THEN runs ELSE ghRun[b]
      BY <1>2, <3>3
    <3>5. QED
      BY <1>2, <3>2, <3>4
  <2>3. ghRun' = ghRun \/ \E a \in Actions : \E l \in LanesOf[a] : AdvanceRun(a, l)
    BY DEF GitHub, StartSource, CompleteSource, MovePr
  <2>4. QED
    BY <2>1, <2>2, <2>3
<1>5. ASSUME NEW b \in Actions
      PROVE  ActionInv(b)'
    BY <1>1, <1>3, <1>4, Frame DEF RerunInv, Kept
<1>6. TypeOK'
    BY <1>1, <1>3, <1>5 DEF RerunInv, TypeOK, ActionInv
<1>7. OneOpen' /\ Shaped'
    BY <1>1, <1>4 DEF RerunInv, OneOpen, Shaped
<1>8. QED
    BY <1>5, <1>6, <1>7 DEF RerunInv

\* A key known or refused changes nothing on file; a new one opens an action of
\* a pull request that has none.
LEMMA RerunPost ==
    ASSUME RerunInv, NEW p \in Posts, restarts' = restarts,
           PostRefused(p) \/ PostChecked(p)
    PROVE  RerunInv'
<1>1. UNCHANGED <<ghVars, rows, workerVars>>
    BY DEF PostRefused, PostChecked
<1>2. /\ moved' = moved /\ source' = source /\ ghRun' = ghRun /\ asked' = asked
      /\ rows' = rows /\ mem' = mem /\ pc' = pc /\ at' = at /\ failures' = failures
    BY <1>1 DEF ghVars, workerVars
<1>3. /\ post' \in [Posts -> {"new", "checked", "answered"}]
      /\ seen' \in [Posts -> SUBSET SourceRuns]
    BY DEF RerunInv, TypeOK, PostRefused, PostChecked, ActiveFor
<1>4. ASSUME NEW b \in Actions
      PROVE  ActionInv(b)'
  <2>1. ActionInv(b) /\ Kept(b) /\ SourcesStay
    BY <1>2 DEF RerunInv, Kept, SourcesStay
  <2>2. ghRun'[b] \in [LanesOf[b] -> {"none", "unlisted", "listed", "completed"}]
    BY <1>2, <2>1 DEF ActionInv, ActionTypeOK
  <2>3. QED
    BY <2>1, <2>2, Frame
<1>5. TypeOK'
    BY <1>2, <1>3, <1>4 DEF RerunInv, TypeOK, ActionInv
<1>6. OneOpen' /\ Shaped'
    BY <1>2 DEF RerunInv, OneOpen, Shaped
<1>7. QED
    BY <1>4, <1>5, <1>6 DEF RerunInv

LEMMA NoRecordIsNone ==
    ASSUME NEW a \in Actions, NEW r \in Record(a) \union {NoRecord}
    PROVE  /\ r # NoRecord <=> r \in Record(a)
           /\ r # NoRecord <=> r.state # "absent"
<1>1. NoRecord.state = "absent"
    BY DEF NoRecord
<1>2. r \in Record(a) => r.state # "absent"
    BY RecordParts
<1>3. QED
    BY <1>1, <1>2

\* start: an action with a worker keeps it; one without gets a new worker.
LEMMA StartWorks ==
    ASSUME Shaped, NEW a \in Actions, ActionInv(a), Exists(a), StartWorker(a),
           UNCHANGED <<ghVars, rows, mem, at>>
    PROVE  Touches(a) /\ ActionInv(a)'
<1>1. /\ ghRun' = ghRun /\ asked' = asked /\ source' = source
      /\ rows' = rows /\ mem' = mem /\ at' = at
    BY DEF ghVars
<1>2. /\ pc' = [x \in Actions |-> pc'[x]]
      /\ pc'[a] = IF a \in Running THEN pc[a] ELSE "start"
      /\ \A b \in Actions \ {a} : pc'[b] = pc[b]
    BY DEF StartWorker, Shaped
<1>3. Touches(a)
    BY <1>1, <1>2 DEF Touches, Shaped, Kept
<1>4. ghRun'[a] \in [LanesOf[a] -> {"none", "unlisted", "listed", "completed"}]
    BY <1>1 DEF ActionInv, ActionTypeOK
<1>5. CASE a \in Running
  <2>1. Kept(a) /\ SourcesStay
    BY <1>1, <1>2, <1>5 DEF Kept, SourcesStay
  <2>2. QED
    BY <1>3, <1>4, <2>1, Frame
<1>6. CASE a \notin Running
  <2>1. pc[a] \in {"none", "ended"} /\ pc'[a] = "start"
    BY <1>2, <1>6 DEF Running
  <2>2. rows[a] \in Record(a) /\ at[a] = NoTarget
    BY <2>1, NoRecordIsNone DEF Exists, ActionInv, ActionTypeOK
  <2>3. ActionTypeOK(a)' /\ Copied(a)'
    BY <1>1, <2>1, <2>2 DEF ActionInv, ActionTypeOK, Copied, Stages
  <2>4. Staged(a)'
    BY <2>1 DEF Staged
  <2>5. Accounted(a)'
    BY <1>1, <2>1 DEF ActionInv, Accounted
  <2>6. Cancelled(a)'
    BY <1>1, <2>1 DEF ActionInv, Cancelled, Cleared, AllCleared, ResultsTrue
  <2>7. QED
    BY <1>3, <2>3, <2>4, <2>5, <2>6 DEF ActionInv
<1>7. QED
    BY <1>5, <1>6

\* A new action starts with nothing asked for and nothing cancelled.
LEMMA CreateWorks ==
    ASSUME Shaped, NEW a \in Actions, ActionInv(a), ~Exists(a), StartWorker(a),
           NEW targets \in SUBSET SourceRuns,
           rows' = [rows EXCEPT ![a] = NewRecord(a, targets)],
           UNCHANGED <<ghVars, mem, at>>
    PROVE  Touches(a) /\ ActionInv(a)'
<1>1. /\ ghRun' = ghRun /\ asked' = asked /\ source' = source
      /\ mem' = mem /\ at' = at
    BY DEF ghVars
<1>2. rows[a].state = "absent" /\ rows[a] \notin Record(a)
    BY NoRecordIsNone DEF Exists, ActionInv, ActionTypeOK
<1>3. pc[a] = "none"
    BY <1>2 DEF ActionInv, Copied
<1>4. /\ pc' = [x \in Actions |-> pc'[x]] /\ pc'[a] = "start"
      /\ \A b \in Actions \ {a} : pc'[b] = pc[b]
    BY <1>3 DEF StartWorker, Shaped, Running
<1>5. /\ rows' = [x \in Actions |-> rows'[x]] /\ rows'[a] = NewRecord(a, targets)
      /\ \A b \in Actions \ {a} : rows'[b] = rows[b]
    BY DEF Shaped
<1>6. Touches(a)
    BY <1>1, <1>4, <1>5 DEF Touches, Shaped, Kept
<1>7. /\ rows'[a] \in Record(a) /\ rows'[a].state = "prepared"
      /\ \A t \in DOMAIN rows'[a].cancel : rows'[a].cancel[t] = "pending"
      /\ \A l \in LanesOf[a] : rows'[a].dispatch[l] = "pending" /\ rows'[a].run[l] = "none"
    BY <1>5, CreatedRecord
<1>8. at[a] = NoTarget /\ \A l \in LanesOf[a] : asked[a][l] = 0
    BY <1>2, <1>3 DEF ActionInv, ActionTypeOK, Accounted
<1>9. ActionTypeOK(a)' /\ Copied(a)'
    BY <1>1, <1>4, <1>7, <1>8 DEF ActionInv, ActionTypeOK, Copied, Stages
<1>10. Staged(a)'
    BY <1>4 DEF Staged
<1>11. Accounted(a)'
  <2>1. \A l \in LanesOf[a] : asked'[a][l] = 0
    BY <1>1, <1>8
  <2>2. QED
    BY <1>4, <1>7, <2>1 DEF Accounted
<1>12. Cancelled(a)'
  <2>1. \A l \in LanesOf[a] : ~(asked'[a][l] > 0)
    BY <1>1, <1>8
  <2>2. ResultsTrue(rows[a])'
    BY <1>7 DEF ResultsTrue
  <2>3. QED
    BY <1>4, <1>7, <2>1, <2>2 DEF Cancelled
<1>13. QED
    BY <1>6, <1>9, <1>10, <1>11, <1>12 DEF ActionInv

LEMMA RerunCreates ==
    ASSUME RerunInv, NEW p \in Posts, PostCreates(p), restarts' = restarts
    PROVE  RerunInv'
<1>1. PICK a \in Actions : a = KeyOf[p]
    BY KeyOfAssumption
<1>2. /\ UNCHANGED <<ghVars, mem, at, failures>>
      /\ post' = [post EXCEPT ![p] = "answered"] /\ seen' = [seen EXCEPT ![p] = {}]
      /\ \/ /\ Exists(a) /\ StartWorker(a) /\ UNCHANGED rows
         \/ /\ ~Exists(a) /\ MayCreate(a)
            /\ rows' = [rows EXCEPT ![a] = NewRecord(a, seen[p])]
            /\ StartWorker(a)
         \/ UNCHANGED <<rows, pc>>
    BY <1>1 DEF PostCreates
<1>3. /\ moved' = moved /\ source' = source /\ ghRun' = ghRun /\ asked' = asked
      /\ mem' = mem /\ at' = at /\ failures' = failures
    BY <1>2 DEF ghVars
<1>4. Shaped /\ ActionInv(a) /\ seen[p] \in SUBSET SourceRuns
    BY DEF RerunInv, TypeOK
<1>5. /\ Touches(a) /\ ActionInv(a)'
      /\ \/ \A b \in Actions : rows'[b] = rows[b]
         \/ ~OpenFor(PrOf[a])
  <2>1. CASE Exists(a) /\ StartWorker(a) /\ UNCHANGED rows
    BY <1>2, <1>4, <2>1, StartWorks
  <2>2. CASE /\ ~Exists(a) /\ MayCreate(a)
             /\ rows' = [rows EXCEPT ![a] = NewRecord(a, seen[p])]
             /\ StartWorker(a)
    BY <1>2, <1>4, <2>2, CreateWorks DEF MayCreate
  <2>3. CASE UNCHANGED <<rows, pc>>
    <3>1. Kept(a) /\ SourcesStay /\ Touches(a)
      BY <1>3, <1>4, <2>3 DEF Kept, SourcesStay, Touches, Shaped
    <3>2. ghRun'[a] \in [LanesOf[a] -> {"none", "unlisted", "listed", "completed"}]
      BY <1>3, <1>4 DEF ActionInv, ActionTypeOK
    <3>3. QED
      BY <1>4, <2>3, <3>1, <3>2, Frame
  <2>4. QED
    BY <1>2, <2>1, <2>2, <2>3
<1>6. ASSUME NEW b \in Actions
      PROVE  ActionInv(b)'
  <2>1. CASE b = a
    BY <1>5, <2>1
  <2>2. CASE b # a
    <3>1. Kept(b) /\ SourcesStay
      BY <1>3, <1>5, <2>2 DEF Touches, SourcesStay
    <3>2. ActionInv(b) /\ ghRun'[b] \in [LanesOf[b] -> {"none", "unlisted", "listed", "completed"}]
      BY <1>3 DEF RerunInv, ActionInv, ActionTypeOK
    <3>3. QED
      BY <3>1, <3>2, Frame
  <2>3. QED
    BY <2>1, <2>2
<1>7. TypeOK'
  <2>1. /\ post' \in [Posts -> {"new", "checked", "answered"}]
        /\ seen' \in [Posts -> SUBSET SourceRuns]
    BY <1>2 DEF RerunInv, TypeOK
  <2>2. QED
    BY <1>3, <1>6, <2>1 DEF RerunInv, TypeOK, ActionInv
<1>8. OneOpen'
  <2>1. \A b \in Actions \ {a} : rows'[b] = rows[b]
    BY <1>5 DEF Touches, Kept
  <2>2. CASE \A b \in Actions : rows'[b] = rows[b]
    BY <2>2 DEF RerunInv, OneOpen
  <2>3. CASE ~OpenFor(PrOf[a])
    BY <2>1, <2>3 DEF RerunInv, OneOpen, OpenFor
  <2>4. QED
    BY <1>5, <2>2, <2>3
<1>9. Shaped'
    BY <1>5 DEF Touches
<1>10. QED
    BY <1>6, <1>7, <1>8, <1>9 DEF RerunInv

\* After a restart the live actions have a worker again, which reads its record;
\* what is on file was saved before each call it speaks of.
LEMMA RerunRestart ==
    ASSUME RerunInv, Restart
    PROVE  RerunInv'
<1>1. /\ moved' = moved /\ source' = source /\ ghRun' = ghRun /\ asked' = asked
      /\ rows' = rows
    BY DEF Restart, ghVars
<1>2. /\ pc' = [a \in Actions |-> IF Resumed(a) THEN "start" ELSE "none"]
      /\ mem' = [a \in Actions |-> NoRecord]
      /\ at' = [a \in Actions |-> NoTarget]
      /\ failures' = [a \in Actions |-> FALSE]
      /\ post' = [p \in Posts |-> IF post[p] = "checked" THEN "answered" ELSE post[p]]
      /\ seen' = [p \in Posts |-> {}]
      /\ restarts' \in 0..MaxRestarts
    BY MaxRestartsAssumption DEF Restart, RerunInv, TypeOK
<1>3. ASSUME NEW a \in Actions
      PROVE  ActionInv(a)'
  <2>1. ActionInv(a)
    BY DEF RerunInv
  <2>2. pc'[a] = IF Resumed(a) THEN "start" ELSE "none"
    BY <1>2
  <2>3. pc'[a] = "start" => rows[a].state \in LiveStates
    BY <2>2 DEF Resumed
  <2>4. pc'[a] = "none" => rows[a].state \notin OpenStates
    BY <2>2 DEF Resumed, LiveStates
  <2>5. rows[a].state \in LiveStates => rows[a] \in Record(a)
    BY <2>1, NoRecordIsNone DEF ActionInv, ActionTypeOK, LiveStates, OpenStates
  <2>6. ActionTypeOK(a)' /\ Copied(a)'
    BY <1>1, <1>2, <2>1, <2>2, <2>3, <2>5 DEF ActionInv, ActionTypeOK, Copied, Stages
  <2>7. Staged(a)'
    BY <1>1, <2>2, <2>4 DEF Staged
  <2>8. Accounted(a)'
    BY <1>1, <2>1, <2>2 DEF ActionInv, Accounted
  <2>9. Cancelled(a)'
    BY <1>1, <2>1, <2>2 DEF ActionInv, Cancelled, Cleared, AllCleared, ResultsTrue
  <2>10. QED
    BY <2>6, <2>7, <2>8, <2>9 DEF ActionInv
<1>4. TypeOK'
    BY <1>1, <1>2, <1>3 DEF RerunInv, TypeOK, ActionInv
<1>5. OneOpen' /\ Shaped'
    BY <1>1, <1>2 DEF RerunInv, OneOpen, Shaped
<1>6. QED
    BY <1>3, <1>4, <1>5 DEF RerunInv

LEMMA RerunInit == Init => RerunInv
<1> SUFFICES ASSUME Init
             PROVE  RerunInv
    OBVIOUS
<1>1. ASSUME NEW a \in Actions
      PROVE  ActionInv(a)
  <2>1. /\ rows[a] = NoRecord /\ rows[a].state = "absent" /\ mem[a] = NoRecord
        /\ pc[a] = "none" /\ at[a] = NoTarget
        /\ ghRun[a] = [l \in LanesOf[a] |-> "none"]
        /\ asked[a] = [l \in LanesOf[a] |-> 0]
    BY DEF Init, NoRecord
  <2>2. ActionTypeOK(a) /\ Copied(a)
    BY <2>1 DEF ActionTypeOK, Copied, Stages
  <2>3. Staged(a)
    BY <2>1 DEF Staged, OpenStates
  <2>4. Accounted(a)
    BY <2>1 DEF Accounted
  <2>5. Cancelled(a)
    BY <2>1 DEF Cancelled
  <2>6. QED
    BY <2>2, <2>3, <2>4, <2>5 DEF ActionInv
<1>2. TypeOK
    BY <1>1, MaxRestartsAssumption DEF Init, TypeOK, ActionInv
<1>3. Shaped
    BY DEF Init, Shaped
<1>4. OneOpen
    BY DEF Init, OneOpen, OpenStates, NoRecord
<1>5. QED
    BY <1>1, <1>2, <1>3, <1>4 DEF RerunInv

LEMMA RerunNext == RerunInv /\ [Next]_vars => RerunInv'
<1> SUFFICES ASSUME RerunInv, [Next]_vars
             PROVE  RerunInv'
    OBVIOUS
<1>1. CASE Restart
    BY <1>1, RerunRestart
<1>2. CASE GitHub /\ UNCHANGED restarts
    BY <1>2, RerunGitHub
<1>3. ASSUME NEW p \in Posts, PostRefused(p) \/ PostChecked(p) \/ PostCreates(p),
             UNCHANGED restarts
      PROVE  RerunInv'
    BY <1>3, RerunPost, RerunCreates
<1>4. ASSUME NEW a \in Actions, Worker(a), UNCHANGED restarts
      PROVE  RerunInv'
    BY <1>4, RerunWorker
<1>5. CASE UNCHANGED vars
  <2>1. UNCHANGED <<moved, source, ghRun, asked, rows, post, seen, pc, mem, at,
                    failures, restarts>>
    BY <1>5 DEF vars, ghVars, postVars, workerVars
  <2>2. ASSUME NEW b \in Actions
        PROVE  ActionInv(b)'
    <3>1. ActionInv(b) /\ Kept(b) /\ SourcesStay
      BY <2>1 DEF RerunInv, Kept, SourcesStay
    <3>2. ghRun'[b] \in [LanesOf[b] -> {"none", "unlisted", "listed", "completed"}]
      BY <2>1, <3>1 DEF ActionInv, ActionTypeOK
    <3>3. QED
      BY <3>1, <3>2, Frame
  <2>3. TypeOK'
    BY <2>1, <2>2 DEF RerunInv, TypeOK, ActionInv
  <2>4. OneOpen' /\ Shaped'
    BY <2>1 DEF RerunInv, OneOpen, Shaped
  <2>5. QED
    BY <2>2, <2>3, <2>4 DEF RerunInv
<1>6. QED
    BY <1>1, <1>2, <1>3, <1>4, <1>5 DEF Next

-----------------------------------------------------------------------------
(* Theorems: for any pull requests, lanes, actions, posts and source runs, any *)
(* number of restarts, and whatever GitHub and serge answer.                   *)

\* The inductive invariant holds in every state the program can reach.
THEOREM InvariantCorrect == Spec => []RerunInv
BY RerunInit, RerunNext, PTL DEF Spec

\* Every variable holds a value of its kind, and the worker works on a run or a
\* lane only while it waits for the call about it (rerun_actions.py: the states
\* of an action and the stages of run_action).
THEOREM TypeCorrect == Spec => []TypeOK
<1>1. RerunInv => TypeOK
    BY DEF RerunInv
<1>2. QED
    BY <1>1, InvariantCorrect, PTL

\* No lane of an action is dispatched twice: a worker that finds its request on
\* file looks for the run and never sends the request again (_dispatch).
THEOREM AtMostOneDispatchCorrect == Spec => []AtMostOneDispatch
<1>1. RerunInv => AtMostOneDispatch
    BY DEF RerunInv, ActionInv, Accounted, AtMostOneDispatch
<1>2. QED
    BY <1>1, InvariantCorrect, PTL

\* Of two actions for one pull request only one cancels or dispatches: the index
\* over the open rows lets one in, and a worker is at these stages only while
\* its row is open (Store.create, run_action).
THEOREM OneStarterPerPrCorrect == Spec => []OneStarterPerPr
<1>1. RerunInv => OneStarterPerPr
  <2> SUFFICES ASSUME RerunInv, NEW a \in Actions, NEW b \in Actions,
                      Starting(a), Starting(b), PrOf[a] = PrOf[b]
               PROVE  a = b
    BY DEF OneStarterPerPr
  <2>1. \A c \in Actions : Starting(c) => rows[c].state \in OpenStates
    BY DEF RerunInv, ActionInv, Staged, Starting, OpenStates
  <2>2. QED
    BY <2>1 DEF RerunInv, OneOpen
<1>2. QED
    BY <1>1, InvariantCorrect, PTL

\* An action that has not dispatched yet has a worker, through crashes too: it
\* cannot block its pull request with nobody working on it (resume_all).
THEOREM OpenHasWorkerCorrect == Spec => []OpenHasWorker
<1>1. RerunInv => OpenHasWorker
  <2> SUFFICES ASSUME RerunInv, NEW a \in Actions, rows[a].state \in OpenStates
               PROVE  pc[a] \notin {"none", "ended"}
    BY DEF OpenHasWorker, Running
  <2>1. QED
    BY DEF RerunInv, ActionInv, Staged
<1>2. QED
    BY <1>1, InvariantCorrect, PTL

\* Nothing is dispatched while a run the person agreed to cancel still goes on,
\* unless GitHub refused to cancel it (_cancel, before _dispatch).
THEOREM CancelledOrRefusedCorrect == Spec => []CancelledOrRefused
<1>1. RerunInv => CancelledOrRefused
  <2> SUFFICES ASSUME RerunInv, NEW a \in Actions, NEW l \in LanesOf[a],
                      asked[a][l] > 0
               PROVE  Cleared(a)
    BY DEF CancelledOrRefused, Cleared, AllCleared
  <2>1. ActionInv(a)
    BY DEF RerunInv
  <2>2. ~(rows[a].state \in {"absent", "prepared", "cancelling"})
    BY <2>1 DEF ActionInv, Accounted
  <2>3. QED
    BY <2>1, <2>2 DEF ActionInv, Cancelled
<1>2. QED
    BY <1>1, InvariantCorrect, PTL

\* A failed action stays failed, though its dispatched lanes are still watched
\* (_fail, _watch).
THEOREM FailedStaysFailedCorrect == Spec => FailedStaysFailed
<1>1. RerunInv /\ [Next]_vars =>
          [\A a \in Actions : rows[a].state = "failed" => rows'[a].state = "failed"]_vars
  <2> SUFFICES ASSUME RerunInv, Next, NEW b \in Actions, rows[b].state = "failed"
               PROVE  rows'[b].state = "failed"
    OBVIOUS
  <2>1. CASE Restart \/ GitHub
    BY <2>1 DEF Restart, GitHub
  <2>2. ASSUME NEW p \in Posts, PostRefused(p) \/ PostChecked(p)
        PROVE  rows'[b].state = "failed"
    BY <2>2 DEF PostRefused, PostChecked
  <2>3. ASSUME NEW p \in Posts, PostCreates(p)
        PROVE  rows'[b].state = "failed"
    <3>1. PICK a \in Actions : a = KeyOf[p]
      BY KeyOfAssumption
    <3>2. rows' = rows \/ (~Exists(a) /\ rows' = [rows EXCEPT ![a] = NewRecord(a, seen[p])])
      BY <2>3, <3>1 DEF PostCreates
    <3>3. b # a \/ Exists(a)
      BY NoRecordIsNone DEF Exists, RerunInv, ActionInv, ActionTypeOK
    <3>4. rows = [x \in Actions |-> rows[x]]
      BY DEF RerunInv, Shaped
    <3>5. QED
      BY <3>2, <3>3, <3>4
  <2>4. ASSUME NEW a \in Actions, Worker(a)
        PROVE  rows'[b].state = "failed"
    <3>1. Works(a)
      BY <2>4, WorkerWorks DEF RerunInv
    <3>2. QED
      BY <3>1 DEF Works, Touches, Kept
  <2>5. QED
    BY <2>1, <2>2, <2>3, <2>4 DEF Next
<1>2. QED
    BY <1>1, InvariantCorrect, PTL DEF Spec, FailedStaysFailed

-----------------------------------------------------------------------------
(* A pull request that moves while runs are still being cancelled *)

\* The action is stopped: nothing was asked for, its pull request has moved, and
\* it is not past the second validation, which it cannot pass.
Stopped(a) ==
    /\ PrOf[a] \in moved
    /\ pc[a] \notin {"dispatch", "dispatch_post", "find"}
    /\ \A l \in LanesOf[a] : asked[a][l] = 0

LEMMA StopsBefore ==
    ASSUME NEW a \in Actions, RerunInv, PrOf[a] \in moved,
           rows[a].state \in {"prepared", "cancelling"}
    PROVE  Stopped(a)
BY DEF RerunInv, ActionInv, Staged, Accounted, Stopped

\* The worker of a stopped action asks for nothing, and does not get past the
\* second validation.
LEMMA StoppedWorker ==
    ASSUME NEW a \in Actions, RerunInv, Stopped(a), Worker(a)
    PROVE  /\ pc'[a] \notin {"dispatch", "dispatch_post", "find"}
           /\ asked' = asked
<1>1. Shaped
    BY DEF RerunInv
<1>2. ~DispatchStep(a)
    BY DEF Stopped, DispatchStep, DispatchAccepted, DispatchRefused, DispatchLost, FindRun,
       FindTimeout, DispatchDone, DispatchLook, DispatchMark
<1>3. ~Validate(a) /\ ~Revalidate(a)
    BY DEF Stopped, Validate, Revalidate, HeadCurrent
<1>4. CASE CancelStep(a)
  <2>1. ghVars' = ghVars
    BY <1>4 DEF CancelStep, CancelPost, CancelRefused, CancelFails, CancelDone,
       CancelTimeout, CancelRead
  <2>2. \/ pc' = pc
        \/ \E stage \in {"cancel_post", "cancel", "refused", "ended", "cancelled"} :
              Goto(a, stage)
    BY <1>4 DEF CancelStep, CancelPost, CancelRefused, CancelFails, CancelDone,
       CancelTimeout, CancelRead, Fail
  <2>3. QED
    BY <1>1, <2>1, <2>2, GotoSets DEF Stopped, ghVars
<1>5. CASE WatchStep(a)
  <2>1. ghVars' = ghVars
    BY <1>5 DEF WatchStep, WatchDone, WatchExpires, WatchPass
  <2>2. \E stage \in {"watch", "watched", "ended"} : Goto(a, stage)
    BY <1>5 DEF WatchStep, WatchDone, WatchExpires, WatchPass, AfterWatch
  <2>3. QED
    BY <1>1, <2>1, <2>2, GotoSets DEF ghVars
<1>6. CASE LoadRecord(a) \/ Raises(a) \/ Begin(a) \/ ToDispatch(a)
  <2>1. ghVars' = ghVars
    BY <1>6 DEF LoadRecord, Raises, Begin, ToDispatch
  <2>2. \E stage \in {"validate", "watch", "ended", "revalidate", "cancel"} : Goto(a, stage)
    BY <1>6 DEF LoadRecord, Raises, Begin, ToDispatch, Fail
  <2>3. QED
    BY <1>1, <2>1, <2>2, GotoSets DEF ghVars
<1>7. QED
    BY <1>2, <1>3, <1>4, <1>5, <1>6 DEF Worker

LEMMA StaysStopped ==
    ASSUME NEW a \in Actions, RerunInv, Stopped(a), [Next]_vars
    PROVE  Stopped(a)'
<1> USE DEF Stopped
<1>1. CASE Restart
    BY <1>1 DEF Restart, ghVars
<1>2. CASE GitHub
    BY <1>2 DEF GitHub, workerVars, StartSource, CompleteSource, MovePr, AdvanceRun
<1>3. ASSUME NEW p \in Posts, PostRefused(p) \/ PostChecked(p)
      PROVE  Stopped(a)'
    BY <1>3 DEF PostRefused, PostChecked, ghVars, workerVars
<1>4. ASSUME NEW p \in Posts, PostCreates(p)
      PROVE  Stopped(a)'
  <2>1. PICK b \in Actions : b = KeyOf[p]
    BY KeyOfAssumption
  <2>2. UNCHANGED ghVars /\ (StartWorker(b) \/ pc' = pc)
    BY <1>4, <2>1 DEF PostCreates
  <2>3. pc = [x \in Actions |-> pc[x]]
    BY DEF RerunInv, Shaped
  <2>4. pc'[a] = pc[a] \/ pc'[a] = "start"
    BY <2>2, <2>3 DEF StartWorker
  <2>5. QED
    BY <2>2, <2>4 DEF ghVars
<1>5. ASSUME NEW b \in Actions, Worker(b)
      PROVE  Stopped(a)'
  <2>1. moved' = moved
    BY <1>5, WorkerLeaves DEF RerunInv
  <2>2. CASE b = a
    BY <1>5, <2>1, <2>2, StoppedWorker
  <2>3. CASE b # a
    <3>1. Works(b)
      BY <1>5, WorkerWorks DEF RerunInv
    <3>2. Kept(a)
      BY <2>3, <3>1 DEF Works, Touches
    <3>3. QED
      BY <2>1, <3>2 DEF Kept
  <2>4. QED
    BY <2>2, <2>3
<1>6. CASE UNCHANGED vars
    BY <1>6 DEF vars, ghVars, workerVars
<1>7. QED
    BY <1>1, <1>2, <1>3, <1>4, <1>5, <1>6 DEF Next

\* Once the pull request has moved while runs were still being cancelled, the
\* action dispatches nothing any more, after restarts either (the second
\* _validate of run_action).
THEOREM MovedPreventsCorrect == Spec => MovedPrevents
<1> SUFFICES ASSUME NEW a \in Actions, NEW l \in LanesOf[a]
             PROVE  Spec => [](/\ PrOf[a] \in moved
                               /\ rows[a].state \in {"prepared", "cancelling"}
                               => [](asked[a][l] = 0))
    BY DEF MovedPrevents
<1>1. RerunInv /\ PrOf[a] \in moved /\ rows[a].state \in {"prepared", "cancelling"} =>
          Stopped(a)
    BY StopsBefore
<1>2. RerunInv /\ Stopped(a) /\ [Next]_vars => Stopped(a)'
    BY StaysStopped
<1>3. Stopped(a) => asked[a][l] = 0
    BY DEF Stopped
<1>4. QED
    BY <1>1, <1>2, <1>3, InvariantCorrect, PTL DEF Spec

=============================================================================
