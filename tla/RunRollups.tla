------------------------------ MODULE RunRollups ------------------------------
(***************************************************************************)
(* The counts the exporter publishes of one CI run and of its jobs         *)
(* (otel/trace_exporter.py, _iter_metric_lines and what it calls): traces  *)
(* come into the window, are read while they grow, and leave it; GitHub is *)
(* asked whether the run goes on; the run store keeps every row ever read. *)
(* A run's counts wait until it is over, a finished job's may go ahead.    *)
(***************************************************************************)
EXTENDS Naturals, FiniteSets, FiniteSetsExt

CONSTANTS
    Traces, Jobs,
    JobOf,              \* the job of each trace
    Tests,              \* tests of each trace
    Failing,            \* the failing ones, as <<trace, test>>
    RunSettle,          \* _run_settle_seconds
    ActiveTtl, DoneTtl, \* active_cache_ttl_seconds, github_cache_ttl_seconds
    Grace,              \* _job_release_grace_seconds; assumption: a job's spans are all there by then
    MaxTime, MaxFaults  \* bounds on the exploration

VARIABLES
    clock,
    visible,            \* Tempo: test spans of each trace that can be read
    session,            \* Tempo: traces whose failed run span can be read
    doneAt,             \* GitHub: when each job was completed, 0 before
    aged,               \* traces older than the lookback
    shape,              \* _shaped_cache and _shaped_meta: rows, run_failed, settled and read time
    members, lastGrowth,    \* _run_members, _run_last_growth
    activity,           \* _cached_run_activity: GitHub's last word and when
    listing,            \* _run_job_states: the last complete listing, when each job was done
    stored,             \* the run's file: rows of each trace, and failed_traces
    seeded,             \* _run_store_counts has the run
    phase,              \* idle, reading, merging, activity
    renderNow,          \* now of the render under way or last; renders are at least a tick apart
    window, fetched,
    published,          \* last sample of each job's series, and the traces it counted
    runPublished,       \* the run's total
    lost,               \* history: rows were read and not merged
    faults

worldVars == <<visible, session, doneAt, aged>>
storeVars == <<stored, seeded>>
gateVars == <<members, lastGrowth, activity, listing>>
renderVars == <<phase, renderNow, window, fetched>>
publishedVars == <<published, runPublished>>
rollupsVars == <<clock, worldVars, shape, gateVars, storeVars, renderVars, publishedVars, lost, faults>>

NoShape == [rows |-> {}, failed |-> FALSE, settled |-> FALSE, at |-> 0]
Unknown == [active |-> FALSE, at |-> 0]
Unpublished == [total |-> 0, failed |-> 0, of |-> {}, early |-> FALSE]

Held(t) == shape[t].at # 0
Failures(t, rows) == {<<t, n>> : n \in rows} \intersect Failing
Fails(j) == \E t \in Traces : JobOf[t] = j /\ Failures(t, Tests[t]) # {}
RunOver == \A j \in Jobs : doneAt[j] # 0

-----------------------------------------------------------------------------
(* GitHub, Tempo, time: they move on all the time; here, while a render is at *)
(* something that looks at them.                                             *)

\* Spans can be read in any order; the session's may be the first.
SpanVisible(t) ==
    /\ phase \in {"idle", "reading"}
    /\ doneAt[JobOf[t]] # 0 => clock < doneAt[JobOf[t]] + Grace
    /\ \/ \E n \in Tests[t] \ visible[t] :
             visible' = [visible EXCEPT ![t] = @ \union {n}] /\ UNCHANGED session
       \/ /\ Failures(t, Tests[t]) # {} /\ t \notin session
          /\ session' = session \union {t}
          /\ UNCHANGED visible
    /\ UNCHANGED <<clock, doneAt, aged, shape, gateVars, storeVars, renderVars, publishedVars, lost, faults>>

AllVisible(t) == visible[t] = Tests[t] /\ (Failures(t, Tests[t]) # {} => t \in session)
Begun(t) == visible[t] # {} \/ t \in session

JobDone(j) ==
    /\ phase \in {"idle", "activity"}
    /\ doneAt[j] = 0
    /\ \A t \in Traces : JobOf[t] = j => Begun(t)
    /\ doneAt' = [doneAt EXCEPT ![j] = clock]
    /\ UNCHANGED <<clock, visible, session, aged, shape, gateVars, storeVars, renderVars, publishedVars, lost, faults>>

AgesOut(t) ==
    /\ phase = "idle"
    /\ AllVisible(t) /\ doneAt[JobOf[t]] # 0 /\ t \notin aged
    /\ aged' = aged \union {t}
    /\ UNCHANGED <<clock, visible, session, doneAt, shape, gateVars, storeVars, renderVars, publishedVars, lost, faults>>

Tick ==
    /\ phase \in {"idle", "activity"}
    /\ clock < MaxTime
    /\ \A t \in Traces :
          doneAt[JobOf[t]] # 0 /\ clock + 1 >= doneAt[JobOf[t]] + Grace => AllVisible(t)
    /\ clock' = clock + 1
    /\ UNCHANGED <<worldVars, shape, gateVars, storeVars, renderVars, publishedVars, lost, faults>>

\* The cache is at its limit: traces no longer in the window are the least recently used.
Evict(t) ==
    /\ phase = "idle" /\ Held(t) /\ t \in aged
    /\ shape' = [shape EXCEPT ![t] = NoShape]
    /\ UNCHANGED <<clock, worldVars, gateVars, storeVars, renderVars, publishedVars, lost, faults>>

Restart ==
    /\ phase = "idle" /\ faults < MaxFaults
    /\ faults' = faults + 1
    /\ shape' = [t \in Traces |-> NoShape]
    /\ members' = {} /\ lastGrowth' = 0
    /\ activity' = Unknown /\ listing' = [j \in Jobs |-> 0]
    /\ seeded' = FALSE
    /\ renderNow' = 0
    /\ UNCHANGED <<clock, worldVars, stored, phase, window, fetched, publishedVars, lost>>

-----------------------------------------------------------------------------
(* A render: _iter_window_shaped.  Which of the unsettled traces it reads is *)
(* TraceCaches' matter; here it may be any, and any read may fail.           *)

BeginRender ==
    /\ phase = "idle" /\ clock > renderNow
    /\ phase' = "reading"
    /\ renderNow' = clock
    /\ window' = {t \in Traces : Begun(t) /\ t \notin aged}
    /\ UNCHANGED <<clock, worldVars, shape, gateVars, storeVars, fetched, publishedVars, lost, faults>>

\* The reads of a render, later than its clock.  Traces count as settled
\* only when nothing more will come (TraceCaches, FrozenComplete).  What follows up to
\* Publish looks at nothing outside the exporter.
Fetch ==
    /\ phase = "reading"
    /\ \E answered \in SUBSET {t \in window : ~shape[t].settled}, quiet \in BOOLEAN :
          /\ shape' = [t \in Traces |->
                IF t \in answered
                THEN [rows |-> visible[t], failed |-> t \in session,
                      settled |-> quiet /\ AllVisible(t), at |-> renderNow]
                ELSE shape[t]]
          /\ fetched' = answered
          /\ window' = {t \in window : t \in answered \/ Held(t)}
    /\ phase' = "merging"
    /\ UNCHANGED <<clock, worldVars, gateVars, storeVars, renderNow, publishedVars, lost, faults>>

\* fetch_resource_records raises: what was read is shaped, and merged nowhere.
ResourceRecordsFail ==
    /\ phase = "merging" /\ faults < MaxFaults
    /\ faults' = faults + 1
    /\ lost' = TRUE
    /\ phase' = "idle"
    /\ window' = {} /\ fetched' = {}
    /\ UNCHANGED <<clock, worldVars, shape, gateVars, storeVars, renderNow, publishedVars>>

-----------------------------------------------------------------------------
(* record_run_membership, settled_runs_complete_extracted,                   *)
(* completed_job_results_extracted, persist_settled_runs,                    *)
(* extract_run_rollup_metrics.                                               *)

Members == members \union window
Growth == IF window \subseteq members THEN lastGrowth ELSE clock

\* cached_run_is_active: nothing is known of a run whose entry expired.
SaidActive ==
    /\ activity.active
    /\ clock - activity.at < ActiveTtl

Released == window # {} /\ Growth # 0 /\ clock - Growth >= RunSettle /\ ~SaidActive

\* Mutant of ReadAfter: a job's traces may be as old as the job's end.
ReadAfterEnd(t, done) == shape[t].settled \/ shape[t].at >= done

ReadAfter(t, done) == shape[t].settled \/ shape[t].at >= done + Grace

FailedIn(t) == Max({Cardinality(Failures(t, shape[t].rows)), IF shape[t].failed THEN 1 ELSE 0})

\* A job of a run still held back goes ahead.
GoesAhead(j) ==
    LET of == {t \in window : JobOf[t] = j} IN
    /\ ~Released /\ of # {}
    /\ listing[j] # 0
    /\ \A t \in of : ReadAfter(t, listing[j])
    /\ (\E t \in of : FailedIn(t) > 0) <=> Fails(j)

\* The union of what the file has and what this render read.
Union(rows) == [t \in Traces |-> rows[t] \union (IF t \in fetched THEN shape[t].rows ELSE {})]
Merged ==
    [rows |-> Union(stored.rows),
     failed |-> stored.failed \union {t \in fetched : shape[t].failed}]

StoreTotal(j, store) ==
    MapThenSumSet(LAMBDA t : Cardinality(store.rows[t]), {t \in Traces : JobOf[t] = j})
StoreFailed(j, store) ==
    LET of == {t \in Traces : JobOf[t] = j} IN
    Max({MapThenSumSet(LAMBDA t : Cardinality(Failures(t, store.rows[t])), of),
         Cardinality(store.failed \intersect of)})

\* Mutant of Reconciled: the counts are those of the traces at hand.
ReconciledNever(n, inStore) == n

Reconciled(n, inStore) == Max({n, inStore})

\* The traces the counts are of: all of a released run's, else those at hand.
Counted == IF Released THEN {t \in Members : Held(t)} ELSE window

\* What a trace adds; one without rows counts only if its session failed.
Aggregate(j) ==
    LET of == {t \in Counted : JobOf[t] = j /\ (shape[t].rows # {} \/ shape[t].failed)} IN
    [total |-> MapThenSumSet(LAMBDA t : Cardinality(shape[t].rows), of),
     failed |-> MapThenSumSet(FailedIn, of)]

\* Only a released run shows jobs the store alone knows.
Shown(known, store) ==
    IF Released
    THEN {j \in Jobs : \/ \E t \in Counted : JobOf[t] = j
                       \/ known /\ StoreTotal(j, store) + StoreFailed(j, store) > 0}
    ELSE {j \in Jobs : GoesAhead(j)}

\* A job's counts: of the traces at hand, or of the store if it knows more.
JobSample(j, known, store) ==
    LET n == Aggregate(j) IN
    [total |-> IF known THEN Reconciled(n.total, StoreTotal(j, store)) ELSE n.total,
     failed |-> IF known THEN Reconciled(n.failed, StoreFailed(j, store)) ELSE n.failed,
     of |-> IF Released THEN {} ELSE {t \in window : JobOf[t] = j /\ (shape[t].rows # {} \/ shape[t].failed)},
     early |-> ~Released]

\* A released run's total is that of its jobs.
RunTotal(known, store) ==
    MapThenSumSet(LAMBDA j : JobSample(j, known, store).total, Shown(known, store))

Publish ==
    /\ phase = "merging" /\ window # {}
    /\ members' = Members /\ lastGrowth' = Growth
    /\ \/ stored' = Merged /\ seeded' = (seeded \/ fetched # {}) /\ UNCHANGED <<lost, faults>>
       \/ /\ fetched # {} /\ faults < MaxFaults /\ Merged # stored    \* OSError, swallowed
          /\ faults' = faults + 1
          /\ lost' = TRUE
          /\ UNCHANGED storeVars
    /\ published' = [j \in Jobs |-> IF j \in Shown(seeded', stored') THEN JobSample(j, seeded', stored')
                                   ELSE published[j]]
    /\ runPublished' = IF Released THEN RunTotal(seeded', stored') ELSE runPublished
    /\ phase' = "activity"
    /\ fetched' = {}
    /\ UNCHANGED <<clock, worldVars, shape, activity, listing, renderNow, window>>

EmptyWindow ==
    /\ phase = "merging" /\ window = {}
    /\ phase' = "idle"
    /\ UNCHANGED <<clock, worldVars, shape, gateVars, storeVars, renderNow, window, fetched, publishedVars, lost, faults>>

\* extract_run_active_metrics, near the render's end: the run is asked about
\* unless it is not the newest of its pull request, its entry is still fresh or
\* GitHub does not answer.  Jobs are listed while it goes on, perhaps not all.
AskActivity ==
    /\ phase = "activity"
    /\ LET fresh == activity.at # 0 /\ clock - activity.at < (IF activity.active THEN ActiveTtl ELSE DoneTtl) IN
       \/ UNCHANGED <<activity, listing>>
       \/ /\ ~fresh
          /\ activity' = [active |-> ~RunOver, at |-> clock]
          /\ listing' \in {listing, IF RunOver THEN listing ELSE doneAt}
    /\ phase' = "idle" /\ window' = {}
    /\ UNCHANGED <<clock, worldVars, shape, members, lastGrowth, storeVars, renderNow, fetched, publishedVars, lost, faults>>

-----------------------------------------------------------------------------

Init ==
    /\ clock = 1
    /\ visible = [t \in Traces |-> {}] /\ session = {}
    /\ doneAt = [j \in Jobs |-> 0] /\ aged = {}
    /\ shape = [t \in Traces |-> NoShape]
    /\ members = {} /\ lastGrowth = 0
    /\ activity = Unknown /\ listing = [j \in Jobs |-> 0]
    /\ stored = [rows |-> [t \in Traces |-> {}], failed |-> {}]
    /\ seeded = FALSE
    /\ phase = "idle" /\ renderNow = 0 /\ window = {} /\ fetched = {}
    /\ published = [j \in Jobs |-> Unpublished] /\ runPublished = 0
    /\ lost = FALSE /\ faults = 0

Next ==
    \/ \E t \in Traces : SpanVisible(t) \/ AgesOut(t) \/ Evict(t)
    \/ \E j \in Jobs : JobDone(j)
    \/ Tick \/ Restart \/ BeginRender \/ Fetch \/ ResourceRecordsFail \/ Publish \/ EmptyWindow \/ AskActivity

Spec == Init /\ [][Next]_rollupsVars

-----------------------------------------------------------------------------
(* Correctness *)

\* What was published of a run never decays, though its traces leave the window,
\* the caches drop them and the exporter restarts: no total falls and no red
\* job turns green, as long as what was read could be merged into the store.
NeverDecays ==
    ~lost =>
        /\ runPublished' >= runPublished
        /\ \A j \in Jobs : /\ published'[j].total >= published[j].total
                           /\ published[j].failed > 0 => published'[j].failed > 0
PublishedKept == [][NeverDecays]_rollupsVars

\* A job published ahead of its run shows all there is of every trace it
\* counts, and is red exactly when GitHub says it failed.
EarlyResultsFinal ==
    \A j \in Jobs : published[j].early /\ published[j].of # {} =>
        /\ \A t \in published[j].of : AllVisible(t)
        /\ published[j].total >= MapThenSumSet(LAMBDA t : Cardinality(Tests[t]), published[j].of)
        /\ (published[j].failed > 0) = Fails(j)

\* What the docstring of settled_runs_complete_extracted says: "Runs still
\* ingesting are skipped", GitHub's word being authoritative when there is one.
\* The gate reads what an earlier render was told, and forgets it after ActiveTtl.
NotReleasedWhileActive ==
    [][phase = "merging" /\ phase' = "activity" /\ Released => ~activity.active]_rollupsVars

=============================================================================
