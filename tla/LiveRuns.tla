------------------------------- MODULE LiveRuns -------------------------------
(***************************************************************************)
(* Which runs and jobs the dashboards show as still going                  *)
(* (otel/trace_exporter.py, extract_run_active_metrics): a render asks     *)
(* GitHub about the newest run of each pull request and the newest branch  *)
(* runs, many at once, through a cache that all attempts of a run share;   *)
(* a jobs listing is read page by page while the jobs go on.               *)
(***************************************************************************)
EXTENDS Naturals, FiniteSets

CONSTANTS
    Runs,           \* run ids, records [db, attempt]
    Jobs,           \* each run's GitHub jobs in listing order; a job is its logical name
    Branch,         \* runs of a branch; the others are of one pull request
    BranchRuns,     \* active_branch_runs
    PageSize, Pages,        \* per_page, DEFAULT_ACTIVE_JOBS_PAGES
    ActiveTtl, DoneTtl,     \* active_cache_ttl_seconds, github_cache_ttl_seconds
    Lookback,       \* active_lookback_seconds
    MaxTime, MaxFailures    \* bounds on the exploration

VARIABLES
    clock,
    newest,         \* window: newest span of each run, 0 when it has none
    done,           \* GitHub: completed jobs of each attempt, by place
    overSince,      \* GitHub: when each workflow run was over, 0 while it goes on
    activity,       \* _cached_run_activity: one entry for all attempts of a run
    states,         \* _run_job_states: attempt and jobs seen completed, of the last complete listing
    pass,           \* idle, prefetch, serial
    pending,        \* runs the pass still looks up
    lookup,         \* each lookup under way: page to read, status and jobs read so far
    answers,        \* what the serial pass got for each run
    shown,          \* _active_run_ids and the jobs shown with them
    failures

worldVars == <<newest, done, overSince>>
cacheVars == <<activity, states>>
passVars == <<pass, pending, lookup, answers>>
liveRunsVars == <<clock, worldVars, cacheVars, passVars, shown, failures>>

Places(r) == DOMAIN Jobs[r]
Dbs == {r.db : r \in Runs}
Name(r, place) == Jobs[r][place]
NoActivity == [active |-> FALSE, jobs |-> {}, at |-> 0]
NoLookup == [page |-> 0, at |-> 0, active |-> FALSE, going |-> {}, finished |-> {}]
NoAnswer == [active |-> FALSE, jobs |-> {}, failed |-> FALSE, asked |-> 0]
Held(db) == activity[db].at # 0

-----------------------------------------------------------------------------
(* GitHub, the window and time *)

LatestAttempt(r) == \A other \in Runs : other.db = r.db => other.attempt <= r.attempt
Begun(r) == newest[r] # 0

\* An attempt begins when the one before it is over; its spans show it in the window.
AttemptBegins(r) ==
    /\ pass = "idle" /\ ~Begun(r)
    /\ \A other \in Runs :
          other.db = r.db /\ other.attempt < r.attempt => Begun(other) /\ done[other] = Places(other)
    /\ newest' = [newest EXCEPT ![r] = clock]
    /\ overSince' = [overSince EXCEPT ![r.db] = 0]
    /\ UNCHANGED <<clock, done, cacheVars, passVars, shown, failures>>

JobCompletes(r) ==
    /\ Begun(r) /\ pass # "serial"
    /\ \E place \in Places(r) \ done[r] :
          done' = [done EXCEPT ![r] = @ \union {place}]
    /\ overSince' = IF done'[r] = Places(r) THEN [overSince EXCEPT ![r.db] = clock] ELSE overSince
    /\ UNCHANGED <<clock, newest, cacheVars, passVars, shown, failures>>

Tick ==
    /\ clock < MaxTime
    /\ clock' = clock + 1
    /\ UNCHANGED <<worldVars, cacheVars, passVars, shown, failures>>

\* status of the workflow run: of its latest attempt, whatever attempt asks.
RunActive(db) == overSince[db] = 0

-----------------------------------------------------------------------------
(* fetch_github_run_activity_cached *)

\* Mutant of Ttl: one time to live for active and finished runs.
TtlOneForAll(entry) == DoneTtl
Ttl(entry) == IF entry.active THEN ActiveTtl ELSE DoneTtl
Fresh(db) == Held(db) /\ clock - activity[db].at < Ttl(activity[db])

Answer(entry, failed, asked) == [active |-> entry.active, jobs |-> entry.jobs, failed |-> failed, asked |-> asked]

CanLookUp(r) ==
    /\ pass # "idle" /\ r \in pending /\ lookup[r] = NoLookup
    /\ pass = "serial" => \A other \in Runs : lookup[other] = NoLookup

Answered(r, answer) ==
    /\ pending' = pending \ {r}
    /\ answers' = IF pass = "serial" THEN [answers EXCEPT ![r] = answer] ELSE answers

CacheHit(r) ==
    /\ CanLookUp(r) /\ Fresh(r.db)
    /\ Answered(r, Answer(activity[r.db], FALSE, clock))
    /\ UNCHANGED <<clock, worldVars, cacheVars, pass, lookup, shown, failures>>

Stored(r, entry) ==
    /\ activity' = [activity EXCEPT ![r.db] = entry]
    /\ Answered(r, Answer(entry, FALSE, entry.at))
    /\ lookup' = [lookup EXCEPT ![r] = NoLookup]

\* The first request: a run that is over has no jobs to ask about.
ReadStatus(r) ==
    /\ CanLookUp(r) /\ ~Fresh(r.db)
    /\ IF RunActive(r.db)
       THEN /\ lookup' = [lookup EXCEPT ![r] = [NoLookup EXCEPT !.page = 1, !.at = clock, !.active = TRUE]]
            /\ UNCHANGED <<activity, pending, answers>>
       ELSE Stored(r, [NoActivity EXCEPT !.at = clock])
    /\ UNCHANGED <<clock, worldVars, states, pass, shown, failures>>

OfPage(r, n) == {place \in Places(r) : (n - 1) * PageSize < place /\ place <= n * PageSize}
LastPage(r, n) == Cardinality(OfPage(r, n)) < PageSize
\* Mutant of ListedAll: the pages read are taken for all there are.
ListedAllAlways(r, n) == TRUE
ListedAll(r, n) == LastPage(r, n)

\* One page of the attempt's jobs; only a complete listing is kept as the run's states.
ReadPage(r) ==
    /\ lookup[r].page # 0
    /\ LET l == lookup[r]
           going == l.going \union {Name(r, p) : p \in OfPage(r, l.page) \ done[r]}
           finished == (l.finished \union {Name(r, p) : p \in OfPage(r, l.page)}) \ going
       IN  IF LastPage(r, l.page) \/ l.page = Pages
           THEN /\ Stored(r, [active |-> l.active, jobs |-> going, at |-> l.at])
                /\ states' = IF ListedAll(r, l.page)
                             THEN [states EXCEPT ![r.db] = [attempt |-> r.attempt, finished |-> finished]]
                             ELSE states
           ELSE /\ lookup' = [lookup EXCEPT ![r] =
                      [l EXCEPT !.page = @ + 1, !.going = going, !.finished = finished]]
                /\ UNCHANGED <<cacheVars, pending, answers>>
    /\ UNCHANGED <<clock, worldVars, pass, shown, failures>>

\* A request fails: the last value is used again, and stays as old as it is.
RequestFails(r) ==
    /\ failures < MaxFailures
    /\ failures' = failures + 1
    /\ \/ lookup[r].page # 0
       \/ CanLookUp(r) /\ ~Fresh(r.db)
    /\ Answered(r, Answer(activity[r.db], TRUE, clock))
    /\ lookup' = [lookup EXCEPT ![r] = NoLookup]
    /\ UNCHANGED <<clock, worldVars, cacheVars, pass, shown>>

-----------------------------------------------------------------------------
(* extract_run_active_metrics *)

NewestOfPr == {r \in Runs \ Branch : Begun(r) /\ \A other \in Runs \ Branch : newest[other] <= newest[r]}
NewerBranchRuns(r) == {other \in Branch : Begun(other) /\ newest[other] > newest[r]}
BranchPolled == {r \in Branch : Begun(r) /\ Cardinality(NewerBranchRuns(r)) < BranchRuns}
WithinLookback(r) == clock - newest[r] <= Lookback
\* Of traces as new as each other the last met, and the first of the sorted ones, count.
Polled == {polled \in SUBSET {r \in NewestOfPr \union BranchPolled : WithinLookback(r)} :
              /\ Cardinality(polled \ Branch) = (IF \E r \in NewestOfPr : WithinLookback(r) THEN 1 ELSE 0)
              /\ Cardinality(polled \intersect Branch)
                    = (LET all == {r \in BranchPolled : WithinLookback(r)} IN
                       IF Cardinality(all) < BranchRuns THEN Cardinality(all) ELSE BranchRuns)}

BeginPass ==
    /\ pass = "idle"
    /\ \E polled \in Polled :
          /\ polled # {}
          /\ pending' = polled
          /\ answers' = [r \in polled |-> NoAnswer]
    /\ pass' = "prefetch"
    /\ UNCHANGED <<clock, worldVars, cacheVars, lookup, shown, failures>>

\* The serial loop goes over the same runs again.
Serial ==
    /\ pass = "prefetch" /\ pending = {}
    /\ pass' = "serial"
    /\ pending' = DOMAIN answers
    /\ UNCHANGED <<clock, worldVars, cacheVars, lookup, answers, shown, failures>>

Publish ==
    /\ pass = "serial" /\ pending = {}
    /\ shown' = {[run |-> r, answer |-> answers[r]] : r \in {r \in DOMAIN answers : answers[r].active}}
    /\ pass' = "idle" /\ answers' = [r \in {} |-> NoAnswer]
    /\ UNCHANGED <<clock, worldVars, cacheVars, pending, lookup, failures>>

Init ==
    /\ clock = 1
    /\ newest = [r \in Runs |-> 0]
    /\ done = [r \in Runs |-> {}]
    /\ overSince = [db \in Dbs |-> 0]
    /\ activity = [db \in Dbs |-> NoActivity]
    /\ states = [db \in Dbs |-> [attempt |-> 0, finished |-> {}]]
    /\ pass = "idle" /\ pending = {} /\ lookup = [r \in Runs |-> NoLookup]
    /\ answers = [r \in {} |-> NoAnswer]
    /\ shown = {}
    /\ failures = 0

Next ==
    \/ Tick
    \/ BeginPass
    \/ Serial
    \/ Publish
    \/ \E r \in Runs :
          \/ AttemptBegins(r)
          \/ JobCompletes(r)
          \/ CacheHit(r)
          \/ ReadStatus(r)
          \/ ReadPage(r)
          \/ RequestFails(r)

Spec == Init /\ [][Next]_liveRunsVars

-----------------------------------------------------------------------------
\* A job the run's kept listing says is finished is finished, all its matrix
\* siblings included: what completed_job_results publishes early rests on it,
\* and GitHub gives the siblings under one logical name on several pages.
DoneMeansDone ==
    \A r \in Runs : states[r.db].attempt = r.attempt =>
        \A p \in Places(r) : Name(r, p) \in states[r.db].finished => p \in done[r]

\* A spinner stops: a run shown as going was going less than one TTL of an
\* active answer before the render asked, unless GitHub failed to answer it.
SpinnerStops ==
    [][Publish => \A s \in shown' :
          \/ s.answer.failed
          \/ RunActive(s.run.db)
          \/ s.answer.asked < overSince[s.run.db] + ActiveTtl]_liveRunsVars
===============================================================================
