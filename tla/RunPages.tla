------------------------------ MODULE RunPages ------------------------------
(***************************************************************************)
(* A CI run's page on the dashboards (otel/trace_exporter.py, _serve_run): *)
(* the open page asks again every 30 seconds while its last answer said    *)
(* the run is live, and never again once one said it is not.  An answer    *)
(* joins three views of the run that move apart: the rows the exporter has *)
(* read (a file that grows with every render, behind a cache), the counts  *)
(* the collector keeps, and GitHub's word that the run is over.            *)
(***************************************************************************)
EXTENDS Naturals, FiniteSets

CONSTANTS
    Failures,           \* failing tests, each in a trace of its own
    Viewers,
    Matches,            \* per viewer: the failures of the page's hardware filter
    ActiveTtl, DoneTtl, \* _RUN_ROWS_ACTIVE_CACHE_TTL_SECONDS, _RUN_ROWS_CACHE_TTL_SECONDS
    CountsTtl,          \* _LIVE_COUNTS_TTL_SECONDS
    Recent,             \* the [30m] of the live query
    Delay,              \* assumption: a trace that arrives at all is read so long after its count
    Retention,          \* _run_store_retention_seconds
    MaxTime, MaxFaults  \* bounds on the exploration

VARIABLES
    clock,
    over,               \* GitHub: the run is over
    counted, movedAt,   \* otelcol: failures counted, and when a count last moved
    status,             \* ci_github_run_status as scraped: running or completed
    dropped,            \* traces that never reach Tempo whole
    readable,           \* traces Tempo has
    members,            \* _run_members and the caches behind it
    active,             \* _active_run_ids has the run
    file, fileAt,       \* the run store's file: rows and mtime; NoFile when there is none
    rowsCache,          \* _run_rows_cache
    countsCache,        \* _live_counts_cache, per viewer's filter
    page,               \* per viewer: polling, gathered or stopped
    shown,              \* rows in the page, or in the answer being built
    pollAt,
    answered,           \* history: counts the page's last answer was built from
    faults

vars == <<clock, over, counted, movedAt, status, dropped, readable, members, active, file,
          fileAt, rowsCache, countsCache, page, shown, pollAt, answered, faults>>
world == <<over, counted, movedAt, status, dropped, readable>>
exporter == <<members, active, file, fileAt, rowsCache, countsCache>>
viewers == <<page, shown, pollAt, answered>>

NoFile == [none |-> TRUE]
NoCounts == [known |-> FALSE, failures |-> 0, recent |-> FALSE, status |-> "unknown"]
NoEntry == [at |-> 0, rows |-> {}, held |-> FALSE]
NoCountsEntry == [at |-> 0, counts |-> NoCounts, held |-> FALSE]

Init ==
    /\ clock = 1
    /\ over = FALSE /\ counted = {} /\ movedAt = 1 /\ status = "running"
    /\ dropped = {} /\ readable = {}
    /\ members = {} /\ active = TRUE
    /\ file = NoFile /\ fileAt = 0
    /\ rowsCache = NoEntry
    /\ countsCache = [v \in Viewers |-> NoCountsEntry]
    /\ page = [v \in Viewers |-> "polling"]
    /\ shown = [v \in Viewers |-> {}]
    /\ pollAt = [v \in Viewers |-> 1]
    /\ answered = [v \in Viewers |-> NoCounts]
    /\ faults = 0

(***************************************************************************)
(* The run, the collector and Prometheus.                                  *)
(***************************************************************************)
Fail(f) ==
    /\ ~over /\ f \notin counted
    /\ counted' = counted \cup {f} /\ movedAt' = clock
    /\ \/ dropped' = dropped \cup {f} /\ faults < MaxFaults /\ faults' = faults + 1
       \/ UNCHANGED <<dropped, faults>>
    /\ UNCHANGED <<clock, over, status, readable>> /\ UNCHANGED exporter /\ UNCHANGED viewers

Arrive(f) ==
    /\ f \in counted \ (dropped \cup readable)
    /\ readable' = readable \cup {f}
    /\ UNCHANGED <<clock, over, counted, movedAt, status, dropped, faults>>
    /\ UNCHANGED exporter /\ UNCHANGED viewers

Finish ==
    /\ ~over /\ over' = TRUE
    /\ UNCHANGED <<clock, counted, movedAt, status, dropped, readable, faults>>
    /\ UNCHANGED exporter /\ UNCHANGED viewers

ScrapeStatus ==
    /\ over /\ status = "running" /\ status' = "completed"
    /\ UNCHANGED <<clock, over, counted, movedAt, dropped, readable, faults>>
    /\ UNCHANGED exporter /\ UNCHANGED viewers

(* The assumption on the pipeline: what was counted Delay ago, and was not *)
(* dropped, has been read and stored.  A request takes less than a tick.   *)
Stored == IF file = NoFile THEN {} ELSE file.rows
Tick ==
    /\ clock < MaxTime /\ \A v \in Viewers : page[v] # "gathered"
    /\ clock < movedAt + Delay \/ counted \subseteq dropped \cup Stored
    /\ clock' = clock + 1
    /\ UNCHANGED world /\ UNCHANGED exporter /\ UNCHANGED viewers /\ UNCHANGED faults

(***************************************************************************)
(* The exporter's render: it reads the traces it lacks, and persist_run_rows *)
(* adds their rows to the file; it also learns whether GitHub is done.     *)
(***************************************************************************)
Merged(rows) == Stored \cup rows

Render(read) ==
    /\ read \subseteq readable \ members
    /\ read # {} => clock <= movedAt + Retention   \* the window is shorter still
    /\ \/ read = readable \ members /\ UNCHANGED faults
       \/ read # readable \ members /\ faults < MaxFaults /\ faults' = faults + 1
    /\ members' = members \cup read
    /\ active' = ~over
    /\ IF read \subseteq Stored THEN UNCHANGED <<file, fileAt>>
       ELSE file' = [rows |-> Merged(read)] /\ fileAt' = clock
    /\ <<members, active>> # <<members', active'>>
    /\ UNCHANGED <<clock, rowsCache, countsCache>> /\ UNCHANGED world /\ UNCHANGED viewers

Prune ==
    /\ file # NoFile /\ clock > fileAt + Retention
    /\ file' = NoFile /\ fileAt' = 0
    /\ UNCHANGED <<clock, members, active, rowsCache, countsCache, faults>>
    /\ UNCHANGED world /\ UNCHANGED viewers

Restart ==
    /\ faults < MaxFaults /\ faults' = faults + 1
    /\ members' = {} /\ active' = FALSE
    /\ rowsCache' = NoEntry /\ countsCache' = [v \in Viewers |-> NoCountsEntry]
    /\ page' = [v \in Viewers |-> IF page[v] = "gathered" THEN "polling" ELSE page[v]]
    /\ UNCHANGED <<clock, file, fileAt, shown, pollAt, answered>> /\ UNCHANGED world

(***************************************************************************)
(* One request of a page: gather_run_test_rows, then live_test_counts and  *)
(* run_is_active for the answer.                                           *)
(***************************************************************************)
RowsTtl == IF active THEN ActiveTtl ELSE DoneTtl
RowsHit == rowsCache.held /\ clock - rowsCache.at < RowsTtl

(* With no file the rows come from Tempo, and a failed read leaves its rows out. *)
Reconstructed == IF members # {} THEN SUBSET members ELSE SUBSET readable

Gather(v) ==
    /\ page[v] = "polling" /\ clock >= pollAt[v]
    /\ page' = [page EXCEPT ![v] = "gathered"]
    /\ \/ /\ RowsHit
          /\ shown' = [shown EXCEPT ![v] = rowsCache.rows]
          /\ UNCHANGED rowsCache
       \/ /\ ~RowsHit
          /\ \E rows \in IF file = NoFile THEN Reconstructed ELSE {Stored} :
                /\ shown' = [shown EXCEPT ![v] = rows]
                /\ rowsCache' = [at |-> clock, rows |-> rows, held |-> TRUE]
    /\ UNCHANGED <<clock, members, active, file, fileAt, countsCache, pollAt, answered, faults>>
    /\ UNCHANGED world

Asked(v) ==
    [known |-> TRUE, failures |-> Cardinality(counted \cap Matches[v]),
     recent |-> clock - movedAt < Recent, status |-> status]
CountsHit(v) == countsCache[v].held /\ clock - countsCache[v].at < CountsTtl

Known(v) == Cardinality(shown[v])
\* Mutant of Pending: waits for what was counted however long ago that was.
PendingForever(v, counts) == counts.known /\ counts.failures > Known(v)
Pending(v, counts) == counts.known /\ counts.recent /\ counts.failures > Known(v)
\* Mutant of Live: the run's state alone keeps the page polling.
LiveByStatus(v, counts) ==
    counts.status = "running" \/ (active /\ counts.status # "completed")
Live(v, counts) ==
    \/ counts.status = "running"
    \/ Pending(v, counts)
    \/ active /\ counts.status # "completed"

Answer(v) ==
    /\ page[v] = "gathered"
    /\ \E counts \in {Asked(v), NoCounts, countsCache[v].counts} :
          /\ IF CountsHit(v) THEN counts = countsCache[v].counts /\ UNCHANGED <<countsCache, faults>>
             ELSE /\ counts \in {Asked(v), NoCounts}
                  /\ counts = NoCounts => faults < MaxFaults
                  /\ faults' = faults + (IF counts = NoCounts THEN 1 ELSE 0)
                  /\ countsCache' = [countsCache EXCEPT ![v] =
                                       [at |-> clock, counts |-> counts, held |-> TRUE]]
          /\ answered' = [answered EXCEPT ![v] = counts]
          /\ page' = [page EXCEPT ![v] = IF Live(v, counts) THEN "polling" ELSE "stopped"]
          /\ pollAt' = [pollAt EXCEPT ![v] = clock + 1]
    /\ UNCHANGED <<clock, members, active, file, fileAt, rowsCache, shown>> /\ UNCHANGED world

Next ==
    \/ Tick \/ Finish \/ ScrapeStatus \/ Prune \/ Restart
    \/ \E f \in Failures : Fail(f) \/ Arrive(f)
    \/ \E read \in SUBSET Failures : Render(read)
    \/ \E v \in Viewers : Gather(v) \/ Answer(v)

Spec == Init /\ [][Next]_vars
-----------------------------------------------------------------------------
(* A page that stopped on an answer Prometheus had a part in lists every   *)
(* failing test of the run that is or ever comes on file: it did not stop  *)
(* between the end of the run and the arrival of its last failures,        *)
(* however old the rows and counts it was answered from                    *)
(* (otel/trace_exporter.py, _serve_run).                                   *)
StopsComplete ==
    \A v \in Viewers :
        page[v] = "stopped" /\ answered[v].known => Stored \subseteq shown[v]

(* A page stops, even when the failures it counts never arrive: half an    *)
(* hour after the counts last moved no answer about a finished run is live.*)
StopsInTime ==
    \A v \in Viewers :
        page[v] = "polling" /\ answered[v].status = "completed"
            => pollAt[v] <= movedAt + Recent + CountsTtl

(* "Keep polling while the live stream is ahead and still moving, even     *)
(* once the run is over, or it would stop before its failures arrive", for *)
(* the failures the page is filtered to.                                   *)
FilteredStopsComplete ==
    \A v \in Viewers :
        page[v] = "stopped" /\ answered[v].known /\ answered[v].recent
            => Cardinality(shown[v] \cap Matches[v]) >= answered[v].failures
=============================================================================
