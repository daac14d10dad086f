---------------------------- MODULE PublishCycle ----------------------------
(***************************************************************************)
(* The publisher of CI telemetry (publish/main.py, tempo_window.py,        *)
(* tables.py): every hour the traces of a sliding window are fetched one   *)
(* by one, their day partitions are derived again and written over in a    *)
(* staging directory, and the directory is synced to the bucket. The       *)
(* process may be killed between any two steps; a sync may stop half-way.  *)
(***************************************************************************)
EXTENDS Naturals, FiniteSets

CONSTANTS
    Traces, StartOf, RunOf,     \* a trace's start, and the run and job it belongs to
    DayLength, Window, Limit,   \* of a search: how far back, how many traces at most
    Batch,                      \* traces whose rows are buffered before a row group is written
    KeepDays,                   \* raw traces kept in staging
    Every,                      \* time between two cycles
    MaxTime, MaxFaults          \* bounds on the exploration

VARIABLES
    now,
    staging, bucket,            \* [raw, rows, rolls]: a set of traces, and a file for each day
    phase,                      \* idle, fetching, closing, rolling, syncing, pruning
    since,                      \* start of the window under way
    toFetch,                    \* traces found and not fetched yet
    buffer,                     \* day -> rows shaped and not written yet
    written,                    \* day -> rows written to a file that is still open
    rolled,                     \* traces the rollups have seen
    succeeded,                  \* ci_publisher_last_run_success
    faults

publishVars == <<now, staging, bucket, phase, since, toFetch, buffer, written, rolled, succeeded, faults>>

Day(time) == time \div DayLength
DayOf(t) == Day(StartOf[t])
Days == 0 .. Day(MaxTime)
Empty == [d \in Days |-> {}]
\* A file of rows that was opened and never closed cannot be read.
NoFile == [file |-> "none", traces |-> {}]
Torn == [file |-> "torn", traces |-> {}]

Mirror == [raw |-> {}, rows |-> [d \in Days |-> NoFile], rolls |-> Empty]

Runs == {RunOf[t] : t \in Traces}

-----------------------------------------------------------------------------
(* Time: a cycle takes less than the time between two cycles *)

Tick ==
    /\ phase = "idle" /\ now < MaxTime
    /\ now' = now + 1
    /\ UNCHANGED <<staging, bucket, phase, since, toFetch, buffer, written, rolled, succeeded, faults>>

-----------------------------------------------------------------------------
(* run_cycle *)

InWindow == {t \in Traces : StartOf[t] + Window > now /\ StartOf[t] <= now}

\* The search answers at most Limit traces of the window, the newest or not.
BeginCycle ==
    /\ phase = "idle" /\ now > 0 /\ now % Every = 0 /\ since # now
    /\ since' = now
    /\ toFetch' \in {found \in SUBSET InWindow :
                       Cardinality(found) = Limit \/ (found = InWindow /\ Cardinality(found) < Limit)}
    /\ buffer' = Empty /\ written' = Empty /\ rolled' = {}
    /\ phase' = "fetching"
    /\ succeeded' = FALSE
    /\ UNCHANGED <<now, staging, bucket, faults>>

\* The search fails every time it is tried: the cycle ends here.
SearchFails ==
    /\ phase = "idle" /\ now > 0 /\ now % Every = 0 /\ since # now /\ faults < MaxFaults
    /\ since' = now
    /\ faults' = faults + 1
    /\ succeeded' = FALSE
    /\ UNCHANGED <<now, staging, bucket, phase, toFetch, buffer, written, rolled>>

\* Opening the day's file of rows empties what was there.
Opened(d) == IF written[d] = {} THEN [staging.rows EXCEPT ![d] = Torn] ELSE staging.rows

Fetch(t) ==
    /\ phase = "fetching" /\ t \in toFetch
    /\ toFetch' = toFetch \ {t}
    /\ LET d == DayOf(t)
           rows == buffer[d] \union {t}
           full == Cardinality(rows) >= Batch
       IN  /\ buffer' = [buffer EXCEPT ![d] = IF full THEN {} ELSE rows]
           /\ written' = [written EXCEPT ![d] = IF full THEN @ \union rows ELSE @]
           /\ staging' = [staging EXCEPT !.raw = @ \union {t},
                                         !.rows = IF full THEN Opened(d) ELSE @]
    /\ rolled' = rolled \union {t}
    /\ UNCHANGED <<now, bucket, phase, since, succeeded, faults>>

\* A trace that cannot be fetched is left out.
FetchFails(t) ==
    /\ phase = "fetching" /\ t \in toFetch /\ faults < MaxFaults
    /\ faults' = faults + 1
    /\ toFetch' = toFetch \ {t}
    /\ UNCHANGED <<now, staging, bucket, phase, since, buffer, written, rolled, succeeded>>

\* Each day of which rows came is written over; the others stay as they are.
CloseRows ==
    /\ phase = "fetching" /\ toFetch = {}
    /\ staging' = [staging EXCEPT !.rows =
          [d \in Days |-> IF written[d] \union buffer[d] = {} THEN staging.rows[d]
                          ELSE [file |-> "whole", traces |-> written[d] \union buffer[d]]]]
    /\ buffer' = Empty /\ written' = Empty
    /\ phase' = "rolling"
    /\ UNCHANGED <<now, bucket, since, toFetch, rolled, succeeded, faults>>

\* A run's row goes to the day its first trace seen this time started.
SeenOf(r) == {t \in rolled : RunOf[t] = r}
RollDay(r) == Day(StartOf[CHOOSE t \in SeenOf(r) : \A u \in SeenOf(r) : StartOf[t] <= StartOf[u]])
RollRows(d) == {[run |-> r, traces |-> SeenOf(r)] : r \in {q \in Runs : SeenOf(q) # {} /\ RollDay(q) = d}}

WriteRollups ==
    /\ phase = "rolling"
    /\ staging' = [staging EXCEPT !.rolls =
          [d \in Days |-> IF RollRows(d) = {} THEN staging.rolls[d] ELSE RollRows(d)]]
    /\ phase' = "syncing"
    /\ UNCHANGED <<now, bucket, since, toFetch, buffer, written, rolled, succeeded, faults>>

-----------------------------------------------------------------------------
(* sync_to_bucket, prune_old_trace_partitions, main *)

\* The bucket keeps what is no longer in staging.
Uploaded(days, raw) ==
    [raw |-> bucket.raw \union raw,
     rows |-> [d \in Days |-> IF d \in days /\ staging.rows[d] # NoFile THEN staging.rows[d] ELSE bucket.rows[d]],
     rolls |-> [d \in Days |-> IF d \in days /\ staging.rolls[d] # {} THEN staging.rolls[d] ELSE bucket.rolls[d]]]

\* Mutant of AfterSync: what is old is pruned whatever became of the sync.
AfterSyncPrunes(failed) == "pruning"
AfterSync(failed) == IF failed THEN "idle" ELSE "pruning"

Sync ==
    /\ phase = "syncing"
    /\ bucket' = Uploaded(Days, staging.raw)
    /\ phase' = AfterSync(FALSE)
    /\ UNCHANGED <<now, staging, since, toFetch, buffer, written, rolled, succeeded, faults>>

SyncFails ==
    /\ phase = "syncing" /\ faults < MaxFaults
    /\ faults' = faults + 1
    /\ \E days \in SUBSET Days, raw \in SUBSET staging.raw : bucket' = Uploaded(days, raw)
    /\ phase' = AfterSync(TRUE)
    /\ UNCHANGED <<now, staging, since, toFetch, buffer, written, rolled, succeeded>>

Prunable(t) == DayOf(t) + KeepDays < Day(now)

Prune ==
    /\ phase = "pruning"
    /\ staging' = [staging EXCEPT !.raw = {t \in @ : ~Prunable(t)}]
    /\ phase' = "idle" /\ succeeded' = TRUE
    /\ UNCHANGED <<now, bucket, since, toFetch, buffer, written, rolled, faults>>

\* The container is killed: what was written stays, an open file stays torn.
Killed ==
    /\ phase # "idle" /\ faults < MaxFaults
    /\ faults' = faults + 1
    /\ phase' = "idle"
    /\ toFetch' = {} /\ buffer' = Empty /\ written' = Empty /\ rolled' = {}
    /\ UNCHANGED <<now, staging, bucket, since, succeeded>>

Init ==
    /\ now = 0 /\ since = 0
    /\ staging = Mirror /\ bucket = Mirror
    /\ phase = "idle" /\ toFetch = {} /\ buffer = Empty /\ written = Empty /\ rolled = {}
    /\ succeeded = FALSE /\ faults = 0

Next ==
    \/ Tick \/ BeginCycle \/ SearchFails
    \/ \E t \in Traces : Fetch(t) \/ FetchFails(t)
    \/ CloseRows \/ WriteRollups \/ Sync \/ SyncFails \/ Prune \/ Killed

Spec == Init /\ [][Next]_publishVars

-----------------------------------------------------------------------------
\* A raw trace leaves the staging directory only when the bucket holds it, and
\* what the bucket holds stays: crashes, failed syncs and pruning lose none.
TracesKept ==
    [][staging.raw \union bucket.raw \subseteq staging'.raw \union bucket'.raw]_publishVars

\* main.py: settled traces are immutable, so a day stabilises once it ages past
\* the window; data_card.py: the bucket is the long-term archive, it keeps full
\* history. Rows once published stay.
RowsStay ==
    [][\A d \in Days : bucket.rows[d].traces \subseteq bucket'.rows[d].traces]_publishVars

\* What pruning rests on: what is in staging was synced by then.
PrunedOnceSynced ==
    /\ staging \in [raw : SUBSET Traces, rows : {staging.rows}, rolls : {staging.rolls}]
    /\ bucket \in [raw : SUBSET Traces, rows : {bucket.rows}, rolls : {bucket.rolls}]
    /\ phase = "pruning" => staging.raw \subseteq bucket.raw
=============================================================================
