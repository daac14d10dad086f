---------------------------- MODULE ExporterSeries ----------------------------
(***************************************************************************)
(* The series a render makes of the traces in its window                   *)
(* (otel/trace_exporter.py, _iter_metric_lines and the extract_* groups).  *)
(* Traces grow while they are read, a render meets them in the order its   *)
(* reads end, what is high-cardinality is published for freshly read       *)
(* traces only.  Which traces of a run a group is given once the run is    *)
(* released is RunRollups' matter; here it is the window.                  *)
(***************************************************************************)
EXTENDS Naturals, FiniteSets, Sequences, SequencesExt, FiniteSetsExt

CONSTANTS
    Traces,
    Spans,          \* spans of each trace: records [kind, test, failed, start]
    RunOf, PrOf,    \* of each trace; a pull request or "main"
    ShaOf,          \* of each trace, "" when its tags have none
    RunnerOf,       \* of each trace, "" when its tags have none
    AddedBy,        \* models each commit adds
    Seed,           \* MODEL_ADDED_SEED, as records [model, sha]
    StoreRows,      \* rows of the run store: records [test, failed, mtime]
    MaxSeries,      \* PYTEST_TRACE_EXPORTER_MAIN_DURATION_MAX_SERIES
    MaxRenders, MaxFailures     \* bounds on the exploration

VARIABLES
    visible,        \* Tempo: spans of each trace that can be read
    aged,           \* traces older than the lookback
    held,           \* the shaped cache: spans each trace was last read with
    phase,          \* idle; read: the window loop is over
    previousNew,    \* _previous_new_ids
    registry,       \* _models_added: a commit for each model met
    order,          \* the traces as the last render met them
    payload,        \* the last one published
    emitted,        \* history: traces whose tests each of the last two payloads held, newest first
    fetched,        \* history: traces read by each of the last two renders
    renders, failures

seriesVars == <<visible, aged, held, phase, previousNew, registry, order, payload, emitted, fetched, renders, failures>>

-----------------------------------------------------------------------------
(* extract_trace_rows *)

Rows(t) == {s \in held[t] : s.kind = "test"}
RunFailed(t) == \E s \in held[t] : s.kind = "run" /\ s.failed
LatestStart(t) == Max({0} \union {s.start : s \in held[t]})
EndTime(t) == LatestStart(t)    \* spans last no time here
Shaped(t) == held[t] # {}

-----------------------------------------------------------------------------
(* Of the traces that say something of a key, the newest speaks: the groups  *)
(* go over the traces in the order they came, and keep one for each key.     *)

\* Mutant of Beats: the last trace met is kept.
BeatsAlways(score, kept) == TRUE
Beats(score, kept) == score >= kept

\* What is kept for each key after the traces ts; Keys(t) are t's keys, Score its standing.
Kept(ts, Keys(_), Score(_)) ==
    FoldLeft(LAMBDA kept, t :
                [k \in DOMAIN kept \union Keys(t) |->
                    IF k \in Keys(t) /\ (k \notin DOMAIN kept \/ Beats(Score(t), Score(kept[k])))
                    THEN t ELSE kept[k]],
             <<>>, ts)

\* One series for each test and status, whatever the run.
TestKeys(t) == {[test |-> s.test, failed |-> s.failed] : s \in Rows(t)}
PerTest(ts) == Kept(ts, TestKeys, LatestStart)

\* Only tests of main; a row of the run store counts by its file's time, which
\* is in seconds where a trace's is in microseconds, and the slowest are kept.
MainKeys(t) == IF PrOf[t] = "main" THEN TestKeys(t) ELSE {}
StoreKeys == {[test |-> r.test, failed |-> r.failed] : r \in StoreRows}
MainPerTest(ts) ==
    LET keys == DOMAIN Kept(ts, MainKeys, LatestStart) \union StoreKeys
    IN  {kept \in SUBSET keys :
            Cardinality(kept) = IF MaxSeries > 0 /\ Cardinality(keys) > MaxSeries
                                THEN MaxSeries ELSE Cardinality(keys)}

\* A trace's start is in microseconds: its having a commit or not tips no balance.
RunKeys(t) == IF Rows(t) # {} THEN {RunOf[t]} ELSE {}
RunInfoScore(t) == 10 * LatestStart(t) + (IF ShaOf[t] # "" THEN 1 ELSE 0)
RunInfo(ts) == LET kept == Kept(ts, RunKeys, RunInfoScore) IN [r \in DOMAIN kept |-> ShaOf[kept[r]]]

PrKeys(t) == IF PrOf[t] # "main" THEN {PrOf[t]} ELSE {}
PrInfo(ts) == Kept(ts, PrKeys, LatestStart)

\* Here alone an equally new trace does not replace the one kept.
RunnerKeys(t) == IF RunnerOf[t] # "" THEN {RunnerOf[t]} ELSE {}
RunnerHardware(ts) == Kept(Reverse(ts), RunnerKeys, LatestStart)
RunRunner(ts) == {[run |-> RunOf[t], runner |-> RunnerOf[t]] : t \in {t \in Range(ts) : RunnerOf[t] # ""}}

FailureKeys(t) == {[pr |-> PrOf[t], test |-> s.test] : s \in {s \in Rows(t) : s.failed}}
TestLastFailure(ts) == Kept(ts, FailureKeys, LatestStart)

RunExecutions(ts) == {t \in Range(ts) : Rows(t) # {}}
LatestTrace(ts) == Kept(Reverse(ts), LAMBDA t : {"latest"}, LatestStart)

\* The traces of a run are taken together; the newest run of a pull request
\* speaks for it, with the last failing test met.
TracesOf(ts, run) == {t \in Range(ts) : RunOf[t] = run /\ Rows(t) # {}}
RunEnd(ts, run) == Max({EndTime(t) : t \in TracesOf(ts, run)})
RunsOf(ts, pr) == {RunOf[t] : t \in {t \in Range(ts) : PrOf[t] = pr /\ Rows(t) # {}}}
\* Mutant of LatestRuns: any run with a failure will do.
LatestRunsAll(ts, pr) == RunsOf(ts, pr)
LatestRuns(ts, pr) == {r \in RunsOf(ts, pr) : \A other \in RunsOf(ts, pr) : RunEnd(ts, other) <= RunEnd(ts, r)}
FailingIn(ts, run) == UNION {{s.test : s \in {s \in Rows(t) : s.failed}} : t \in TracesOf(ts, run)}
PrLastFailure(ts) ==
    {[pr |-> pr, run |-> run] : pr \in {PrOf[t] : t \in Range(ts)}, run \in {RunOf[t] : t \in Range(ts)}}
        \intersect UNION {{[pr |-> pr, run |-> run] :
                               run \in {r \in LatestRuns(ts, pr) : FailingIn(ts, r) # {}}} :
                          pr \in {PrOf[t] : t \in Range(ts)}}

\* Models found at the heads of main's runs join those met before; the first entry stays.
FoundModels(ts) ==
    UNION {{[model |-> m, sha |-> ShaOf[t]] : m \in AddedBy[ShaOf[t]]} :
           t \in {t \in Range(ts) : PrOf[t] = "main" /\ ShaOf[t] # "" /\ Rows(t) # {}}}
\* Mutant of Registered: what the window shows, and nothing else.
RegisteredNow(known, found) == Seed \union found
Registered(known, found) ==
    LET all == Seed \union {f \in found : \A s \in Seed : s.model # f.model}
        old == {e.model : e \in known}
        new == {e \in all : e.model \notin old}
    IN  known \union {CHOOSE e \in new : e.model = m : m \in {e.model : e \in new}}

NoPayload == [up |-> FALSE, perTest |-> <<>>, main |-> {}, runs |-> <<>>, prs |-> <<>>, hardware |-> <<>>,
              runners |-> {}, failures |-> <<>>, lastFailure |-> {}, executions |-> {}, markers |-> {},
              latest |-> <<>>]

-----------------------------------------------------------------------------

SpanVisible(t) ==
    /\ \E s \in Spans[t] \ visible[t] : visible' = [visible EXCEPT ![t] = @ \union {s}]
    /\ UNCHANGED <<aged, held, phase, previousNew, registry, order, payload, emitted, fetched, renders, failures>>

AgesOut(t) ==
    /\ phase = "idle" /\ visible[t] = Spans[t] /\ t \notin aged
    /\ aged' = aged \union {t}
    /\ UNCHANGED <<visible, held, phase, previousNew, registry, order, payload, emitted, fetched, renders, failures>>

\* A render reads some traces of the window, for the first time or again.
ReadWindow ==
    /\ phase = "idle" /\ renders < MaxRenders
    /\ renders' = renders + 1
    /\ \E reads \in SUBSET {t \in Traces \ aged : visible[t] # held[t]} :
          /\ held' = [t \in Traces |-> IF t \in reads THEN visible[t] ELSE held[t]]
          /\ fetched' = <<reads, fetched[1]>>
    /\ order' \in SetToSeqs({t \in Traces \ aged : held'[t] # {}})
    /\ phase' = "read"
    /\ UNCHANGED <<visible, aged, previousNew, registry, payload, emitted, failures>>

Built(perTest, main, markers) ==
    [up |-> TRUE, perTest |-> PerTest(perTest), main |-> main, runs |-> RunInfo(order),
     prs |-> PrInfo(order), hardware |-> RunnerHardware(order), runners |-> RunRunner(order),
     failures |-> TestLastFailure(order), lastFailure |-> PrLastFailure(order),
     executions |-> RunExecutions(order), markers |-> markers, latest |-> LatestTrace(order)]

FreshlyRead == SelectSeq(order, LAMBDA t : t \in fetched[1] \union previousNew)

Publish ==
    /\ phase = "read"
    /\ IF order = <<>>
       THEN /\ payload' = [NoPayload EXCEPT !.up = TRUE]
            /\ emitted' = <<{}, emitted[1]>>
            /\ UNCHANGED <<previousNew, registry>>
       ELSE /\ previousNew' = fetched[1]
            /\ registry' = Registered(registry, FoundModels(order))
            /\ \E main \in MainPerTest(FreshlyRead) : payload' = Built(FreshlyRead, main, registry')
            /\ emitted' = <<Range(FreshlyRead), emitted[1]>>
    /\ phase' = "idle"
    /\ UNCHANGED <<visible, aged, held, order, fetched, renders, failures>>

Fault ==
    /\ failures < MaxFailures
    /\ failures' = failures + 1

\* fetch_resource_records raises: the payload says so, and has nothing of the window.
ResourceRecordsFail ==
    /\ phase = "read" /\ Fault
    /\ payload' = NoPayload
    /\ emitted' = <<{}, emitted[1]>>
    /\ phase' = "idle"
    /\ UNCHANGED <<visible, aged, held, previousNew, registry, order, fetched, renders>>

\* The payload cannot be written: the one before stays, the render's state too.
WriteFails ==
    /\ phase = "read" /\ order # <<>> /\ Fault
    /\ previousNew' = fetched[1]
    /\ registry' = Registered(registry, FoundModels(order))
    /\ phase' = "idle"
    /\ UNCHANGED <<visible, aged, held, order, payload, emitted, fetched, renders>>

Restart ==
    /\ phase = "idle" /\ Fault
    /\ held' = [t \in Traces |-> {}]
    /\ previousNew' = {} /\ registry' = {} /\ order' = <<>>
    /\ fetched' = <<{}, {}>>
    /\ UNCHANGED <<visible, aged, phase, payload, emitted, renders>>

Init ==
    /\ visible = [t \in Traces |-> {}] /\ held = visible /\ aged = {}
    /\ phase = "idle"
    /\ previousNew = {} /\ registry = {} /\ order = <<>>
    /\ payload = NoPayload
    /\ emitted = <<{}, {}>> /\ fetched = <<{}, {}>>
    /\ renders = 0 /\ failures = 0

Next ==
    \/ \E t \in Traces : SpanVisible(t) \/ AgesOut(t)
    \/ ReadWindow \/ Publish
    \/ ResourceRecordsFail \/ WriteFails \/ Restart

Spec == Init /\ [][Next]_seriesVars

-----------------------------------------------------------------------------
\* The trace each published series speaks of is a newest one of those that had
\* something to say, whatever order the reads ended in: two renders of the
\* same window never take turns between an old value and a new one.
SpeaksForNewest(kept, ts, Keys(_)) ==
    \A k \in DOMAIN kept : \A t \in Range(ts) :
        k \in Keys(t) => LatestStart(t) <= LatestStart(kept[k])

NewestWins ==
    [][Publish /\ order # <<>> =>
          /\ SpeaksForNewest(payload'.perTest, FreshlyRead, TestKeys)
          /\ SpeaksForNewest(payload'.prs, order, PrKeys)
          /\ SpeaksForNewest(payload'.hardware, order, RunnerKeys)
          /\ SpeaksForNewest(payload'.failures, order, FailureKeys)
          /\ SpeaksForNewest(payload'.latest, order, LAMBDA t : {"latest"})]_seriesVars

\* A pull request whose newest run is clean has no last error: no older run's
\* failure comes back while the traces of the runs are met interleaved.
CleanRunHides ==
    [][Publish /\ order # <<>> =>
          \A f \in payload'.lastFailure : \A t \in Traces :
              (t \in Range(order) /\ PrOf[t] = f.pr /\ Rows(t) # {}) =>
                  \E u \in Range(order) : RunOf[u] = f.run /\ EndTime(u) >= EndTime(t)]_seriesVars

\* A marker once published stays, with the same commit, in every later payload
\* of the window, though the run it was found at leaves: a restart forgets it.
MarkersKept ==
    [][Publish /\ order # <<>> => registry \subseteq payload'.markers]_seriesVars

\* "always lands in at least two consecutive payloads": the tests of a trace
\* read by this render or by the one before are in the payload published.
LandsTwice ==
    [][Publish => (fetched[1] \union fetched[2]) \ aged \subseteq emitted'[1]]_seriesVars
===============================================================================
