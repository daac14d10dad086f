------------------------------ MODULE MCTraces -------------------------------
(* How the exporter reads traces and publishes them, component by component. *)
(* They share no state: a behaviour is one of one part, and leaves the       *)
(* others alone.                                                            *)
EXTENDS Integers, FiniteSets, Sequences, TLC
CONSTANT Parts
VARIABLES
    part,
    cachesClock, spans, lastSpan, growth, raw, shaped, dueSince, cachesRenderNow, toFetch,
    held, served, reading, cachesPublished, reliefs,
    at, stack, slices, searchSeen, truncated, outcome,
    rollupsClock, visible, session, doneAt, aged, shape, members, lastGrowth, activity,
    listing, stored, seeded, phase, rollupsRenderNow, window, fetched, rollupsPublished,
    runPublished, lost, faults,
    liveClock, newest, done, overSince, liveActivity, states, pass, pending, lookup,
    answers, shown, liveFailures,
    seriesVisible, seriesAged, seriesHeld, seriesPhase, previousNew, registry, order,
    payload, emitted, seriesFetched, renders, failures

T(test, failed, start) == [kind |-> "test", test |-> test, failed |-> failed, start |-> start]

\* Two traces, one of them asked for, caches of one.
Caches == INSTANCE TraceCaches WITH
    Traces <- {"t", "u"}, Asked <- {"t"}, Final <- "t" :> 2 @@ "u" :> 1, Settle <- 2,
    Reverify <- 1, Refetch <- 2, MaxNew <- 1, RawMax <- 1, ShapedMax <- 1, RawSpans <- 2,
    ShapedSpans <- 2, Gap <- 1, ReadTime <- 1, MaxTime <- 3, MaxReliefs <- 1,
    clock <- cachesClock, renderNow <- cachesRenderNow, published <- cachesPublished
cachesVars == <<
    cachesClock, spans, lastSpan, growth, raw, shaped, dueSince, cachesRenderNow,
    toFetch, held, served, reading, cachesPublished, reliefs>>

\* Three traces in a window of five, two to an answer.
Search == INSTANCE TraceSearch WITH
    Traces <- {"t", "u", "v"}, Limit <- 2, MaxSlices <- 4, Window <- 5, seen <- searchSeen
searchVars == <<at, stack, slices, searchSeen, truncated, outcome>>

\* A run of one job with two traces; a test of one fails.
Rollups == INSTANCE RunRollups WITH
    Traces <- {"a", "b"}, Jobs <- {"j"}, JobOf <- "a" :> "j" @@ "b" :> "j",
    Tests <- "a" :> {1} @@ "b" :> {1}, Failing <- {<<"a", 1>>}, RunSettle <- 1,
    ActiveTtl <- 1, DoneTtl <- 3, Grace <- 1, MaxTime <- 3, MaxFaults <- 1,
    clock <- rollupsClock, renderNow <- rollupsRenderNow, published <- rollupsPublished
rollupsVars == <<
    rollupsClock, visible, session, doneAt, aged, shape, members, lastGrowth, activity,
    listing, stored, seeded, phase, rollupsRenderNow, window, fetched, rollupsPublished,
    runPublished, lost, faults>>

\* A run of two jobs, one of which is done and read while the other goes on.
Early == INSTANCE RunRollups WITH
    Traces <- {"a"}, Jobs <- {"j", "k"}, JobOf <- "a" :> "j", Tests <- "a" :> {1},
    Failing <- {<<"a", 1>>}, RunSettle <- 1, ActiveTtl <- 1, DoneTtl <- 3, Grace <- 1,
    MaxTime <- 3, MaxFaults <- 1, clock <- rollupsClock, renderNow <- rollupsRenderNow,
    published <- rollupsPublished

\* Two attempts of one run and another run; three jobs of one name.
Live == INSTANCE LiveRuns WITH
    Runs <- {[db |-> 1, attempt |-> 1], [db |-> 1, attempt |-> 2], [db |-> 2, attempt |-> 1]},
    Jobs <- [n \in {[db |-> 1, attempt |-> 1], [db |-> 1, attempt |-> 2], [db |-> 2, attempt |-> 1]} |-> IF n = [db |-> 1, attempt |-> 1] THEN <<"x", "x", "x">> ELSE <<"x">>],
    Branch <- {[db |-> 1, attempt |-> 1], [db |-> 1, attempt |-> 2]}, BranchRuns <- 1,
    PageSize <- 1, Pages <- 2, ActiveTtl <- 1, DoneTtl <- 2, Lookback <- 2, MaxTime <- 2,
    MaxFailures <- 1, clock <- liveClock, activity <- liveActivity, failures <- liveFailures
liveRunsVars == <<
    liveClock, newest, done, overSince, liveActivity, states, pass, pending, lookup,
    answers, shown, liveFailures>>

\* Three traces: two attempts of a test for one PR, and a run of main.
Series == INSTANCE ExporterSeries WITH
    Traces <- {"a", "b", "c"},
    Spans <- "a" :> {T(1, TRUE, 1), [kind |-> "run", test |-> 0, failed |-> TRUE, start |-> 1]} @@ "b" :> {T(1, FALSE, 2)} @@ "c" :> {T(1, TRUE, 3)},
    RunOf <- "a" :> "r1" @@ "b" :> "r2" @@ "c" :> "r3",
    PrOf <- "a" :> "7" @@ "b" :> "7" @@ "c" :> "main",
    ShaOf <- "a" :> "s1" @@ "b" :> "" @@ "c" :> "s3",
    RunnerOf <- "a" :> "gpu" @@ "b" :> "gpu" @@ "c" :> "",
    AddedBy <- "s1" :> {} @@ "s3" :> {"m"}, Seed <- {[model |-> "n", sha |-> "s0"]},
    StoreRows <- {[test |-> 2, failed |-> FALSE, mtime |-> 1]}, MaxSeries <- 1,
    MaxRenders <- 2, MaxFailures <- 1, visible <- seriesVisible, aged <- seriesAged,
    held <- seriesHeld, phase <- seriesPhase, fetched <- seriesFetched
seriesVars == <<
    seriesVisible, seriesAged, seriesHeld, seriesPhase, previousNew, registry, order,
    payload, emitted, seriesFetched, renders, failures>>

vars == <<part, cachesVars, searchVars, rollupsVars, liveRunsVars, seriesVars>>

Init ==
    /\ part \in Parts
    /\ Caches!Init /\ Live!Init /\ Series!Init
    /\ IF part = "early" THEN Early!Init ELSE Rollups!Init
    /\ IF part = "search" THEN Search!Init
       ELSE /\ at = 0 /\ stack = 0 /\ slices = 0 /\ searchSeen = 0 /\ truncated = 0 /\ outcome = 0

Next ==
    \/ /\ part = "caches" /\ Caches!Next
       /\ UNCHANGED <<part, searchVars, rollupsVars, liveRunsVars,
                      seriesVars>>
    \/ /\ part = "search" /\ Search!Next
       /\ UNCHANGED <<part, cachesVars, rollupsVars, liveRunsVars,
                      seriesVars>>
    \/ /\ part = "rollups" /\ Rollups!Next
       /\ UNCHANGED <<part, cachesVars, searchVars, liveRunsVars,
                      seriesVars>>
    \/ /\ part = "early" /\ Early!Next
       /\ UNCHANGED <<part, cachesVars, searchVars, liveRunsVars,
                      seriesVars>>
    \/ /\ part = "liveRuns" /\ Live!Next
       /\ UNCHANGED <<part, cachesVars, searchVars, rollupsVars,
                      seriesVars>>
    \/ /\ part = "series" /\ Series!Next
       /\ UNCHANGED <<part, cachesVars, searchVars, rollupsVars,
                      liveRunsVars>>

Spec == Init /\ [][Next]_vars

\* What is kept as final or called done is the whole of it: a trace, a search,
\* the results of a run that is still going, the runs of a branch.
AnswersWhole ==
    /\ part = "caches" => Caches!FrozenComplete
    /\ part = "search" => Search!CompleteOrTruncated
    /\ part = "early" => Early!EarlyResultsFinal
    /\ part = "liveRuns" => Live!DoneMeansDone

\* No figure goes back: rows of a trace, rollups of a run, the newest result of a
\* test, markers of a failure; a spinner that stopped stays so.
FiguresKept ==
    /\ Caches!RowsNeverShrink
    /\ [][part = "rollups" => Rollups!NeverDecays]_vars
    /\ Live!SpinnerStops
    /\ Series!NewestWins /\ Series!CleanRunHides /\ Series!MarkersKept
==============================================================================
