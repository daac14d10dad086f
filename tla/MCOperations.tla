---------------------------- MODULE MCOperations -----------------------------
(* The parts of ci-github-status beside its merge, and what runs beside the *)
(* exporter: deployment, contracts, publisher, the pytest plugin; and the    *)
(* page of Mergeability-in-CI.  They share no state: a behaviour is one of   *)
(* one part, and leaves the others alone.                                    *)
EXTENDS Integers, FiniteSets, Sequences, TLC
CONSTANTS
    Parts,
    DiscoveredRuns, Workflows, WorkflowOf, Overlap, Grain, IndexDelay, ListingTime,
    Lookback, MaxListed, DiscoveryMaxTime,
    DueRuns, Cost, RequestsPerCycle, MaxCycles,
    RetentionTime, PublishedTime, Horizon, Redelivery, Duration, RetentionMaxClock,
    Scrapes, ScrapesMaxChanges,
    Workloads, Configs, Secrets, Consumes, Reloads, Applying, DeployFlags, MaxEdits, MaxDeploys,
    DeployMaxFaults,
    Traces, StartOf, RunOf, DayLength, Window, Limit, Batch, KeepDays, Every, PublishMaxTime,
    PublishMaxFaults,
    MicRuns, PrOf, Checks, Branches, Older
VARIABLES
    part,
    discoveryNow, created, indexed, stored, watermark, listing, left, newest, since, begun,
    lost,
    cycle, due, lastRefreshed, turnsQueue, refreshing, spent, pausedUntil, overtaken,
    clock, happened, run, job, ids, forgotten, unread,
    changes, body, fresh, worker, requested, rendering, loop, scrape, early,
    runRow, jobRow,
    chart, release, cluster, running, startedAfter, mounted, deployPhase, deployFlags, plan,
    deployQueue, broken, result, informed, mayGoBack, edits, deploys, deployFaults,
    main, head, paths, selected, contractFlags, host, todo, records, red, candidates,
    contractPhase, contractChanges, runs,
    publishNow, staging, bucket, publishPhase, publishSince, toFetch, buffer, written,
    rolled, succeeded, publishFaults,
    pluginQueue, pluginPhase, attempt, outcome, opened, held, pluginLeft, pinned, entry,
    failedScopes, closing, stamp, span, verdict, failures,
    micOutcome, micClosed, micArrived, micMain, mic, micPublished, micMisses, micPc,
    micIndex, micTotals, micLoaded, micPage

RunRows == {[id |-> 1, attempt |-> 1, rerunOf |-> 0], [id |-> 1, attempt |-> 2, rerunOf |-> 2]}
Update(status, conclusion, event, prs) ==
    [status |-> status, conclusion |-> conclusion, event |-> event, prs |-> prs]
RunUpdates == {Update("queued", "", "push", {}), Update("in_progress", "", "pull_request", {2}),
               Update("completed", "", "workflow_dispatch", {1}),
               Update("completed", "failure", "pull_request", {})}
JobUpdates == {[status |-> "queued", conclusion |-> ""], [status |-> "completed", conclusion |-> "success"],
               [status |-> "completed", conclusion |-> "failure"]}
\* What a contract's code may do: as reviewed, not run, unsound, exactly off, drifted.
Right == [runs |-> TRUE, complete |-> TRUE, sound |-> TRUE, exact |-> 0, close |-> 1, fresh |-> 1]
Behaviours == {Right, [Right EXCEPT !.runs = FALSE], [Right EXCEPT !.sound = FALSE],
               [Right EXCEPT !.exact = 1], [Right EXCEPT !.close = 3, !.fresh = 3],
               [Right EXCEPT !.close = 3]}
TheReference == [skip |-> "none", platform |-> "native", right |-> TRUE]
Checking == [mode |-> "check", runAll |-> FALSE, requireAll |-> TRUE, only |-> {"c", "k"}]

Discovery == INSTANCE StatusDiscovery WITH
    Runs <- DiscoveredRuns, MaxTime <- DiscoveryMaxTime, now <- discoveryNow
ASSUME DiscoveryAssumption == Discovery!OverlapSuffices
discoveryVars == <<
    discoveryNow, created, indexed, stored, watermark, listing, left, newest, since,
    begun, lost>>

Turns == INSTANCE StatusTurns WITH Runs <- DueRuns, queue <- turnsQueue
ASSUME TurnsAssumption == IsFiniteSet(DueRuns)
turnsVars == <<
    cycle, due, lastRefreshed, turnsQueue, refreshing, spent, pausedUntil, overtaken>>

Retention == INSTANCE StatusRetention WITH
    Retention <- RetentionTime, Published <- PublishedTime, MaxClock <- RetentionMaxClock
ASSUME RetentionAssumption == Retention!KeptLongEnough
retentionVars == <<clock, happened, run, job, ids, forgotten, unread>>

Scrape == INSTANCE StatusScrapes WITH MaxChanges <- ScrapesMaxChanges
scrapesVars == <<
    changes, body, fresh, worker, requested, rendering, loop, scrape, early>>

\* A run, its second attempt and a job of the first.
Metrics == INSTANCE StatusMetrics WITH
    Rows <- RunRows, JobRows <- {[run |-> CHOOSE r \in RunRows : r.attempt = 1, job |-> 7]},
    RunUpdates <- RunUpdates, JobUpdates <- JobUpdates
metricsVars == <<runRow, jobRow>>

Deployment == INSTANCE Deploy WITH
    Flags <- DeployFlags, MaxFaults <- DeployMaxFaults, phase <- deployPhase,
    flags <- deployFlags, queue <- deployQueue, faults <- deployFaults
ASSUME ChartAssumption == Deployment!ChartAssumption
deployVars == <<
    chart, release, cluster, running, startedAfter, mounted, deployPhase, deployFlags,
    plan, deployQueue, broken, result, informed, mayGoBack, edits, deploys, deployFaults>>

\* Two contracts that share a model directory, one host that skips and one
\* that is wrong.
Contract == INSTANCE ContractRun WITH
    Contracts <- <<"c", "k">>, CodeDirs <- "c" :> {"d"} @@ "k" :> {"d", "e"},
    Behaviours <- Behaviours, Tolerance <- 1,
    Hosts <- {TheReference, [skip |-> "hardware", platform |-> "native", right |-> TRUE], [skip |-> "none", platform |-> "plain", right |-> FALSE]},
    Reference <- TheReference,
    Flags <- {Checking, [Checking EXCEPT !.requireAll = FALSE], [Checking EXCEPT !.runAll = TRUE], [Checking EXCEPT !.mode = "record", !.only = {"c"}]},
    Reviewed <- Right, MaxChanges <- 2, MaxRuns <- 2, phase <- contractPhase,
    flags <- contractFlags, changes <- contractChanges
contractsVars == <<
    main, head, paths, selected, contractFlags, host, todo, records, red, candidates,
    contractPhase, contractChanges, runs>>

Publish == INSTANCE PublishCycle WITH
    MaxTime <- PublishMaxTime, MaxFaults <- PublishMaxFaults, now <- publishNow,
    phase <- publishPhase, since <- publishSince, faults <- publishFaults
publishVars == <<
    publishNow, staging, bucket, publishPhase, publishSince, toFetch, buffer, written,
    rolled, succeeded, publishFaults>>

\* Two tests of one class, one of another, in three orders; the first class
\* leaks.
Plugin == INSTANCE PytestPlugin WITH
    Tests <- {"a1", "a2", "b1"},
    ChainOf <- "a1" :> <<"M", "A">> @@ "a2" :> <<"M", "A">> @@ "b1" :> <<"M", "B">>,
    Orders <- {<<"a1", "a2", "b1">>, <<"b1", "a1", "a2">>, <<"a1", "b1", "a2">>},
    Loaders <- {"A", "B"}, Leaky <- {"A"}, FailTeardown <- {}, MaxReruns <- 2,
    MaxFailures <- 4, queue <- pluginQueue, phase <- pluginPhase, left <- pluginLeft
pluginVars == <<
    pluginQueue, pluginPhase, attempt, outcome, opened, held, pluginLeft, pinned, entry,
    failedScopes, closing, stamp, span, verdict, failures>>

Mic == INSTANCE MicPage WITH
    Runs <- MicRuns, outcome <- micOutcome, closed <- micClosed, arrived <- micArrived,
    main <- micMain, published <- micPublished, misses <- micMisses, pc <- micPc,
    index <- micIndex, totals <- micTotals, loaded <- micLoaded, page <- micPage
ASSUME StartsAssumption == Mic!StartsAssumption
micVars == <<
    micOutcome, micClosed, micArrived, micMain, mic, micPublished, micMisses, micPc,
    micIndex, micTotals, micLoaded, micPage>>

vars == <<part, discoveryVars, turnsVars, retentionVars, scrapesVars, metricsVars, deployVars, contractsVars, publishVars, pluginVars, micVars>>

Init ==
    /\ part \in Parts
    /\ Discovery!Init /\ Turns!Init /\ Retention!Init /\ Scrape!Init /\ Metrics!Init
    /\ Deployment!Init /\ Publish!Init /\ Mic!Init
    /\ IF part = "contracts" THEN Contract!Init
       ELSE /\ main = 0 /\ head = 0 /\ paths = 0 /\ selected = 0 /\ contractFlags = 0 /\ host = 0 /\ todo = 0 /\ records = 0
            /\ red = 0 /\ candidates = 0 /\ contractPhase = 0 /\ contractChanges = 0 /\ runs = 0
    /\ IF part = "plugin" THEN Plugin!Init
       ELSE /\ pluginQueue = 0 /\ pluginPhase = 0 /\ attempt = 0 /\ outcome = 0 /\ opened = 0 /\ held = 0 /\ pluginLeft = 0 /\ pinned = 0
            /\ entry = 0 /\ failedScopes = 0 /\ closing = 0 /\ stamp = 0 /\ span = 0 /\ verdict = 0 /\ failures = 0

Next ==
    \/ /\ part = "discovery" /\ Discovery!Next
       /\ UNCHANGED <<part, turnsVars, retentionVars, scrapesVars, metricsVars, deployVars,
                      contractsVars, publishVars, pluginVars, micVars>>
    \/ /\ part = "turns" /\ Turns!Next
       /\ UNCHANGED <<part, discoveryVars, retentionVars, scrapesVars, metricsVars,
                      deployVars, contractsVars, publishVars,
                      pluginVars, micVars>>
    \/ /\ part = "retention" /\ Retention!Next
       /\ UNCHANGED <<part, discoveryVars, turnsVars, scrapesVars, metricsVars, deployVars,
                      contractsVars, publishVars, pluginVars, micVars>>
    \/ /\ part = "scrapes" /\ Scrape!Next
       /\ UNCHANGED <<part, discoveryVars, turnsVars, retentionVars, metricsVars, deployVars,
                      contractsVars, publishVars, pluginVars, micVars>>
    \/ /\ part = "metrics" /\ Metrics!Next
       /\ UNCHANGED <<part, discoveryVars, turnsVars, retentionVars, scrapesVars, deployVars,
                      contractsVars, publishVars, pluginVars, micVars>>
    \/ /\ part = "deploy" /\ Deployment!Next
       /\ UNCHANGED <<part, discoveryVars, turnsVars, retentionVars, scrapesVars, metricsVars,
                      contractsVars, publishVars, pluginVars, micVars>>
    \/ /\ part = "contracts" /\ Contract!Next
       /\ UNCHANGED <<part, discoveryVars, turnsVars, retentionVars, scrapesVars, metricsVars,
                      deployVars, publishVars, pluginVars, micVars>>
    \/ /\ part = "publish" /\ Publish!Next
       /\ UNCHANGED <<part, discoveryVars, turnsVars, retentionVars, scrapesVars, metricsVars,
                      deployVars, contractsVars, pluginVars, micVars>>
    \/ /\ part = "plugin" /\ Plugin!Next
       /\ UNCHANGED <<part, discoveryVars, turnsVars, retentionVars, scrapesVars, metricsVars,
                      deployVars, contractsVars, publishVars, micVars>>
    \/ /\ part = "mic" /\ Mic!Next
       /\ UNCHANGED <<part, discoveryVars, turnsVars, retentionVars, scrapesVars, metricsVars,
                      deployVars, contractsVars, publishVars,
                      pluginVars>>

Spec == Init /\ [][Next]_vars

\* Every run GitHub lists is stored, gets its turn for the request budget, and
\* once forgotten does not come back half empty.
RunsSeenThrough ==
    /\ part = "discovery" => Discovery!NothingSkipped
    /\ part = "turns" => Turns!TakeTurns
    /\ part = "retention" => Retention!ForgottenForGood

\* What is reported of a run, a contract, a test or a case is what became of it, once.
ReportsTrue ==
    /\ part = "metrics" => Metrics!SeriesUnique
    /\ part = "contracts" => Contract!MainAsReviewed
    /\ part = "plugin" => Plugin!NoFalseLeak /\ Plugin!StatusOfLastAttempt
    /\ part = "mic" => Mic!ClearedByPass

\* One render at a time, each of a store no older than the last.
OneRenderInOrder == Scrape!OneRenderInOrder

\* A deployment that says it succeeded runs what was asked for, and no deployed
\* code goes back; a published trace is not lost to a later cycle, nor a cleared case.
NothingUndone ==
    /\ Deployment!SuccessIsCurrent
    /\ Deployment!CodeNeverBack
    /\ Publish!TracesKept
    /\ Mic!StickyUntilPassed /\ Mic!ClearedForGood

-----------------------------------------------------------------------------
(* Values for the instance that is checked *)

\* Three runs in two workflows, a listing cut after one.
TwoWorkflows == [r \in DiscoveredRuns |-> IF r = 1 THEN "w1" ELSE "w2"]

\* Three runs, one of which takes all the requests of a cycle.
OneTakesAll == [r \in DueRuns |-> IF r = 1 THEN 2 ELSE 1]

\* Three workloads: one restarts on its config, one reloads it, one also has a
\* Secret; a deploy with each of its options.
ThreeWorkloads == <<"tempo", "prom", "graf">>
ReadAtStart == "tempo" :> {"tc"} @@ "prom" :> {"pc"} @@ "graf" :> {"tc", "s"}
RestartOrReload == "tc" :> "restart" @@ "pc" :> "reload"
NoFlags == [noRestart |-> FALSE, restartAll |-> FALSE, rollback |-> FALSE, skip |-> {}]
OneFlagAtMost ==
    {NoFlags, [NoFlags EXCEPT !.noRestart = TRUE], [NoFlags EXCEPT !.restartAll = TRUE],
     [NoFlags EXCEPT !.skip = {"prom"}], [NoFlags EXCEPT !.rollback = TRUE]}

\* Three traces of two runs over two days; a window of a day.
ThreeStarts == "a" :> 0 @@ "b" :> 1 @@ "c" :> 3
TwoRuns == "a" :> 1 @@ "b" :> 1 @@ "c" :> 2

\* Two MIC jobs of a pull request, of one check each; the first of an older runner.
OnePullRequest == [r \in MicRuns |-> "7"]

==============================================================================
