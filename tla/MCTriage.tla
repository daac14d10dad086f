------------------------------ MODULE MCTriage -------------------------------
(* The agentic triage, component by component. They share no state: a      *)
(* behaviour is one of one part, and leaves the others alone.              *)
EXTENDS Integers, FiniteSets, Sequences, TLC
CONSTANTS
    Parts,
    DispatchGroups, Limit, Retries, DispatchMaxPolls, MaxClosings,
    LedgerTests, FileOf, Variants, Window, MinDays, QuietDays, MaxRejected, OldPulls,
    LedgerMaxNights, MaxPulls, MaxTouches,
    Runners, DashboardMaxPolls,
    NightGroups, ModelOf, Clusters, Keys, NightMaxRuns, MaxIssues, NightMaxFaults,
    LivenessTests, Suites, TestsIn, LivenessMaxRuns, MaxBreaks, BaselineRuns
VARIABLES
    part,
    dispatchPhase, pending, active, toPoll, completed, accepted, failed, final, errors,
    jobIds, job, dispatchPrOpen, closings, linked, statuses, toAsk, lastKey, shown, written,
    dispatchPolls, posts,
    nights, results, ledgerPulls, ledgerPhase, listed, plan, groups, retired, touched,
    touches, doubled,
    history,
    pool, rotation, turn, chosen,
    pc, identity, forced, task, pr, status, last, dashboardPolls, issue, body,
    dashboardPrOpen, humanWork, numbered, locked, late,
    issues, nightPulls, serge, run, day, runs, faults,
    ci, broken, breaks, livenessPhase, totals, skipped

Dispatch == INSTANCE TriageDispatch WITH
    Groups <- DispatchGroups, MaxPolls <- DispatchMaxPolls,
    phase <- dispatchPhase, prOpen <- dispatchPrOpen, polls <- dispatchPolls
ASSUME DispatchAssumption == Dispatch!Bounds
dispatchVars == <<
    dispatchPhase, pending, active, toPoll, completed, accepted, failed, final, errors,
    jobIds, job, dispatchPrOpen, closings, linked, statuses, toAsk, lastKey, shown,
    written, dispatchPolls, posts>>

Ledger == INSTANCE TriageLedger WITH
    Tests <- LedgerTests, MaxNights <- LedgerMaxNights, phase <- ledgerPhase,
    pulls <- ledgerPulls
ASSUME LedgerAssumption == Ledger!Windows /\ Ledger!QuietOutlasts
ledgerVars == <<
    nights, results, ledgerPulls, ledgerPhase, listed, plan, groups, retired, touched,
    touches, doubled>>

\* One test that fails on two kinds of machine, and one commit to blame.
Grouping == INSTANCE TriageGroups WITH
    Failures <- {[test |-> 1, gpu |-> "single", mode |-> "oom"], [test |-> 1, gpu |-> "multi", mode |-> "oom"]},
    Commits <- {"c"}, Window <- 2, MinDays <- 1, MaxAge <- 2, MaxNights <- 3
groupsVars == <<history>>

\* Pools of up to five groups in two categories, three drawn.
Selection == INSTANCE TriageSelection WITH
    Categories <- {"oom", "mismatch"}, MaxPool <- 5, MaxGroups <- 3
selectionVars == <<pool, rotation, turn, chosen>>

\* Dispatchers after the same failure.
Dashboard == INSTANCE DashboardTriage WITH
    Dispatchers <- Runners, MaxPolls <- DashboardMaxPolls, prOpen <- dashboardPrOpen,
    polls <- dashboardPolls
dashboardVars == <<
    pc, identity, forced, task, pr, status, last, dashboardPolls, issue, body,
    dashboardPrOpen, humanWork, numbered, locked, late>>

Night == INSTANCE TriageNight WITH
    Groups <- NightGroups, MaxRuns <- NightMaxRuns, MaxFaults <- NightMaxFaults,
    pulls <- nightPulls
ASSUME NightAssumption == Night!Finite
nightVars == <<issues, nightPulls, serge, run, day, runs, faults>>

Liveness == INSTANCE TriageLiveness WITH
    Tests <- LivenessTests, Targets <- TestsIn, MaxRuns <- LivenessMaxRuns,
    phase <- livenessPhase
ASSUME LivenessAssumption == Liveness!Suited
livenessVars == <<ci, broken, breaks, livenessPhase, totals, skipped>>

vars == <<part, dispatchVars, ledgerVars, groupsVars, selectionVars, dashboardVars, nightVars, livenessVars>>

Init ==
    /\ part \in Parts
    /\ Ledger!Init /\ Grouping!Init /\ Dashboard!Init /\ Night!Init /\ Liveness!Init
    /\ IF part = "dispatch" THEN Dispatch!Init
       ELSE /\ dispatchPhase = 0 /\ pending = 0 /\ active = 0 /\ toPoll = 0 /\ completed = 0 /\ accepted = 0 /\ failed = 0 /\ final = 0
            /\ errors = 0 /\ jobIds = 0 /\ job = 0 /\ dispatchPrOpen = 0 /\ closings = 0 /\ linked = 0 /\ statuses = 0 /\ toAsk = 0
            /\ lastKey = 0 /\ shown = 0 /\ written = 0 /\ dispatchPolls = 0 /\ posts = 0
    /\ IF part = "selection" THEN Selection!Init
       ELSE /\ pool = 0 /\ rotation = 0 /\ turn = 0 /\ chosen = 0

Next ==
    \/ /\ part = "dispatch" /\ Dispatch!Next
       /\ UNCHANGED <<part, ledgerVars, groupsVars, selectionVars, dashboardVars, nightVars,
                      livenessVars>>
    \/ /\ part = "ledger" /\ Ledger!Next
       /\ UNCHANGED <<part, dispatchVars, groupsVars, selectionVars, dashboardVars, nightVars,
                      livenessVars>>
    \/ /\ part = "groups" /\ Grouping!Next
       /\ UNCHANGED <<part, dispatchVars, ledgerVars, selectionVars, dashboardVars, nightVars,
                      livenessVars>>
    \/ /\ part = "selection" /\ Selection!Next
       /\ UNCHANGED <<part, dispatchVars, ledgerVars, groupsVars, dashboardVars, nightVars,
                      livenessVars>>
    \/ /\ part = "dashboard" /\ Dashboard!Next
       /\ UNCHANGED <<part, dispatchVars, ledgerVars, groupsVars, selectionVars, nightVars,
                      livenessVars>>
    \/ /\ part = "night" /\ Night!Next
       /\ UNCHANGED <<part, dispatchVars, ledgerVars, groupsVars, selectionVars,
                      dashboardVars, livenessVars>>
    \/ /\ part = "liveness" /\ Liveness!Next
       /\ UNCHANGED <<part, dispatchVars, ledgerVars, groupsVars, selectionVars,
                      dashboardVars, nightVars>>

Spec == Init /\ [][Next]_vars

\* serge gets no more work than agreed, and every group dispatched is counted
\* and told of its end; a dashboard task is locked from its dispatch on.
DispatchKept ==
    /\ part = "dispatch" =>
           Dispatch!BoundedLoad /\ Dispatch!EveryGroupCounted /\ Dispatch!EndsInformed
    /\ part = "dashboard" => Dashboard!LockedFromDispatch

\* The pull requests of earlier nights stay with the groups they were for: no
\* group is dropped as covered that is not, quiet and dispatched at once, or
\* given a second pull request.
LedgerKept ==
    part = "ledger" =>
        Ledger!CoverageKept /\ Ledger!NeverQuietAndDispatched /\ Ledger!OnePullPerTest

\* Groups blame the commit the runs prove, and those drawn are of every category.
GroupsProved ==
    /\ part = "groups" => Grouping!BlameNeverBuried /\ Grouping!BracketProved
    /\ part = "selection" => Selection!VarietyDrawn

\* One tracking issue is open, and a marker in it has its row.
IssueKept == part = "night" => Night!MarkerExplained /\ Night!OneIssueOpen

\* A row that was resolved stays, and a test is skipped only on evidence.
VerdictsKept == Night!ResolvedRowKept /\ Liveness!SkippedOnEvidence

-----------------------------------------------------------------------------
(* The instance that is model-checked. *)

\* Two runs, or two dispatchers, are alike.
Alike == Permutations(Runners)

\* Two tests of a file whose group changes its fingerprint, after two pull
\* requests.
OneFile == [t \in {"t", "u"} |-> "file"]
TwoOld ==
    {<<[tests |-> {"t"}, fp |-> <<{"t", "u"}, 1>>, whole |-> FALSE],
       [tests |-> {"t", "u"}, fp |-> <<{"t", "u"}, 2>>, whole |-> TRUE]>>}

\* Two groups of a night, of which one is a cluster by commit.
TwoModels == "g" :> "m" @@ "h" :> "n"

\* The tests of a full suite, or one of them alone.
FullOrFirst == {{1, 2, 3}, {1}}
OneAndTwo == "g" :> {1} @@ "h" :> {2, 3}
==============================================================================
