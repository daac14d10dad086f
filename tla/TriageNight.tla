----------------------------- MODULE TriageNight -----------------------------
(***************************************************************************)
(* The tracking issues of the integration failure triage, over the runs of *)
(* several days and over several runs of one day                           *)
(* (agentic/integration_failure_triage.py): a run carries the resolved     *)
(* rows of an earlier run of its day, finds or creates the day's issue,    *)
(* closes the others, hands its groups to Serge and refreshes the table    *)
(* while Serge works.  Runs may overlap, be killed, and lose any call.     *)
(*                                                                         *)
(* A row is [group, cell]; a row is recognised later by the model it names *)
(* alone.  The recap holds the groups whose outcome it explains.           *)
(***************************************************************************)
EXTENDS Integers, FiniteSets

CONSTANTS
    Runners,        \* processes that may run the triage
    Groups,         \* failure groups
    ModelOf,        \* group -> the model its row names first
    Clusters,       \* groups by regressing commit: they have no model of their own
    Keys,           \* days, in order: the newest day of a run's window
    MaxRuns,        \* bound: runs started
    MaxIssues,      \* bound: tracking issues ever created
    MaxFaults       \* bound: calls that fail, runs killed

NoIssue == 0

VARIABLES
    issues,         \* number -> [key, open, rows, recap]
    pulls,          \* group -> has an open pull request
    serge,          \* group -> its latest task: "none", "working", "no_fix", "error"
    run,            \* runner -> the run's own state
    day,            \* the newest day of the dataset
    runs, faults

nightVars == <<issues, pulls, serge, run, day, runs, faults>>

\* Cells of the PR column that say a group's fate.
Explained == {"no_fix", "error"}
Resolved == {"pr"} \union Explained

\* `saw`, `alone` and `clean` are history: the day's issue could be read, no other
\* run has been going on, and every closing went through.
Idle == [phase |-> "idle", key |-> 0, targets |-> {}, rows |-> {}, recap |-> {},
         issue |-> NoIssue, refused |-> {}, status |-> [g \in Groups |-> "none"],
         shown |-> <<-1, -1>>, saw |-> TRUE, alone |-> FALSE, clean |-> TRUE]

Numbers == DOMAIN issues
OpenIssues == {n \in Numbers : issues[n].open}

\* What a run keeps to itself changes; what happens to the others is over.
Local(r, new) ==
    /\ run' = [run EXCEPT ![r] = new]
    /\ UNCHANGED <<pulls, serge, day, runs>>

Faulty == /\ faults < MaxFaults /\ faults' = faults + 1

-----------------------------------------------------------------------------
(* Carrying rows over. *)

TargetModels(gs) == {ModelOf[g] : g \in gs \ Clusters}

\* Mutant of PrCell: the last cell of the row, which has been the link to the
\* task ever since the table has that column.
PrCellLast(row) == "task"

\* The cell of the PR column.
PrCell(row) == row.cell

\* The resolved rows of groups that are not this run's.
CarriedRows(body, targets) ==
    {row \in body.rows : PrCell(row) \in Resolved /\ ModelOf[row.group] \notin TargetModels(targets)}

\* Mutant of CarriedRecap: only the table is carried.
CarriedRecapNone(body, targets) == {}

CarriedRecap(body, targets) == {g \in body.recap : ModelOf[g] \notin TargetModels(targets)}

\* Open issues with the marker of this run's day; the first listed is taken.
TodaysIssues(key) == {n \in OpenIssues : issues[n].key = key}

\* Mutant of PriorIssues: looks for the marker of the run's own day.
PriorIssuesOfDay(r) == TodaysIssues(run[r].key) \ {run[r].issue}

\* Every other open issue of the triage, of whatever day.
PriorIssues(r) == OpenIssues \ {run[r].issue}

-----------------------------------------------------------------------------
(* The table. *)

Cell(w, g) ==
    IF pulls[g] THEN "pr" ELSE IF w.status[g] \in Explained THEN w.status[g] ELSE "pending"

\* The body a run renders from its groups, what it carries and what it has heard.
Rendered(w) ==
    [key |-> w.key, open |-> TRUE,
     rows |-> {[group |-> g, cell |-> Cell(w, g)] : g \in w.targets} \union w.rows,
     recap |-> {g \in w.targets : ~pulls[g] /\ w.status[g] \in Explained} \union w.recap]

\* A body replaced in place leaves the issue as open as it was.
Patched(n, w) == [issues EXCEPT ![n] = [Rendered(w) EXCEPT !.open = issues[n].open]]

-----------------------------------------------------------------------------
(* A run. *)

Start(r) ==
    /\ run[r].phase = "idle" /\ runs < MaxRuns /\ runs' = runs + 1
    /\ \E gs \in SUBSET Groups \ {{}} :
          LET others == {s \in Runners : run[s].phase # "idle"} IN
          run' = [s \in Runners |->
                    IF s = r THEN [Idle EXCEPT !.phase = "read", !.key = day, !.targets = gs,
                                               !.alone = (others = {})]
                    ELSE [run[s] EXCEPT !.alone = FALSE]]
    /\ UNCHANGED <<issues, pulls, serge, day, faults>>

\* Reads the issue of an earlier run of the day; a failure carries nothing.
ReadRows(r) ==
    LET w == [run[r] EXCEPT !.phase = "ensure"] IN
    /\ run[r].phase = "read"
    /\ \/ /\ TodaysIssues(w.key) = {}
          /\ Local(r, w)
          /\ UNCHANGED faults
       \/ /\ \E n \in TodaysIssues(w.key) :
                Local(r, [w EXCEPT !.rows = CarriedRows(issues[n], w.targets),
                                   !.recap = CarriedRecap(issues[n], w.targets)])
          /\ UNCHANGED faults
       \/ /\ Local(r, [w EXCEPT !.saw = FALSE])
          /\ Faulty
    /\ UNCHANGED issues

\* The day's issue gets the new body, or is created with it.
Ensure(r) ==
    LET w == [run[r] EXCEPT !.phase = "supersede"] IN
    /\ run[r].phase = "ensure"
    /\ \/ \E n \in TodaysIssues(w.key) :
             /\ issues' = Patched(n, w)
             /\ Local(r, [w EXCEPT !.issue = n])
       \/ /\ TodaysIssues(w.key) = {} /\ Cardinality(Numbers) < MaxIssues
          /\ LET n == Cardinality(Numbers) + 1 IN
             /\ issues' = [m \in Numbers \union {n} |-> IF m = n THEN Rendered(w) ELSE issues[m]]
             /\ Local(r, [w EXCEPT !.issue = n])
    /\ UNCHANGED faults

\* The call fails; a lost answer may have created the issue all the same.
EnsureFails(r) ==
    LET w == run[r] IN
    /\ w.phase = "ensure" /\ Faulty
    /\ \/ UNCHANGED issues
       \/ /\ TodaysIssues(w.key) = {} /\ Cardinality(Numbers) < MaxIssues
          /\ LET n == Cardinality(Numbers) + 1 IN
             issues' = [m \in Numbers \union {n} |-> IF m = n THEN Rendered(w) ELSE issues[m]]
    /\ Local(r, [w EXCEPT !.phase = "dispatch"])

\* Each is told and closed; one that cannot be closed is left to the next run.
Supersede(r) ==
    /\ run[r].phase = "supersede"
    /\ \E left \in SUBSET PriorIssues(r) :
          LET w == [run[r] EXCEPT !.phase = "dispatch", !.clean = (left = {})] IN
          /\ issues' = [n \in Numbers |-> IF n \in PriorIssues(r) \ left
                                         THEN [issues[n] EXCEPT !.open = FALSE] ELSE issues[n]]
          /\ Local(r, w)
          /\ (left # {} => faults < MaxFaults)
          /\ faults' = IF left # {} THEN faults + 1 ELSE faults

\* Some groups are accepted, the others end with an error of the dispatcher.
\* Without an issue there is nothing to reconcile.
Dispatch(r) ==
    /\ run[r].phase = "dispatch"
    /\ \E refused \in SUBSET run[r].targets :
          /\ serge' = [g \in Groups |-> IF g \in run[r].targets \ refused THEN "working"
                                        ELSE serge[g]]
          /\ run' = [run EXCEPT ![r] =
                       IF run[r].issue = NoIssue THEN Idle
                       ELSE [@ EXCEPT !.phase = "reconcile", !.refused = refused,
                                      !.status = [g \in Groups |->
                                         IF g \in refused THEN "error" ELSE "none"]]]
          /\ (refused # {} => faults < MaxFaults)
          /\ faults' = IF refused # {} THEN faults + 1 ELSE faults
    /\ UNCHANGED <<issues, pulls, day, runs>>

\* What a poll learns: Serge is asked of the groups that are not resolved yet.
Heard(r) ==
    [g \in Groups |->
       IF g \notin run[r].targets \/ g \in run[r].refused \/ pulls[g]
             \/ run[r].status[g] \in Explained
       THEN run[r].status[g] ELSE serge[g]]

Linked(w) == Cardinality({g \in w.targets : pulls[g]})
Terminal(w) == Cardinality({g \in w.targets : ~pulls[g] /\ w.status[g] \in Explained})

\* A poll writes the table when the counts changed; a failed write is not tried
\* again while they stay.  The run ends when all are resolved or its time is up.
Poll(r) ==
    LET w == [run[r] EXCEPT !.status = Heard(r)]
        counts == <<Linked(w), Terminal(w)>> IN
    /\ run[r].phase = "reconcile"
    /\ counts # w.shown
    /\ \/ issues' = Patched(w.issue, w) /\ Local(r, [w EXCEPT !.shown = counts]) /\ UNCHANGED faults
       \/ UNCHANGED issues /\ Local(r, [w EXCEPT !.shown = counts]) /\ Faulty

EndRun(r) ==
    /\ run[r].phase = "reconcile" /\ run[r].shown # <<-1, -1>>
    /\ Local(r, Idle)
    /\ UNCHANGED <<issues, faults>>

Killed(r) ==
    /\ run[r].phase # "idle" /\ Faulty
    /\ Local(r, Idle)
    /\ UNCHANGED issues

-----------------------------------------------------------------------------
(* Around the runs. *)

\* Serge ends a task: a pull request, or none with a reason.  When nobody is about
\* to look the step can wait.
SergeEnds(g) ==
    /\ serge[g] = "working"
    /\ \E r \in Runners : run[r].phase \in {"read", "ensure", "reconcile"}
    /\ \/ pulls' = [pulls EXCEPT ![g] = TRUE] /\ serge' = [serge EXCEPT ![g] = "none"]
       \/ /\ \E how \in Explained : serge' = [serge EXCEPT ![g] = how]
          /\ UNCHANGED pulls
    /\ UNCHANGED <<issues, run, day, runs, faults>>

\* The next day's report is published; only a run that starts looks.
NewDay ==
    /\ runs \in 1..(MaxRuns - 1)
    /\ day + 1 \in Keys /\ day' = day + 1
    /\ UNCHANGED <<issues, pulls, serge, run, runs, faults>>

Init ==
    /\ issues = [n \in {} |-> 0]
    /\ pulls = [g \in Groups |-> FALSE] /\ serge = [g \in Groups |-> "none"]
    /\ run = [r \in Runners |-> Idle]
    /\ day \in {d \in Keys : \A e \in Keys : d <= e}
    /\ runs = 0 /\ faults = 0

Next ==
    \/ \E r \in Runners :
          \/ Start(r) \/ ReadRows(r) \/ Ensure(r) \/ EnsureFails(r) \/ Supersede(r)
          \/ Dispatch(r) \/ Poll(r) \/ EndRun(r) \/ Killed(r)
    \/ \E g \in Groups : SergeEnds(g)
    \/ NewDay

Spec == Init /\ [][Next]_nightVars

-----------------------------------------------------------------------------
(* Correctness *)

\* A cell that says a group ended without a pull request never stands without its
\* reason, whichever run wrote the row and however often it was carried since.
MarkerExplained ==
    \A n \in Numbers : \A row \in issues[n].rows :
        row.cell \in Explained => row.group \in issues[n].recap

\* While one run at a time is going on, a resolved row stays in its day's issue
\* until a run takes up a group of the same model, unless that run could not read
\* the issue first.
ResolvedRowKept ==
    [][\A n \in Numbers : \A row \in issues[n].rows :
          row.cell \in Resolved /\ row \notin issues'[n].rows =>
             \E r \in Runners :
                /\ run[r].phase \in {"ensure", "reconcile"}
                /\ \/ ModelOf[row.group] \in TargetModels(run[r].targets)
                   \/ row.group \in run[r].targets
                   \/ ~run[r].alone
                   \/ ~run[r].saw]_nightVars

\* A run that nothing disturbed leaves no issue open but its own.
OneIssueOpen ==
    \A r \in Runners :
        run[r].phase = "reconcile" /\ run[r].alone /\ run[r].clean =>
           OpenIssues \subseteq {run[r].issue}

\* What the test "convnextv2 is in THIS run too -> its live row wins, don't
\* duplicate it" says: no table has two rows for a group.  A regression cluster
\* has no model of its own, and its carried row is not recognised.
ListedOnce ==
    \A n \in Numbers : \A row, other \in issues[n].rows : row.group = other.group => row = other

-----------------------------------------------------------------------------
(* The inductive invariant, for the proof of the first three *)

Row == [group : Groups, cell : {"pending", "pr"} \union Explained]
Issue == [key : Keys \union {0}, open : BOOLEAN, rows : SUBSET Row, recap : SUBSET Groups]
Fates == {"none", "working"} \union Explained
Run ==
    [phase : {"idle", "read", "ensure", "supersede", "dispatch", "reconcile"},
     key : Keys \union {0}, targets : SUBSET Groups, rows : SUBSET Row, recap : SUBSET Groups,
     issue : Nat, refused : SUBSET Groups, status : [Groups -> Fates], shown : Int \X Int,
     saw : BOOLEAN, alone : BOOLEAN, clean : BOOLEAN]

TypeOK ==
    /\ issues \in [Numbers -> Issue]
    /\ Cardinality(Numbers) \in Nat /\ Numbers = 1 .. Cardinality(Numbers)
    /\ pulls \in [Groups -> BOOLEAN] /\ serge \in [Groups -> Fates]
    /\ run \in [Runners -> Run] /\ day \in Keys

\* What an issue shows, or a run carries, has its reasons with it.
Reasoned(x) == \A row \in x.rows : row.cell \in Explained => row.group \in x.recap

OnePerDay == \A m, n \in OpenIssues : issues[m].key = issues[n].key => m = n

AloneTrue(r) == run[r].alone => \A s \in Runners \ {r} : run[s].phase = "idle"

\* A run has an issue of its day from its ensuring on, or goes without.
Follows(r) ==
    /\ run[r].phase \in {"idle", "read", "ensure"} => run[r].issue = NoIssue
    /\ run[r].phase = "reconcile" => run[r].issue # NoIssue
    /\ run[r].issue # NoIssue =>
          run[r].issue \in Numbers /\ issues[run[r].issue].key = run[r].key

\* A run that is alone has carried what the issue it is going to write shows ...
Carries(r) ==
    (run[r].phase = "ensure" /\ run[r].alone /\ run[r].saw) =>
        \A n \in TodaysIssues(run[r].key) :
            CarriedRows(issues[n], run[r].targets) \subseteq run[r].rows

\* ... is the last to have written it ...
Covers(r) ==
    (run[r].alone /\ run[r].issue # NoIssue) =>
        \A row \in issues[run[r].issue].rows : row.group \in run[r].targets \/ row \in run[r].rows

\* ... and has closed the others.
Swept(r) ==
    (/\ run[r].phase \in {"dispatch", "reconcile"} /\ run[r].issue # NoIssue
     /\ run[r].alone /\ run[r].clean) => OpenIssues \subseteq {run[r].issue}

Tracks(r) ==
    AloneTrue(r) /\ Reasoned(run[r]) /\ Follows(r) /\ Carries(r) /\ Covers(r) /\ Swept(r)

Tracked ==
    /\ TypeOK
    /\ \A n \in Numbers : Reasoned(issues[n])
    /\ OnePerDay
    /\ \A r \in Runners : Tracks(r)

\* The issues a step leaves: those there were, of the same days, and perhaps one more.
Kept == /\ Numbers \subseteq Numbers'
        /\ \A n \in Numbers : issues'[n].key = issues[n].key

Finite == IsFiniteSet(Groups)
=============================================================================
