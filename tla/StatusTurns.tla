----------------------------- MODULE StatusTurns -----------------------------
(***************************************************************************)
(* Which of the due runs a cycle of ci-github-status gets to               *)
(* (status/reconcile.py, run_once and _refresh).  A cycle may send so many *)
(* requests; the runs it does not reach wait for the next.  It takes them  *)
(* by when each was last tried, which is kept in memory only.              *)
(***************************************************************************)
EXTENDS Naturals, Sequences, FiniteSets

CONSTANTS
    Runs,
    Cost,               \* requests each run's refresh takes: run, job pages, PR
    RequestsPerCycle,   \* requests_per_cycle, less what discovery spends
    MaxCycles           \* bound on the clock, in cycles

VARIABLES
    cycle,              \* time.time() of the cycle under way or last
    due,                \* runs_needing_reconcile
    lastRefreshed,      \* _last_refreshed, 0 for a run never tried
    queue,              \* due runs this cycle has still to try, in order
    refreshing,         \* _refresh is under way
    spent,              \* _spent
    pausedUntil,        \* stats.paused_until
    overtaken           \* history: tries of others since a due run's own, or since it is due

turnsVars == <<cycle, due, lastRefreshed, queue, refreshing, spent, pausedUntil, overtaken>>

\* A sort by when each was last tried; touched_at decides between equals.
InTurn(q) ==
    \A i, j \in DOMAIN q : i < j => lastRefreshed[q[i]] <= lastRefreshed[q[j]]

Queues == {q \in UNION {[1..n -> due] : n \in {Cardinality(due)}} :
              \A i, j \in DOMAIN q : q[i] = q[j] => i = j}

-----------------------------------------------------------------------------

\* A delivery, a listing or the horizon: a run becomes due, or is due no more.
Changes(r) ==
    /\ due' = IF r \in due THEN due \ {r} ELSE due \union {r}
    /\ overtaken' = [overtaken EXCEPT ![r] = [s \in Runs |-> 0]]
    /\ UNCHANGED <<cycle, lastRefreshed, queue, refreshing, spent, pausedUntil>>

\* A cycle that finds the pause not over does nothing.
PausedCycle ==
    /\ ~refreshing /\ cycle < MaxCycles
    /\ cycle' = cycle + 1
    /\ cycle' < pausedUntil
    /\ UNCHANGED <<due, lastRefreshed, queue, refreshing, spent, pausedUntil, overtaken>>

BeginRefresh ==
    /\ ~refreshing /\ cycle < MaxCycles
    /\ cycle' = cycle + 1
    /\ cycle' >= pausedUntil
    /\ \E q \in Queues : InTurn(q) /\ queue' = q
    /\ refreshing' = TRUE
    /\ spent' = 0
    /\ UNCHANGED <<due, lastRefreshed, pausedUntil, overtaken>>

\* Mutant of Tried: only a refresh that succeeded counts.
TriedIfRefreshed(r, refreshed) ==
    IF refreshed THEN [lastRefreshed EXCEPT ![r] = cycle] ELSE lastRefreshed

\* A run is marked tried whether its refresh succeeded, failed or found it gone.
Tried(r, refreshed) == [lastRefreshed EXCEPT ![r] = cycle]

RefreshRun ==
    /\ refreshing /\ queue # <<>>
    /\ LET r == Head(queue) IN
          /\ spent + Cost[r] <= RequestsPerCycle
          /\ spent' = spent + Cost[r]
          /\ \E refreshed \in BOOLEAN : lastRefreshed' = Tried(r, refreshed)
          /\ overtaken' = [s \in Runs |->
                IF s = r THEN [t \in Runs |-> 0]
                ELSE IF s \in due THEN [overtaken[s] EXCEPT ![r] = @ + 1] ELSE overtaken[s]]
    /\ queue' = Tail(queue)
    /\ UNCHANGED <<cycle, due, refreshing, pausedUntil>>

\* _get raises _Budget inside a refresh: the run is not marked tried.
BudgetSpent ==
    /\ refreshing /\ queue # <<>>
    /\ spent + Cost[Head(queue)] > RequestsPerCycle
    /\ refreshing' = FALSE
    /\ queue' = <<>>
    /\ spent' = RequestsPerCycle
    /\ UNCHANGED <<cycle, due, lastRefreshed, pausedUntil, overtaken>>

\* GitHub throttles, or fewer requests than the floor remain in the window.
Throttle ==
    /\ refreshing /\ queue # <<>>
    /\ refreshing' = FALSE
    /\ queue' = <<>>
    /\ pausedUntil' \in {cycle + 1, cycle + 2}
    /\ UNCHANGED <<cycle, due, lastRefreshed, spent, overtaken>>

RefreshEnds ==
    /\ refreshing /\ queue = <<>>
    /\ refreshing' = FALSE
    /\ UNCHANGED <<cycle, due, lastRefreshed, queue, spent, pausedUntil, overtaken>>

Init ==
    /\ cycle = 0
    /\ due = {}
    /\ lastRefreshed = [r \in Runs |-> 0]
    /\ queue = <<>>
    /\ refreshing = FALSE
    /\ spent = 0
    /\ pausedUntil = 0
    /\ overtaken = [r \in Runs |-> [s \in Runs |-> 0]]

Next ==
    \/ \E r \in Runs : Changes(r)
    \/ PausedCycle \/ BeginRefresh \/ RefreshRun \/ BudgetSpent \/ Throttle \/ RefreshEnds

Spec == Init /\ [][Next]_turnsVars

-----------------------------------------------------------------------------
(* Correctness *)

\* However many runs are due, however their refreshes end and wherever cycles
\* are cut short, none is tried three times while another that is due waits.
\* (Twice it may be: runs of one cycle are marked with the same time.)
TakeTurns == \A r, s \in Runs : r # s => overtaken[r][s] <= 2

-----------------------------------------------------------------------------
(* The inductive invariant, for the proof of TakeTurns *)

TypeOK ==
    /\ cycle \in Nat /\ due \subseteq Runs /\ lastRefreshed \in [Runs -> Nat]
    /\ queue \in Seq(Runs) /\ refreshing \in BOOLEAN
    /\ overtaken \in [Runs -> [Runs -> Nat]]

Queued(r) == \E i \in DOMAIN queue : queue[i] = r

\* The queue has runs of this cycle, each once, in turn, and none that was tried.
Waiting ==
    /\ ~refreshing => queue = <<>>
    /\ \A i, j \in DOMAIN queue : queue[i] = queue[j] => i = j
    /\ \A i \in DOMAIN queue : lastRefreshed[queue[i]] < cycle
    /\ \A r \in Runs : lastRefreshed[r] <= cycle
    /\ InTurn(queue)

\* What r's tries say of when it was last tried: twice means later than s, which
\* then is before it in the next queue.  Who is not in this one was not overtaken
\* by those that are.
InOrder(s, r) ==
    /\ s \notin due => overtaken[s][r] = 0
    /\ Queued(r) /\ ~Queued(s) => overtaken[s][r] = 0
    /\ overtaken[s][r] <= 2
    /\ overtaken[s][r] = 1 => lastRefreshed[r] >= lastRefreshed[s]
    /\ overtaken[s][r] = 2 => lastRefreshed[r] > lastRefreshed[s]

Taken ==
    /\ TypeOK /\ Waiting
    /\ \A s, r \in Runs : s # r => InOrder(s, r)

=============================================================================
