---------------------------- MODULE PytestPlugin ----------------------------
(***************************************************************************)
(* What the pytest plugin says of each test on its span                    *)
(* (otel/resource_plugin.py, otel/rerun_status.py): whether it failed, and,*)
(* on the last test of a class or module, the device memory the class left *)
(* behind.  A worker runs its tests in any order, pytest-rerunfailures     *)
(* runs a failed one again, the memory a failure pins goes away whenever   *)
(* it is collected, and the span status OK is final.                       *)
(***************************************************************************)
EXTENDS Naturals, Integers, Sequences, FiniteSets, FiniteSetsExt, SequencesExt

CONSTANTS
    Tests,
    ChainOf,            \* per test: the module and class around it, outermost first
    Orders,             \* the sequences of tests a worker may be handed
    Loaders, Leaky,     \* scopes that load a model, and those that never free it
    FailTeardown,       \* tests whose teardown may fail
    MaxReruns, MaxFailures  \* bounds on the exploration

VARIABLES
    queue,              \* tests still to run, the first one under way
    phase,              \* of the attempt: between, setup, call, teardown or reports
    attempt,            \* attempts of the first test so far
    outcome,            \* per phase of this attempt: passed, failed or none
    opened,             \* pytest's SetupState: the scopes set up
    held, left,         \* memory of a scope in use, and left after its teardown
    pinned,             \* memory kept by tracebacks
    entry,              \* _cuda_at_scope_entry
    failedScopes,       \* _failed_scopes
    closing,            \* _scope_closing_after: of the test under way, or NoScope
    stamp,              \* the last cuda_scope_leak_bytes put on a report
    span,               \* status of the test's span
    verdict,            \* history: the last test that ended, and its span's status
    failures

vars == <<queue, phase, attempt, outcome, opened, held, left, pinned, entry, failedScopes,
          closing, stamp, span, verdict, failures>>
memory == <<opened, held, left, pinned>>
scopes == <<entry, failedScopes, closing, stamp>>

Scopes == UNION {ToSet(ChainOf[t]) : t \in Tests}
NoScope == "none"
Absent == -1
Fresh == [setup |-> "none", call |-> "none", teardown |-> "none"]

Init ==
    /\ queue \in Orders
    /\ phase = "between" /\ attempt = 0 /\ outcome = Fresh
    /\ opened = {}
    /\ held = [s \in Scopes |-> 0] /\ left = [s \in Scopes |-> 0]
    /\ pinned = 0
    /\ entry = [s \in Scopes |-> Absent] /\ failedScopes = {} /\ closing = NoScope
    /\ stamp = [scope |-> NoScope, bytes |-> 0]
    /\ span = "unset"
    /\ verdict = [failed |-> FALSE, status |-> "ok"]
    /\ failures = 0

Allocated == MapThenSumSet(LAMBDA s : held[s] + left[s], Scopes) + pinned

Test == queue[1]
LeakScope(t) == Last(ChainOf[t])
NextChain == IF Len(queue) > 1 THEN ToSet(ChainOf[queue[2]]) ELSE {}
NextScope == IF Len(queue) > 1 THEN LeakScope(queue[2]) ELSE NoScope

(* Memory a failure pinned goes when the collector gets to it. *)
Collect ==
    /\ pinned > 0 /\ pinned' = 0
    /\ UNCHANGED <<queue, phase, attempt, outcome, opened, held, left, span, verdict, failures>>
    /\ UNCHANGED scopes

(***************************************************************************)
(* The span: pytest-opentelemetry's exception hook marks it ERROR, its     *)
(* report hook OK for a call that has not failed, and OK is final.         *)
(***************************************************************************)
Marked(status, new) == IF status = "ok" THEN "ok" ELSE new
Interacted(ok) == IF ok THEN span ELSE Marked(span, "error")

\* Whether the attempt's failed report is turned into a rerun.
Rerun == attempt <= MaxReruns /\ \E p \in DOMAIN outcome : outcome[p] = "failed"

\* Mutant of Reported: the report hook is not wrapped, a retried attempt says OK.
ReportedOk(status) ==
    IF outcome.call = "none" THEN status
    ELSE IF outcome.call = "failed" /\ ~Rerun THEN Marked(status, "error")
    ELSE Marked(status, "ok")
Reported(status) ==
    IF outcome.call = "none" THEN status
    ELSE IF outcome.call = "failed" /\ Rerun THEN "unset"
    ELSE IF outcome.call = "failed" THEN Marked(status, "error")
    ELSE Marked(status, "ok")

(***************************************************************************)
(* A phase, with the plugin's hooks around it.                             *)
(***************************************************************************)
\* Mutant of NotedFailure: a failed test does not spoil its scope.
NotedFailureNot(ok) == failedScopes
NotedFailure(ok) == IF ok THEN failedScopes ELSE failedScopes \cup {LeakScope(Test)}

Ended(name, ok) ==
    /\ outcome' = [outcome EXCEPT ![name] = IF ok THEN "passed" ELSE "failed"]
    /\ span' = Interacted(ok)
    /\ ok \/ failures < MaxFailures
    /\ failures' = failures + (IF ok THEN 0 ELSE 1)

Setup(ok) ==
    /\ phase = "between" /\ queue # <<>>
    /\ entry' = IF entry[LeakScope(Test)] = Absent
                THEN [entry EXCEPT ![LeakScope(Test)] = Allocated] ELSE entry
    /\ Ended("setup", ok)
    /\ opened' = opened \cup ToSet(ChainOf[Test])
    /\ held' = [s \in Scopes |->
                  IF s \in (opened' \ opened) \cap Loaders /\ left[s] = 0 THEN 1 ELSE held[s]]
    /\ pinned' = pinned + (IF ok THEN 0 ELSE 1)
    /\ failedScopes' = NotedFailure(ok)
    /\ attempt' = attempt + 1
    /\ phase' = IF ok THEN "call" ELSE "teardown"
    /\ UNCHANGED <<queue, left, closing, stamp, verdict>>

Call(ok) ==
    /\ phase = "call"
    /\ Ended("call", ok)
    /\ pinned' = pinned + (IF ok THEN 0 ELSE 1)
    /\ failedScopes' = NotedFailure(ok)
    /\ phase' = "teardown"
    /\ UNCHANGED <<queue, attempt, opened, held, left, entry, closing, stamp, verdict>>

\* pytest_runtest_teardown, then pytest's SetupState.teardown_exact(nextitem).
Teardown(ok) ==
    /\ phase = "teardown"
    /\ ok \/ Test \in FailTeardown
    /\ closing' = IF NextScope # LeakScope(Test) THEN LeakScope(Test) ELSE NoScope
    /\ LET gone == opened \ NextChain
       IN  /\ opened' = opened \ gone
           /\ held' = [s \in Scopes |-> IF s \in gone THEN 0 ELSE held[s]]
           /\ left' = [s \in Scopes |->
                         IF s \in gone \cap Leaky THEN left[s] + held[s] ELSE left[s]]
    /\ Ended("teardown", ok)
    /\ pinned' = pinned + (IF ok THEN 0 ELSE 1)
    /\ failedScopes' = NotedFailure(ok)
    /\ phase' = "reports"
    /\ UNCHANGED <<queue, attempt, entry, stamp, verdict>>

\* _stamp_scope_leak, from pytest_runtest_makereport of the teardown.
Stamped ==
    IF closing = NoScope \/ closing \in failedScopes \/ entry[closing] = Absent THEN stamp
    ELSE [scope |-> closing, bytes |-> Allocated - entry[closing]]

Report ==
    /\ phase = "reports"
    /\ stamp' = Stamped
    /\ entry' = IF closing = NoScope THEN entry ELSE [entry EXCEPT ![closing] = Absent]
    /\ failedScopes' = failedScopes \ {closing}
    /\ closing' = NoScope
    /\ outcome' = Fresh /\ phase' = "between"
    /\ IF Rerun
       THEN /\ span' = Reported(span)
            /\ UNCHANGED <<queue, attempt, verdict>>
       ELSE /\ queue' = Tail(queue) /\ attempt' = 0 /\ span' = "unset"
            /\ verdict' = [failed |-> outcome.setup = "failed" \/ outcome.call = "failed",
                           status |-> Reported(span)]
    /\ UNCHANGED <<opened, held, left, pinned, failures>>

Next ==
    \/ Collect \/ Report
    \/ \E ok \in BOOLEAN : Setup(ok) \/ Call(ok) \/ Teardown(ok)

Spec == Init /\ [][Next]_vars
-----------------------------------------------------------------------------
(* A class is never charged more device memory than it leaves behind: not  *)
(* what a traceback keeps alive, of its own tests or of another class's,   *)
(* and not what another class loads, whatever the order of the tests and   *)
(* however often they are run again (resource_plugin.py, scope leaks).     *)
NoFalseLeak ==
    stamp.scope # NoScope => stamp.bytes <= left[stamp.scope]

(* The status on a test's span is that of its last attempt, although OK is *)
(* final (rerun_status.py).                                                *)
StatusOfLastAttempt ==
    verdict.status = IF verdict.failed THEN "error" ELSE "ok"
=============================================================================
