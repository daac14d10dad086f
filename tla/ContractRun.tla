----------------------------- MODULE ContractRun -----------------------------
(***************************************************************************)
(* Model integration contracts (contracts/run.py, select_contracts.py): a  *)
(* change of Transformers selects the contracts whose code it can reach,   *)
(* each is run and its outputs are compared with the reviewed baseline of  *)
(* the host's platform, and the exit status says whether all is well.      *)
(* `--record' writes candidates, which a reviewer approves into the fleet. *)
(***************************************************************************)
EXTENDS Naturals, FiniteSets, Sequences

CONSTANTS
    Contracts,          \* names, in the lock's order
    CodeDirs,           \* model directories each contract's fixture runs
    Behaviours,         \* what the code of a contract may do, see Sane
    Tolerance,
    Hosts, Reference,   \* what a host is to a contract: [skip, platform, right]; the one merges rely on
    Flags,              \* what a run may be called with
    Reviewed,           \* behaviour of the first baselines
    MaxChanges, MaxRuns          \* bounds on the exploration

VARIABLES
    main,               \* merged: [code, baseline, known] for each contract
    head,               \* the same in the checkout of the change
    paths,              \* kinds of paths the change touches
    selected,           \* contracts selected, or All when nothing selects
    flags, host,
    todo,               \* contracts still to be run
    records,            \* status of each contract in this run
    red,                \* exit status
    candidates,         \* baselines written by --record, not reviewed yet
    phase,              \* idle, running, done
    changes, runs

contractVars == <<main, head, paths, selected, flags, host, todo, records, red, candidates, phase,
                  changes, runs>>

Names == {Contracts[n] : n \in DOMAIN Contracts}
Dirs == UNION {CodeDirs[c] : c \in Names}
Platforms == {h.platform : h \in Hosts}
NoBaseline == <<>>
None == "none"
NoFlags == [mode |-> "check", runAll |-> FALSE, requireAll |-> FALSE, only |-> Names]

\* A behaviour: [runs, complete, sound, exact, close]: the code finishes with a
\* record, has every required output and none that is not finite, its own
\* assertions hold; its discrete output and its numeric one. `fresh' is the
\* numeric output in a process of its own.
Sane(b) == b.complete /\ b.sound

-----------------------------------------------------------------------------
(* select_contracts.select *)

\* Mutant of Affected: a registration is taken for one of a new model only.
AffectedNoRegistry(p) == IF p.kind = "model" THEN {c \in Names : p.dir \in CodeDirs[c]}
                         ELSE IF p.kind \in {"shared", "lock"} THEN Names ELSE {}
Affected(p) ==
    CASE p.kind \in {"model", "registry"} -> {c \in Names : p.dir \in CodeDirs[c]}
      [] p.kind \in {"shared", "lock"} -> Names
      [] OTHER -> {}

\* Without the base's source a registration is any other change of shared code.
Selects(p, based) == IF p.kind = "registry" /\ ~based THEN Names ELSE Affected(p)

Paths == {[kind |-> k, dir |-> d] : k \in {"model", "registry"}, d \in Dirs}
            \union {[kind |-> k, dir |-> None] : k \in {"shared", "lock", "other"}}

-----------------------------------------------------------------------------
(* The world: changes are proposed, reviewed and merged *)

\* Code changes only where the change's paths lead, the fleet's entries only
\* where it moves the pin.
Propose ==
    /\ phase = "idle" /\ changes < MaxChanges
    /\ changes' = changes + 1
    /\ \E p \in Paths :
          /\ paths' = paths \union {p}
          /\ \/ /\ p.kind \notin {"lock", "other"}
                /\ \E c \in Names, b \in Behaviours :
                      /\ (p.kind = "shared" \/ p.dir \in CodeDirs[c])
                      /\ head' = [head EXCEPT ![c].code = b]
             \/ /\ p.kind = "lock"
                /\ \E c \in Names, k \in {"no", "whole", "match", "skip"} :
                      head' = [head EXCEPT ![c].known = k]
             \/ p.kind = "other" /\ UNCHANGED head
    /\ UNCHANGED <<main, selected, flags, host, todo, records, red, candidates, phase, runs>>

\* A reviewer takes a candidate into the snapshot, and the fleet's pin moves.
Approve(c) ==
    /\ phase = "idle" /\ candidates[c] # NoBaseline
    /\ head' = [head EXCEPT ![c].baseline[candidates[c].platform] = candidates[c]]
    /\ candidates' = [candidates EXCEPT ![c] = NoBaseline]
    /\ paths' = paths \union {[kind |-> "lock", dir |-> None]}
    /\ UNCHANGED <<main, selected, flags, host, todo, records, red, phase, changes, runs>>

ProcessGone ==
    /\ records' = [c \in Names |-> None] /\ selected' = {} /\ red' = FALSE
    /\ flags' = NoFlags /\ host' = Reference

\* The job only observes. Here a change is merged when a check of its whole
\* selection, every case required, was green on the reference host.
Merge ==
    /\ phase = "done" /\ ~red
    /\ flags.mode = "check" /\ flags.only = Names /\ flags.requireAll /\ host = Reference
    /\ main' = head
    /\ paths' = {} /\ phase' = "idle"
    /\ candidates' = [c \in Names |-> NoBaseline]
    /\ ProcessGone
    /\ UNCHANGED <<head, todo, changes, runs>>

BackToWork ==
    /\ phase = "done"
    /\ phase' = "idle"
    /\ ProcessGone
    /\ UNCHANGED <<main, head, paths, todo, candidates, changes, runs>>

-----------------------------------------------------------------------------
(* _main *)

BeginRun ==
    /\ phase = "idle" /\ runs < MaxRuns
    /\ runs' = runs + 1
    /\ flags' \in Flags /\ host' \in Hosts
    /\ \E based \in BOOLEAN :
          selected' = UNION {Selects(p, based) : p \in paths} \intersect flags'.only
    /\ todo' = SelectSeq(Contracts, LAMBDA c : c \in flags'.only /\ (c \in selected' \/ flags'.runAll))
    /\ records' = [c \in Names |-> None]
    /\ red' = FALSE
    /\ phase' = "running"
    /\ UNCHANGED <<main, head, paths, candidates, changes>>

\* compare: what a baseline holds and what was measured, both within the rules.
Within(x, y) == x <= y + Tolerance /\ y <= x + Tolerance
Skips(c) == head[c].known = "skip"
Matches(b, base, skip) == (skip \/ b.exact = base.exact) /\ Within(b.close, base.close)

\* resource_problem, and the manifest's own word; wrong_hardware.
Unsupported == host.skip # None
WrongHardware == ~host.right

\* The case's status before known failures are looked at, in the order of the checks.
Measured(c, b) ==
    LET base == head[c].baseline[host.platform]
    IN  IF Unsupported THEN "unsupported"
        ELSE IF ~b.runs THEN "error"
        ELSE IF WrongHardware \/ ~Sane(b) THEN "fail"
        ELSE IF flags.mode = "record" THEN (IF Within(b.fresh, b.close) THEN "recorded" ELSE "fail")
        ELSE IF base # NoBaseline /\ Matches(b, base, Skips(c)) THEN "pass" ELSE "fail"

\* emit: an entry of the fleet's known failures turns a failure it matches into an
\* expected one, and a pass into a failure.
Recorded(c, status, told) ==
    IF flags.mode = "record" \/ head[c].known \in {"no", "skip"} THEN status
    ELSE IF status \in {"fail", "error"} THEN (IF head[c].known = "whole" \/ told THEN "xfail" ELSE status)
    ELSE IF status = "pass" THEN "fail" ELSE status

\* Mutant of Fails: a case that gave no record is no failed comparison.
FailsComparison(status) == status = "fail"
\* A skip the manifest declares is no failure, even where all cases are required.
Fails(status) ==
    \/ status \in {"fail", "error"}
    \/ flags.requireAll /\ status = "unsupported" /\ host.skip # "declared"

\* The fixture may be missing, unreadable or not what its pin says.
FixtureUsable == BOOLEAN
\* Every line of a failure holds the text of the known failure's entry, or not.
Told == BOOLEAN

RunCase ==
    /\ phase = "running" /\ todo # <<>>
    /\ LET c == Head(todo)
           b == head[c].code
       IN  \E usable \in FixtureUsable, told \in Told :
              LET status == Recorded(c, IF usable THEN Measured(c, b) ELSE "error", told)
              IN  /\ records' = [records EXCEPT ![c] = status]
                  /\ red' = (red \/ Fails(status))
                  /\ candidates' =
                        IF status # "recorded" THEN candidates
                        ELSE [candidates EXCEPT ![c] =
                                [platform |-> host.platform, exact |-> b.exact, close |-> b.close]]
    /\ todo' = Tail(todo)
    /\ UNCHANGED <<main, head, paths, selected, flags, host, phase, changes, runs>>

\* A contract's files that differ from the pin, or any other SystemExit, end the run.
Abort ==
    /\ phase = "running" /\ todo # <<>>
    /\ todo' = <<>> /\ red' = TRUE /\ phase' = "done"
    /\ UNCHANGED <<main, head, paths, selected, flags, host, records, candidates, changes, runs>>

SelectionEmpty == selected = {} /\ ~flags.runAll
Checked == \E c \in Names : records[c] \notin {None, "unsupported"}

Finish ==
    /\ phase = "running" /\ todo = <<>>
    /\ red' = (red \/ ~(Checked \/ SelectionEmpty))
    /\ phase' = "done"
    /\ UNCHANGED <<main, head, paths, selected, flags, host, todo, records, candidates, changes, runs>>

Init ==
    /\ main = [c \in Names |->
                  [code |-> Reviewed, known |-> "no",
                   baseline |-> [p \in Platforms |-> [platform |-> p, exact |-> Reviewed.exact, close |-> Reviewed.close]]]]
    /\ head = main
    /\ paths = {} /\ selected = {} /\ todo = <<>>
    /\ flags = NoFlags /\ host = Reference
    /\ records = [c \in Names |-> None]
    /\ red = FALSE
    /\ candidates = [c \in Names |-> NoBaseline]
    /\ phase = "idle" /\ changes = 0 /\ runs = 0

Next == \/ Propose \/ Merge \/ BackToWork \/ BeginRun \/ RunCase \/ Abort \/ Finish
        \/ \E c \in Names : Approve(c)

Spec == Init /\ [][Next]_contractVars

-----------------------------------------------------------------------------
AsReviewed(c) ==
    LET b == main[c].code
        base == main[c].baseline[Reference.platform]
    IN  /\ b.runs /\ Sane(b)
        /\ base # NoBaseline /\ Matches(b, base, main[c].known = "skip")

\* Change after change, with selection, known failures and baselines that change
\* too, what is merged behaves as was reviewed wherever no known failure says
\* otherwise, although a run looks only at the contracts the change selects.
MainAsReviewed == \A c \in Names : main[c].known \in {"whole", "match"} \/ AsReviewed(c)
==============================================================================
