---------------------------- MODULE TriageGroups ----------------------------
(***************************************************************************)
(* What the nightly triage makes of the nights it has read: the failures   *)
(* that persist, whom the CI's bisect blames for each, the groups they are *)
(* handed out in, and the commits between which a group can be proved to   *)
(* have broken (agentic/integration_failure_triage.py).                    *)
(***************************************************************************)
EXTENDS Integers, Sequences, FiniteSets, FiniteSetsExt

CONSTANTS
    Failures,       \* [test, gpu, mode] of one model: mode stands for what _group_key reads off a trace
    Commits,        \* commits a bisect may blame
    Window, MinDays,
    MaxAge,         \* --bracket-max-age-days, in nights
    MaxNights       \* bound

VARIABLE
    history         \* [produced, status, record] of each night, oldest first

NoRecord == "none"
Flaky == "flaky"
Unconverged == "other"      \* any other status, or a converged bisect without a commit
IsPinned(record) == record \in Commits

\* A job that crashed, or passed nothing, produced no usable results; a job
\* that stopped half way leaves tests out, as a skip does.
NightResults ==
    {n \in [produced : BOOLEAN,
            status : [Failures -> {"passed", "failed", "absent"}],
            record : [Failures -> {NoRecord, Flaky, Unconverged} \union Commits]] :
        /\ n.produced \/ \A f \in Failures : n.status[f] # "passed"
        /\ \A f \in Failures : n.record[f] # NoRecord => n.status[f] = "failed"}

-----------------------------------------------------------------------------
(* Which failures, and whose fault. *)

Failed(d, f) == history[d].status[f] = "failed"

\* intersect_across_days
Persistent ==
    {f \in Failures :
        Cardinality({d \in DOMAIN history : d > Len(history) - Window /\ Failed(d, f)}) >= MinDays}

\* Mutant of Replaces: the newest record wins.
ReplacesAlways(record, prev) == TRUE

Replaces(record, prev) == prev = NoRecord \/ IsPinned(record) \/ ~IsPinned(prev)

\* index_attribution_history: the record of a failure after each night.
Attribution(f) ==
    LET upTo[d \in 0..Len(history)] ==
            IF d = 0 THEN NoRecord
            ELSE LET record == history[d].record[f]  prev == upTo[d - 1] IN
                 IF record # NoRecord /\ Replaces(record, prev) THEN record ELSE prev
    IN  upTo[Len(history)]

\* lookup_attribution: the same test's pin on the other machine will do.
Blame(f) ==
    LET elsewhere == {g \in Failures : g.test = f.test /\ g.gpu # f.gpu /\ IsPinned(Attribution(g))} IN
    IF IsPinned(Attribution(f)) \/ elsewhere = {} THEN Attribution(f)
    ELSE Attribution(CHOOSE g \in elsewhere : TRUE)

\* cluster_failures: by the commit to blame, the rest apart.
InCluster(f) == IsPinned(Blame(f))
IsFlaky(f) == Blame(f) = Flaky

\* pick_targets: a group per blamed commit, and one per way of failing.
Targets ==
    {[commit |-> c, failures |-> {f \in Persistent : Blame(f) = c}] : c \in {Blame(f) : f \in {f \in Persistent : InCluster(f)}}}
    \union
    {[commit |-> NoRecord, failures |-> {f \in Persistent : ~InCluster(f) /\ f.mode = mode}] :
        mode \in {f.mode : f \in {f \in Persistent : ~InCluster(f)}}}

-----------------------------------------------------------------------------
(* Since when. *)

Usable == {d \in DOMAIN history : history[d].produced}
NoDay == 0

\* Mutant of RedSince: red nights before a green one count too.
RedSinceEver(f) == {d \in Usable : Failed(d, f)}

\* The walk back from the newest usable night stops at one that is not red.
RedSince(f) == {d \in Usable : \A e \in Usable : e >= d => Failed(e, f)}

\* find_flip and compute_bracket: the last usable night before, if it is proved
\* that the test passed then and it is not too long ago.
Bracket(f) ==
    LET earlier == {d \in Usable : d < Min(RedSince(f))} IN
    IF RedSince(f) = {} \/ earlier = {} THEN <<NoDay, NoDay>>
    ELSE LET good == Max(earlier) IN
         IF Len(history) - good <= MaxAge /\ history[good].status[f] = "passed"
         THEN <<good, Min(RedSince(f))>> ELSE <<NoDay, NoDay>>

\* attach_brackets: of a group that is neither flaky nor blamed on a commit,
\* and only if all its failures agree.
GroupBracket(t) ==
    LET brackets == {Bracket(f) : f \in t.failures} IN
    IF t.commit # NoRecord \/ (\E f \in t.failures : IsFlaky(f)) \/ Cardinality(brackets) # 1
    THEN <<NoDay, NoDay>>
    ELSE CHOOSE b \in brackets : TRUE

-----------------------------------------------------------------------------

Init == history = <<>>

NextNight ==
    /\ Len(history) < MaxNights
    /\ \E n \in NightResults : history' = Append(history, n)

Next == NextNight

Spec == Init /\ [][Next]_history

-----------------------------------------------------------------------------
(* Correctness *)

\* Every persistent failure is handed out once, with the commit some night's
\* bisect of its test blamed, on whichever machine, however old and whatever
\* was reported of it since.
BlameNeverBuried ==
    \A f \in Persistent :
        LET pins == {history[d].record[g] : d \in DOMAIN history,
                                            g \in {g \in Failures : g.test = f.test}} \intersect Commits
            mine == {t \in Targets : f \in t.failures} IN
        /\ Cardinality(mine) = 1
        /\ \A t \in mine : IF pins = {} THEN t.commit = NoRecord ELSE t.commit \in pins

\* A bracket is said only if it is true of each failure of the group: the test
\* passed on its first night, failed on its last, and every usable night since.
BracketProved ==
    \A t \in Targets :
        LET b == GroupBracket(t) IN
        b # <<NoDay, NoDay>> =>
            /\ b[1] < b[2]
            /\ \A f \in t.failures :
                  /\ history[b[1]].status[f] = "passed"
                  /\ \A d \in Usable : d > b[1] => d >= b[2] /\ Failed(d, f)

=============================================================================
