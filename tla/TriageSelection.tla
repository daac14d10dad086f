--------------------------- MODULE TriageSelection ---------------------------
(***************************************************************************)
(* The groups a nightly run dispatches when there are more than            *)
(* --max-groups: a rotation over the categories of failure, with a random  *)
(* draw in each (agentic/integration_failure_triage.py,                    *)
(* select_dispatch_targets with mix_categories).                           *)
(***************************************************************************)
EXTENDS Integers, Sequences, FiniteSets, FiniteSetsExt

CONSTANTS
    Categories,
    MaxPool,        \* bound: groups in the pool
    MaxGroups       \* --max-groups

VARIABLES
    pool,           \* the groups in order of priority: [category, flaky]
    rotation,       \* categories by their best group's priority
    turn,           \* whose turn it is
    chosen          \* indices drawn so far

selectionVars == <<pool, rotation, turn, chosen>>

\* Groups of a category, by index.
Members(c) == {i \in DOMAIN pool : pool[i].category = c}
Left(c) == Members(c) \ chosen

-----------------------------------------------------------------------------

\* A run has more groups than it may dispatch.
ReadPool ==
    /\ pool = <<>>
    /\ \E n \in (MaxGroups + 1)..MaxPool :
          pool' \in [1..n -> [category : Categories, flaky : BOOLEAN]]
    /\ LET found == {pool'[i].category : i \in DOMAIN pool'}
           best(c) == Min({i \in DOMAIN pool' : pool'[i].category = c}) IN
       rotation' = CHOOSE order \in [1..Cardinality(found) -> found] :
                      \A i, j \in DOMAIN order : i < j => best(order[i]) < best(order[j])
    /\ turn' = 1
    /\ UNCHANGED chosen

\* Mutant of Drawable: the draw does not look at upstream's verdict.
DrawableAny(c) == Left(c)

\* A group upstream called flaky goes last in its category.
Drawable(c) ==
    LET steady == {i \in Left(c) : ~pool[i].flaky} IN
    IF steady # {} THEN steady ELSE Left(c)

Full == Cardinality(chosen) = MaxGroups

NextTurn == (turn % Len(rotation)) + 1

Draw ==
    /\ pool # <<>> /\ ~Full
    /\ \E i \in Drawable(rotation[turn]) : chosen' = chosen \union {i}
    /\ turn' = NextTurn
    /\ UNCHANGED <<pool, rotation>>

\* A category with nothing left drops out.
Skip ==
    /\ pool # <<>> /\ ~Full
    /\ Left(rotation[turn]) = {}
    /\ turn' = NextTurn
    /\ UNCHANGED <<pool, rotation, chosen>>

Init ==
    /\ pool = <<>> /\ rotation = <<>> /\ turn = 0 /\ chosen = {}

Next == ReadPool \/ Draw \/ Skip

Spec == Init /\ [][Next]_selectionVars

-----------------------------------------------------------------------------
(* Correctness *)

Drawn(c) == Cardinality(Members(c) \intersect chosen)

\* A category gets a second slot only when every other has had its first or has
\* nothing left, and so on; a better one never has fewer than a worse one of as
\* many; and no flaky group takes the slot of a steady one of its category.
VarietyDrawn ==
    /\ \A c, d \in Categories : Drawn(d) > Drawn(c) + 1 => Left(c) = {}
    /\ \A i, j \in DOMAIN rotation :
          i < j /\ Left(rotation[i]) # {} => Drawn(rotation[i]) >= Drawn(rotation[j])
    /\ \A i \in chosen, j \in DOMAIN pool \ chosen :
          pool[i].category = pool[j].category /\ pool[i].flaky => pool[j].flaky

=============================================================================
