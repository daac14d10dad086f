----------------------------- MODULE TraceSearch -----------------------------
(***************************************************************************)
(* How the exporter enumerates a window of traces through a search that    *)
(* returns at most Limit of them (otel/trace_exporter.py,                  *)
(* search_all_trace_ids): a slice that comes back full is cut in two.      *)
(***************************************************************************)
EXTENDS Naturals, Sequences, FiniteSets

CONSTANTS
    Traces,
    Limit,          \* traces a search returns at most
    MaxSlices,      \* max_slices
    Window          \* the window is [0, Window)

VARIABLES
    at,             \* Tempo: when each trace started
    stack,          \* slices [from, to) still to search, the last first
    slices,
    seen,           \* ordered
    truncated,
    outcome         \* "searching", "done", "failed"

searchVars == <<at, stack, slices, seen, truncated, outcome>>

In(from, to) == {t \in Traces : at[t] >= from /\ at[t] < to}

\* Tempo answers with any Limit of the traces of the slice.
Answers(from, to) ==
    {ids \in SUBSET In(from, to) :
        Cardinality(ids) = IF Cardinality(In(from, to)) < Limit THEN Cardinality(In(from, to)) ELSE Limit}

Top == stack[Len(stack)]
Rest == SubSeq(stack, 1, Len(stack) - 1)
Mid == (Top.from + Top.to) \div 2

\* Mutant of Halves: the halves leave a gap.
HalvesApart == <<[from |-> Top.from, to |-> Mid], [from |-> Mid + 1, to |-> Top.to]>>
Halves == <<[from |-> Top.from, to |-> Mid], [from |-> Mid, to |-> Top.to]>>

\* The budget is spent: what a search of the slice yields is all there will be.
SearchLast ==
    /\ outcome = "searching" /\ stack # <<>> /\ slices >= MaxSlices
    /\ \E ids \in Answers(Top.from, Top.to) : seen' = seen \union ids
    /\ truncated' = TRUE
    /\ stack' = Rest
    /\ UNCHANGED <<at, slices, outcome>>

\* The slice is not full: it is complete.  A full slice is cut in two, or
\* kept as it is when it is too short to cut.
Search ==
    /\ outcome = "searching" /\ stack # <<>> /\ slices < MaxSlices
    /\ slices' = slices + 1
    /\ \E ids \in Answers(Top.from, Top.to) :
          IF Cardinality(ids) < Limit
          THEN seen' = seen \union ids /\ stack' = Rest /\ UNCHANGED truncated
          ELSE IF Mid <= Top.from \/ Mid >= Top.to
               THEN seen' = seen \union ids /\ stack' = Rest /\ truncated' = TRUE
               ELSE stack' = Rest \o Halves /\ UNCHANGED <<seen, truncated>>
    /\ UNCHANGED <<at, outcome>>

SearchFails ==
    /\ outcome = "searching" /\ stack # <<>>
    /\ outcome' = "failed"
    /\ UNCHANGED <<at, stack, slices, seen, truncated>>

SearchEnds ==
    /\ outcome = "searching" /\ stack = <<>>
    /\ outcome' = "done"
    /\ UNCHANGED <<at, stack, slices, seen, truncated>>

Init ==
    /\ at \in [Traces -> 0..Window - 1]
    /\ stack = <<[from |-> 0, to |-> Window]>>
    /\ slices = 0 /\ seen = {} /\ truncated = FALSE
    /\ outcome = "searching"

Next == SearchLast \/ Search \/ SearchFails \/ SearchEnds

Spec == Init /\ [][Next]_searchVars

-----------------------------------------------------------------------------
(* Correctness *)

\* A window said to be complete is: however the traces cluster and whichever of
\* them Tempo returns, one that is missed shows in truncated.
CompleteOrTruncated == outcome = "done" => truncated \/ seen = Traces

=============================================================================
