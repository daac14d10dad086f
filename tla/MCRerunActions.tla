--------------------------- MODULE MCRerunActions ---------------------------
(* Instances of RerunActions: two pull-request actions at most, two lanes.  *)
EXTENDS RerunActions, TLC

CONSTANTS pr1, a1, a2, p1, p2, s1

OnePR == {pr1}
TwoLanes == {"cpu", "gpu"}

\* One action of two lanes, posted twice; one source run to cancel per lane.
OneAction == {a1}
OneActionPr == [a \in OneAction |-> pr1]
OneActionLanes == [a \in OneAction |-> TwoLanes]
TwoPosts == {p1, p2}
SameKey == [p \in TwoPosts |-> a1]
CpuSource == {s1}
CpuSourceOf == s1 :> <<pr1, "cpu">>

\* Two actions for one pull request, one lane each.
TwoActions == {a1, a2}
TwoActionsPr == [a \in TwoActions |-> pr1]
TwoActionsLanes == a1 :> {"cpu"} @@ a2 :> {"cpu"}
TwoKeys == p1 :> a1 @@ p2 :> a2

=============================================================================
