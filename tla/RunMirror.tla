------------------------------ MODULE RunMirror ------------------------------
(***************************************************************************)
(* What the ci-github-status store promises its readers: a mirror of       *)
(* GitHub that may lag, and nothing worse.  Each run or job gets through    *)
(* the ranks 0 (not there) to 3 (completed) at the source; the mirror's     *)
(* rank follows, never back and never ahead, and what it says of a          *)
(* completed item is a conclusion the source reported for that very item.   *)
(*                                                                         *)
(* How the mirror learns (deliveries, API reads, retries, restarts) is not  *)
(* said here: that is StatusService, which implements this.                 *)
(***************************************************************************)
EXTENDS Naturals

CONSTANTS
    Items,          \* what is mirrored
    NoConclusion    \* the conclusion of an item that has none

VARIABLES
    progress,       \* source: each item's rank
    reported,       \* source: the conclusions reported of each item, ever
    mirror,         \* mirror: each item's rank
    conclusion      \* mirror: each item's conclusion

vars == <<progress, reported, mirror, conclusion>>

Ranks == 0..3

Init ==
    /\ progress = [i \in Items |-> 0]
    /\ reported = [i \in Items |-> {}]
    /\ mirror = [i \in Items |-> 0]
    /\ conclusion = [i \in Items |-> NoConclusion]

SourceMoves ==
    /\ progress' \in [Items -> Ranks]
    /\ \A i \in Items : /\ progress[i] <= progress'[i]
                        /\ reported[i] \subseteq reported'[i]
    /\ UNCHANGED <<mirror, conclusion>>

\* Any number of items at once: one API answer lists many runs.
MirrorFollows ==
    /\ mirror' \in [Items -> Ranks]
    /\ \A i \in Items : /\ mirror[i] <= mirror'[i]
                        /\ mirror'[i] <= progress[i]
                        /\ mirror'[i] = 3 => conclusion'[i] \in reported[i]
    /\ UNCHANGED <<progress, reported>>

Next == SourceMoves \/ MirrorFollows

Spec == Init /\ [][Next]_vars

=============================================================================
