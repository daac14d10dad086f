------------------------------ MODULE MCClaims ------------------------------
(* Instances of Claims: two people after the same test, a packet of two.    *)
EXTENDS Claims, TLC

CONSTANTS n1, n2, ann, bob, d1, d2

OneTest == {n1}
TwoTests == {n1, n2}
TwoPeople == {ann, bob}
Nobody == {}
Everybody == {ann, bob}

\* One dialog each.
TwoDrafts == {d1, d2}
OneEach == d1 :> ann @@ d2 :> bob
SameTest == [d \in TwoDrafts |-> {n1}]
OneDraft == {d1}
Anns == d1 :> ann
AnnsTest == d1 :> {n1}
PacketAndOne == d1 :> {n1, n2} @@ d2 :> {n2}

=============================================================================
