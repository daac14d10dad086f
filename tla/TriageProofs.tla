---------------------------- MODULE TriageProofs -----------------------------
(* Proofs of the properties of MCTriage, for any values of its constants that *)
(* its assumptions allow.                                                     *)
EXTENDS MCTriage, FiniteSetTheorems, WellFoundedInduction, TLAPS

\* A set of numbers has a least, and up to a bound a greatest.
LEMMA Least ==
    ASSUME NEW S \in SUBSET Nat, S # {}
    PROVE  \E m \in S : \A y \in S : m <= y
<1>1. PICK m \in S : \A k \in S : <<k, m>> \notin OpToRel(<, Nat)
    BY NatLessThanWellFounded, WFMin, Zenon
<1>2. \A k \in S : ~(k < m)
    BY <1>1, Zenon DEF OpToRel
<1>3. QED
    BY <1>2

LEMMA Greatest ==
    ASSUME NEW n \in Nat, NEW S \in SUBSET (0 .. n), S # {}
    PROVE  \E m \in S : \A y \in S : m >= y
<1> DEFINE T == {n - x : x \in S}
<1>1. \A x \in S : x \in Nat /\ n - x \in Nat
    OBVIOUS
<1>2. T \in SUBSET Nat /\ T # {} /\ \A y \in S : n - y \in T
    BY <1>1
<1>3. PICK m \in T : \A k \in T : m <= k
    BY <1>2, Least
<1>4. PICK x \in S : m = n - x
    BY <1>3
<1>5. \A y \in S : n - x <= n - y
    BY <1>2, <1>3, <1>4
<1>6. QED
    BY <1>1, <1>5

-----------------------------------------------------------------------------
(* Proofs, for any groups, limits, retries and polls.  First, sequences of   *)
(* groups to post.                                                           *)

\* The sizes Dispatch counts are those of any other module.
LEMMA DispatchSizes ==
    \A S : Dispatch!IsFiniteSet(S) = IsFiniteSet(S) /\ Dispatch!Cardinality(S) = Cardinality(S)
BY Zenon DEF Dispatch!IsFiniteSet, IsFiniteSet, Dispatch!Cardinality, Cardinality

\* Every order of the groups has each of them once.
LEMMA DispatchOrderOfAll ==
    ASSUME Dispatch!Bounds, NEW order \in Dispatch!SetToSeqs(DispatchGroups)
    PROVE  /\ order \in Seq(DispatchGroups)
           /\ \A i, j \in DOMAIN order : order[i] = order[j] => i = j
           /\ \A g \in DispatchGroups : \E i \in DOMAIN order : order[i] = g
<1>1. Cardinality(DispatchGroups) \in Nat
    BY FS_CardinalityType, DispatchSizes DEF Dispatch!Bounds
<1>2. /\ order \in [1..Cardinality(DispatchGroups) -> DispatchGroups]
      /\ \A i, j \in DOMAIN order : order[i] = order[j] => i = j
    BY DispatchSizes DEF Dispatch!SetToSeqs
<1>3. order \in Injection(1..Cardinality(DispatchGroups), DispatchGroups)
    BY <1>2 DEF Injection, IsInjective
<1>4. /\ IsFiniteSet(1..Cardinality(DispatchGroups))
      /\ Cardinality(1..Cardinality(DispatchGroups)) = Cardinality(DispatchGroups)
    BY <1>1, FS_Interval
<1>5. order \in Surjection(1..Cardinality(DispatchGroups), DispatchGroups)
    BY <1>3, <1>4, FS_Injection, DispatchSizes DEF Dispatch!Bounds
<1>6. order \in Seq(DispatchGroups)
    BY <1>1, <1>2
<1>7. QED
    BY <1>2, <1>5, <1>6 DEF Surjection

LEMMA DispatchTailEntries ==
    ASSUME NEW S, NEW s \in Seq(S), s # <<>>, Dispatch!NoneTwice(s)
    PROVE  /\ Head(s) \in S /\ Tail(s) \in Seq(S) /\ Dispatch!NoneTwice(Tail(s))
           /\ Head(s) \in Dispatch!Entries(s)
           /\ Dispatch!Entries(Tail(s)) = Dispatch!Entries(s) \ {Head(s)}
           /\ \A x \in Dispatch!Entries(Tail(s)) : x.group # Head(s).group
<1>1. Len(s) \in Nat /\ Len(s) # 0 /\ DOMAIN s = 1..Len(s) /\ Head(s) = s[1] /\ Head(s) \in S
    OBVIOUS
<1>2. /\ Tail(s) \in Seq(S) /\ DOMAIN Tail(s) = 1..(Len(s) - 1)
      /\ \A i \in 1..(Len(s) - 1) : Tail(s)[i] = s[i + 1]
    OBVIOUS
<1>3. \A i \in 1..(Len(s) - 1) : i + 1 \in DOMAIN s /\ i + 1 # 1
    BY <1>1
<1>4. \A i \in DOMAIN s \ {1} : i - 1 \in 1..(Len(s) - 1) /\ Tail(s)[i - 1] = s[i]
    BY <1>1, <1>2
<1>5. 1 \in DOMAIN s
    BY <1>1
<1>6. Dispatch!NoneTwice(Tail(s))
    BY <1>1, <1>2, <1>3 DEF Dispatch!NoneTwice
<1>7. \A x \in Dispatch!Entries(Tail(s)) : x \in Dispatch!Entries(s) /\ x.group # Head(s).group
    <2> SUFFICES ASSUME NEW x \in Dispatch!Entries(Tail(s))
                 PROVE  x \in Dispatch!Entries(s) /\ x.group # Head(s).group
        OBVIOUS
    <2>1. PICK i \in 1..(Len(s) - 1) : x = s[i + 1]
        BY <1>2 DEF Dispatch!Entries
    <2> QED
        BY <2>1, <1>1, <1>3, <1>5 DEF Dispatch!Entries, Dispatch!NoneTwice
<1>8. \A x \in Dispatch!Entries(s) \ {Head(s)} : x \in Dispatch!Entries(Tail(s))
    <2> SUFFICES ASSUME NEW x \in Dispatch!Entries(s), x # Head(s) PROVE x \in Dispatch!Entries(Tail(s))
        OBVIOUS
    <2>1. PICK i \in DOMAIN s : x = s[i]
        BY DEF Dispatch!Entries
    <2> QED
        BY <2>1, <1>1, <1>2, <1>4 DEF Dispatch!Entries
<1>9. Dispatch!Entries(Tail(s)) = Dispatch!Entries(s) \ {Head(s)}
    BY <1>7, <1>8
<1>10. Head(s) \in Dispatch!Entries(s)
    BY <1>1, <1>5 DEF Dispatch!Entries
<1>11. QED
    BY <1>1, <1>2, <1>6, <1>7, <1>9, <1>10

\* Of a group that is not in the sequence, one entry may be put at either end.
LEMMA DispatchEntryBefore ==
    ASSUME NEW S, NEW s \in Seq(S), NEW x \in S, Dispatch!NoneTwice(s),
           \A e \in Dispatch!Entries(s) : e.group # x.group
    PROVE  Dispatch!NoneTwice(<<x>> \o s) /\ Dispatch!Entries(<<x>> \o s) = Dispatch!Entries(s) \union {x}
<1> DEFINE t == <<x>> \o s
<1>1. Len(s) \in Nat /\ DOMAIN s = 1..Len(s) /\ \A i \in DOMAIN s : s[i] \in Dispatch!Entries(s)
    BY DEF Dispatch!Entries
<1>2. t = <<x>> \o s
    OBVIOUS
<1> HIDE DEF t
<1>3. /\ t \in Seq(S) /\ DOMAIN t = 1..(Len(s) + 1) /\ t[1] = x
      /\ \A i \in 2..(Len(s) + 1) : i - 1 \in DOMAIN s /\ t[i] = s[i - 1]
    BY <1>1, <1>2
<1>4. \A i \in DOMAIN s : i + 1 \in 2..(Len(s) + 1) /\ t[i + 1] = s[i]
    BY <1>1, <1>3
<1>5. Dispatch!NoneTwice(t)
    <2> SUFFICES ASSUME NEW i \in DOMAIN t, NEW j \in DOMAIN t, t[i].group = t[j].group
                 PROVE  i = j
        BY DEF Dispatch!NoneTwice
    <2>1. CASE i = 1 /\ j = 1
        BY <2>1
    <2>2. CASE i = 1 /\ j # 1
        <3>1. j \in 2..(Len(s) + 1)
            BY <1>1, <1>3, <2>2
        <3> QED
            BY <1>1, <1>3, <2>2, <3>1
    <2>3. CASE i # 1 /\ j = 1
        <3>1. i \in 2..(Len(s) + 1)
            BY <1>1, <1>3, <2>3
        <3> QED
            BY <1>1, <1>3, <2>3, <3>1
    <2>4. CASE i # 1 /\ j # 1
        <3>1. i \in 2..(Len(s) + 1) /\ j \in 2..(Len(s) + 1)
            BY <1>1, <1>3, <2>4
        <3>2. i - 1 = j - 1
            BY <1>3, <3>1 DEF Dispatch!NoneTwice
        <3> QED
            BY <3>1, <3>2
    <2> QED
        BY <2>1, <2>2, <2>3, <2>4
<1>6. \A e \in Dispatch!Entries(t) : e \in Dispatch!Entries(s) \union {x}
    <2> SUFFICES ASSUME NEW i \in DOMAIN t PROVE t[i] \in Dispatch!Entries(s) \union {x}
        BY DEF Dispatch!Entries
    <2>1. i = 1 \/ i \in 2..(Len(s) + 1)
        BY <1>1, <1>3
    <2> QED
        BY <1>1, <1>3, <2>1
<1>7. \A e \in Dispatch!Entries(s) \union {x} : e \in Dispatch!Entries(t)
    <2>1. x \in Dispatch!Entries(t)
        BY <1>1, <1>3 DEF Dispatch!Entries
    <2>2. \A i \in DOMAIN s : i + 1 \in DOMAIN t
        BY <1>1, <1>3
    <2>3. \A i \in DOMAIN s : s[i] \in Dispatch!Entries(t)
        BY <1>4, <2>2 DEF Dispatch!Entries
    <2> QED
        BY <2>1, <2>3 DEF Dispatch!Entries
<1> QED
    BY <1>2, <1>5, <1>6, <1>7

LEMMA DispatchEntryAfter ==
    ASSUME NEW S, NEW s \in Seq(S), NEW x \in S, Dispatch!NoneTwice(s),
           \A e \in Dispatch!Entries(s) : e.group # x.group
    PROVE  Dispatch!NoneTwice(Append(s, x)) /\ Dispatch!Entries(Append(s, x)) = Dispatch!Entries(s) \union {x}
<1> DEFINE t == Append(s, x)
<1>1. Len(s) \in Nat /\ DOMAIN s = 1..Len(s) /\ \A i \in DOMAIN s : s[i] \in Dispatch!Entries(s)
    BY DEF Dispatch!Entries
<1>2. t = Append(s, x)
    OBVIOUS
<1> HIDE DEF t
<1>3. /\ t \in Seq(S) /\ DOMAIN t = 1..(Len(s) + 1) /\ t[Len(s) + 1] = x
      /\ \A i \in DOMAIN s : i \in DOMAIN t /\ t[i] = s[i]
    BY <1>1, <1>2
<1>4. \A i \in DOMAIN t : i = Len(s) + 1 \/ i \in DOMAIN s
    BY <1>1, <1>3
<1>5. Dispatch!NoneTwice(t)
    <2> SUFFICES ASSUME NEW i \in DOMAIN t, NEW j \in DOMAIN t, t[i].group = t[j].group
                 PROVE  i = j
        BY DEF Dispatch!NoneTwice
    <2> QED
        BY <1>1, <1>3, <1>4 DEF Dispatch!NoneTwice
<1>6. \A e \in Dispatch!Entries(t) : e \in Dispatch!Entries(s) \union {x}
    BY <1>1, <1>3, <1>4 DEF Dispatch!Entries
<1>7. \A e \in Dispatch!Entries(s) \union {x} : e \in Dispatch!Entries(t)
    <2>1. x \in Dispatch!Entries(t)
        BY <1>1, <1>3 DEF Dispatch!Entries
    <2>2. \A i \in DOMAIN s : s[i] \in Dispatch!Entries(t)
        BY <1>1, <1>3 DEF Dispatch!Entries
    <2> QED
        BY <2>1, <2>2 DEF Dispatch!Entries
<1> QED
    BY <1>2, <1>5, <1>6, <1>7

LEMMA DispatchEntriesTyped ==
    ASSUME NEW S, NEW s \in Seq(S) PROVE Dispatch!Entries(s) \subseteq S
BY DEF Dispatch!Entries

\* Sets of groups can be counted.
LEMMA DispatchCountable ==
    ASSUME Dispatch!Bounds, NEW s, s \subseteq DispatchGroups
    PROVE  IsFiniteSet(s) /\ Cardinality(s) \in Nat /\ Cardinality(s) <= Cardinality(DispatchGroups)
           /\ Cardinality(DispatchGroups) \in Nat
BY FS_Subset, FS_CardinalityType, DispatchSizes DEF Dispatch!Bounds

-----------------------------------------------------------------------------
(* Every step keeps every variable of its kind.                              *)

LEMMA DispatchTypePost ==
    ASSUME Dispatch!Bounds, Dispatch!TypeOK, Dispatch!Dispatching => Dispatch!Placed, Dispatch!Post
    PROVE  Dispatch!TypeOK'
<1> DEFINE g == Head(pending).group
           attempt == Head(pending).attempt
           again == [group |-> g, attempt |-> attempt + 1]
<1>1. dispatchPhase = "dispatch" /\ pending # <<>>
    BY DEF Dispatch!Post
<1>2. pending \in Seq(Dispatch!Entry) /\ Dispatch!NoneTwice(pending)
    BY <1>1 DEF Dispatch!TypeOK, Dispatch!Placed, Dispatch!Dispatching
<1>3. Head(pending) \in Dispatch!Entry /\ Tail(pending) \in Seq(Dispatch!Entry)
    BY <1>1, <1>2, DispatchTailEntries
<1>4. g \in DispatchGroups /\ attempt \in 0..Retries
    BY <1>3 DEF Dispatch!Entry
<1>5. posts' \in [DispatchGroups -> Nat]
    BY <1>4 DEF Dispatch!Post, Dispatch!TypeOK
<1>6. CASE /\ job' = [job EXCEPT ![g] = "running"]
           /\ jobIds' = jobIds \union {g}
           /\ active' = [active EXCEPT ![g] = attempt]
           /\ pending' = Tail(pending)
           /\ UNCHANGED <<failed, final, errors>>
    <2>1. job' \in [DispatchGroups -> Dispatch!JobStates]
        BY <1>4, <1>6 DEF Dispatch!TypeOK, Dispatch!JobStates
    <2>2. active' \in [DispatchGroups -> {Dispatch!NotActive} \union 0..Retries]
        BY <1>4, <1>6 DEF Dispatch!TypeOK
    <2> QED
        BY <1>3, <1>4, <1>5, <1>6, <2>1, <2>2 DEF Dispatch!Post, Dispatch!TypeOK, Dispatch!reconcileVars
<1>7. CASE /\ Dispatch!MayRetry(attempt)
           /\ pending' = <<again>> \o Tail(pending)
           /\ UNCHANGED <<job, jobIds, active, failed, final, errors>>
    <2>1. attempt + 1 \in 0..Retries
        BY <1>4, <1>7 DEF Dispatch!MayRetry, Dispatch!Bounds
    <2>2. again \in Dispatch!Entry
        BY <1>4, <2>1 DEF Dispatch!Entry
    <2>3. pending' \in Seq(Dispatch!Entry)
        <3> HIDE DEF again
        <3> QED
            BY <1>3, <1>7, <2>2
    <2> QED
        BY <1>5, <1>7, <2>3 DEF Dispatch!Post, Dispatch!TypeOK, Dispatch!reconcileVars
<1>8. CASE Dispatch!Fail(g) /\ pending' = Tail(pending) /\ UNCHANGED <<job, jobIds, active>>
    <2>1. failed' \in Nat /\ final' \subseteq DispatchGroups /\ errors' \subseteq DispatchGroups
        BY <1>4, <1>8 DEF Dispatch!Fail, Dispatch!TypeOK
    <2> QED
        BY <1>3, <1>5, <1>8, <2>1 DEF Dispatch!Post, Dispatch!TypeOK, Dispatch!reconcileVars
<1>9. QED
    BY <1>6, <1>7, <1>8 DEF Dispatch!Post

LEMMA DispatchTypeNext ==
    ASSUME Dispatch!Bounds, Dispatch!TypeOK, Dispatch!Dispatching => Dispatch!Placed, [Dispatch!Next]_(Dispatch!triageVars)
    PROVE  Dispatch!TypeOK'
<1> USE DEF Dispatch!TypeOK
<1>1. ASSUME NEW g \in DispatchGroups, Dispatch!SergeEnds(g) PROVE Dispatch!TypeOK'
    <2>1. \A s \in Dispatch!JobStates : [job EXCEPT ![g] = s] \in [DispatchGroups -> Dispatch!JobStates]
        OBVIOUS
    <2>2. {"published", "no_fix", "error", "limited"} \subseteq Dispatch!JobStates
        BY DEF Dispatch!JobStates, Dispatch!TerminalStatuses
    <2>3. job' \in [DispatchGroups -> Dispatch!JobStates] /\ dispatchPrOpen' \subseteq DispatchGroups
        BY <1>1, <2>1, <2>2 DEF Dispatch!SergeEnds
    <2> QED
        BY <1>1, <2>3 DEF Dispatch!SergeEnds, Dispatch!dispatchVars, Dispatch!reconcileVars
<1>2. ASSUME NEW g \in DispatchGroups, Dispatch!PullRequestCloses(g) \/ Dispatch!PullRequestOpens(g) PROVE Dispatch!TypeOK'
    <2>1. dispatchPrOpen' \subseteq DispatchGroups /\ closings' \in Nat
        BY <1>2 DEF Dispatch!PullRequestCloses, Dispatch!PullRequestOpens
    <2> QED
        BY <1>2, <2>1 DEF Dispatch!PullRequestCloses, Dispatch!PullRequestOpens, Dispatch!dispatchVars, Dispatch!reconcileVars
<1>3. ASSUME NEW g \in DispatchGroups, Dispatch!Poll(g) PROVE Dispatch!TypeOK'
    <2> DEFINE again == [group |-> g, attempt |-> active[g] + 1]
    <2>1. active[g] \in {-1} \union 0..Retries /\ Retries \in Nat /\ pending \in Seq(Dispatch!Entry)
        BY DEF Dispatch!NotActive, Dispatch!Bounds
    <2>2. Dispatch!MayRetry(active[g]) => again \in Dispatch!Entry
        <3>1. Dispatch!MayRetry(active[g]) => active[g] + 1 \in 0..Retries
            <4> HIDE DEF Dispatch!TypeOK
            <4> QED
                BY <2>1 DEF Dispatch!MayRetry
        <3> QED
            BY <3>1 DEF Dispatch!Entry
    <2>3. pending' \in Seq(Dispatch!Entry)
        <3>1. pending' = pending \/ (Dispatch!MayRetry(active[g]) /\ pending' = Append(pending, again))
            BY <1>3 DEF Dispatch!Poll
        <3> HIDE DEF again, Dispatch!TypeOK
        <3> QED
            BY <2>1, <2>2, <3>1
    <2>4. accepted' \in Nat /\ final' \subseteq DispatchGroups /\ completed' \subseteq DispatchGroups /\ toPoll' \subseteq DispatchGroups
        BY <1>3 DEF Dispatch!Poll
    <2> QED
        BY <1>3, <2>3, <2>4 DEF Dispatch!Poll, Dispatch!sergeVars, Dispatch!reconcileVars
<1>4. ASSUME NEW g \in DispatchGroups, Dispatch!Ask(g) PROVE Dispatch!TypeOK'
    <2>1. Dispatch!StatusOf(job[g]) \in Dispatch!Statuses
        BY DEF Dispatch!StatusOf, Dispatch!Statuses, Dispatch!JobStates, Dispatch!TerminalStatuses, Dispatch!NoStatus
    <2>2. statuses' \in [DispatchGroups -> Dispatch!Statuses] /\ toAsk' \subseteq DispatchGroups
        BY <1>4, <2>1 DEF Dispatch!Ask
    <2> QED
        BY <1>4, <2>2 DEF Dispatch!Ask, Dispatch!dispatchVars, Dispatch!sergeVars
<1>5. CASE Dispatch!Post
    BY <1>5, DispatchTypePost
<1>6. CASE Dispatch!BeginSweep
    BY <1>6 DEF Dispatch!BeginSweep, Dispatch!ActiveGroups, Dispatch!sergeVars, Dispatch!reconcileVars
<1>7. CASE Dispatch!EndSweep
    BY <1>7 DEF Dispatch!EndSweep, Dispatch!sergeVars, Dispatch!reconcileVars
<1>8. CASE Dispatch!DispatchEnds
    <2>1. Cardinality(DispatchGroups) - Cardinality(final) \in Nat
        BY DispatchCountable
    <2>2. statuses' \in [DispatchGroups -> Dispatch!Statuses]
        BY <1>8 DEF Dispatch!DispatchEnds, Dispatch!Statuses, Dispatch!NoStatus
    <2> QED
        BY <1>8, <2>1, <2>2, DispatchSizes DEF Dispatch!DispatchEnds, Dispatch!sergeVars
<1>9. CASE Dispatch!ListPulls
    BY <1>9 DEF Dispatch!ListPulls, Dispatch!sergeVars
<1>10. CASE Dispatch!EndPoll
    <2>1. \A g \in DispatchGroups : Dispatch!Cell(g) \in Dispatch!Cells
        BY DEF Dispatch!Cell, Dispatch!Cells
    <2>2. shown' \in [DispatchGroups -> Dispatch!Cells] /\ written' \in BOOLEAN
        BY <1>10, <2>1 DEF Dispatch!EndPoll
    <2>3. Cardinality(linked) \in Nat /\ Cardinality(Dispatch!TerminalGroups) \in Nat
        BY DispatchCountable DEF Dispatch!TerminalGroups
    <2> QED
        BY <1>10, <2>2, <2>3, DispatchSizes DEF Dispatch!EndPoll, Dispatch!sergeVars
<1>11. CASE Dispatch!CallTimesOut
    <2>1. pending # <<>> => Head(pending).group \in DispatchGroups
        <3>1. pending \in Seq(Dispatch!Entry)
            OBVIOUS
        <3>2. pending # <<>> => Head(pending) \in Dispatch!Entry
            <4> HIDE DEF Dispatch!TypeOK
            <4> QED
                BY <3>1
        <3> QED
            BY <3>2 DEF Dispatch!Entry
    <2>2. job' \in [DispatchGroups -> Dispatch!JobStates]
        BY <1>11, <2>1 DEF Dispatch!CallTimesOut, Dispatch!JobStates
    <2> QED
        BY <1>11, <2>2 DEF Dispatch!CallTimesOut, Dispatch!reconcileVars
<1>12. CASE UNCHANGED Dispatch!triageVars
    BY <1>12 DEF Dispatch!triageVars, Dispatch!dispatchVars, Dispatch!sergeVars, Dispatch!reconcileVars
<1>13. QED
    BY <1>1, <1>2, <1>3, <1>4, <1>5, <1>6, <1>7, <1>8, <1>9, <1>10, <1>11, <1>12 DEF Dispatch!Next

-----------------------------------------------------------------------------
(* Every step keeps each group in its place.                                 *)

LEMMA DispatchOneMoreGroup ==
    ASSUME Dispatch!Bounds, NEW s, s \subseteq DispatchGroups, NEW g \in DispatchGroups, g \notin s
    PROVE  Cardinality(s \union {g}) = Cardinality(s) + 1
BY FS_Subset, FS_AddElement, DispatchSizes DEF Dispatch!Bounds

\* What Serge, GitHub and maintainers do leaves a counted group's job ended.
LEMMA DispatchOthersKeep ==
    ASSUME Dispatch!Bounds, Dispatch!Handed, Dispatch!TypeOK', NEW g \in DispatchGroups,
           Dispatch!SergeEnds(g) \/ Dispatch!PullRequestCloses(g) \/ Dispatch!PullRequestOpens(g)
    PROVE  Dispatch!Handed'
<1>1. UNCHANGED <<Dispatch!dispatchVars, Dispatch!reconcileVars, posts>>
    BY DEF Dispatch!SergeEnds, Dispatch!PullRequestCloses, Dispatch!PullRequestOpens
<1>2. /\ (Dispatch!Dispatching => Dispatch!Placed)' /\ Dispatch!Tallied' /\ Dispatch!Tried' /\ Dispatch!Reconciled' /\ Dispatch!EndsInformed'
      /\ Dispatch!ActiveGroups' = Dispatch!ActiveGroups /\ Dispatch!Working' = Dispatch!Working
    BY <1>1 DEF Dispatch!Handed, Dispatch!Dispatching, Dispatch!Placed, Dispatch!Tallied, Dispatch!Tried, Dispatch!Reconciled, Dispatch!EndsInformed, Dispatch!Waiting, Dispatch!Working,
                Dispatch!ActiveGroups, Dispatch!dispatchVars, Dispatch!reconcileVars
<1>3. /\ Dispatch!Running' \subseteq Dispatch!Running
      /\ \A h \in DispatchGroups : job'[h] = job[h] \/ (job[h] = "running" /\ job'[h] # "running")
    BY DEF Dispatch!SergeEnds, Dispatch!PullRequestCloses, Dispatch!PullRequestOpens, Dispatch!Running, Dispatch!TypeOK, Dispatch!Handed
<1>4. \A h \in DispatchGroups : Dispatch!FinalTrue(h)'
    BY <1>1, <1>3 DEF Dispatch!Handed, Dispatch!FinalTrue, Dispatch!dispatchVars
<1>5. Dispatch!Loaded'
    <2>1. Dispatch!Running \subseteq DispatchGroups
        BY DEF Dispatch!Running
    <2>2. Cardinality(Dispatch!Running') <= Cardinality(Dispatch!Running) /\ Cardinality(Dispatch!Running') \in Nat /\ Cardinality(Dispatch!Running) \in Nat
        BY <1>3, <2>1, FS_Subset, FS_CardinalityType, DispatchCountable
    <2>3. Cardinality(Dispatch!Running') <= Limit
        BY <2>2, DispatchSizes DEF Dispatch!Handed, Dispatch!Loaded, Dispatch!Bounds
    <2> QED
        BY <1>1, <1>2, <1>3, <2>3, DispatchSizes DEF Dispatch!Handed, Dispatch!Loaded, Dispatch!Dispatching, Dispatch!dispatchVars
<1>6. QED
    BY <1>2, <1>4, <1>5 DEF Dispatch!Handed

\* A group that is posted was waiting, and is now followed, waits again or failed.
LEMMA DispatchPostKeeps ==
    ASSUME Dispatch!Bounds, Dispatch!Handed, Dispatch!TypeOK', Dispatch!Post
    PROVE  Dispatch!Handed'
<1> DEFINE e == Head(pending)
           again == [group |-> e.group, attempt |-> e.attempt + 1]
<1>1. /\ dispatchPhase = "dispatch" /\ dispatchPhase' = "dispatch" /\ pending # <<>>
      /\ Cardinality(Dispatch!ActiveGroups) < Limit
      /\ UNCHANGED <<toPoll, completed, accepted, Dispatch!reconcileVars>>
      /\ Dispatch!TypeOK /\ Dispatch!Placed /\ completed = {} /\ Dispatch!Working = Dispatch!ActiveGroups
      /\ Dispatch!Running \subseteq Dispatch!Working
    BY DispatchSizes DEF Dispatch!Post, Dispatch!Handed, Dispatch!Dispatching, Dispatch!Placed, Dispatch!Working, Dispatch!Loaded
<1>2. pending \in Seq(Dispatch!Entry) /\ Dispatch!NoneTwice(pending)
    BY <1>1 DEF Dispatch!TypeOK, Dispatch!Placed
<1>3. /\ e \in Dispatch!Entry /\ e \in Dispatch!Entries(pending) /\ Tail(pending) \in Seq(Dispatch!Entry) /\ Dispatch!NoneTwice(Tail(pending))
      /\ Dispatch!Entries(Tail(pending)) = Dispatch!Entries(pending) \ {e}
      /\ \A x \in Dispatch!Entries(Tail(pending)) : x.group # e.group
    BY <1>1, <1>2, DispatchTailEntries
<1>4. PICK g \in DispatchGroups : g = e.group
    BY <1>3 DEF Dispatch!Entry
<1>5. e.attempt \in 0..Retries
    BY <1>3 DEF Dispatch!Entry
<1>6. /\ g \in Dispatch!Waiting /\ g \notin Dispatch!Working /\ g \notin final /\ job[g] # "running"
      /\ Dispatch!Waiting \ {g} = {x.group : x \in Dispatch!Entries(Tail(pending))}
    BY <1>1, <1>3, <1>4 DEF Dispatch!Waiting, Dispatch!Placed, Dispatch!Running
<1>7. posts' = [posts EXCEPT ![g] = @ + 1]
    BY <1>4 DEF Dispatch!Post
<1>8. /\ posts[g] <= e.attempt /\ posts[g] \in Nat
      /\ posts'[g] = posts[g] + 1
      /\ \A h \in DispatchGroups \ {g} : posts'[h] = posts[h]
    BY <1>1, <1>3, <1>4, <1>7 DEF Dispatch!Handed, Dispatch!Tried, Dispatch!Dispatching, Dispatch!TypeOK
<1>9. posts'[g] <= e.attempt + 1 /\ posts'[g] <= Retries + 1
    BY <1>5, <1>8 DEF Dispatch!Bounds
<1>10. \A h \in DispatchGroups : posts'[h] <= Retries + 1
    BY <1>8, <1>9 DEF Dispatch!Handed, Dispatch!Tried
<1>11. Dispatch!Reconciled' /\ Dispatch!EndsInformed' /\ Dispatch!Dispatching'
    BY <1>1 DEF Dispatch!Handed, Dispatch!Reconciled, Dispatch!EndsInformed, Dispatch!Dispatching, Dispatch!reconcileVars
<1>12. \A x \in Dispatch!Entries(Tail(pending)) : posts'[x.group] <= x.attempt /\ x.group \in DispatchGroups
    <2>1. Dispatch!Entries(Tail(pending)) \subseteq Dispatch!Entry
        BY <1>3, DispatchEntriesTyped
    <2> QED
        BY <1>1, <1>3, <1>4, <1>8, <2>1 DEF Dispatch!Handed, Dispatch!Tried, Dispatch!Dispatching, Dispatch!Entry
<1>13. CASE /\ job' = [job EXCEPT ![g] = "running"]
            /\ jobIds' = jobIds \union {g}
            /\ active' = [active EXCEPT ![g] = e.attempt]
            /\ pending' = Tail(pending)
            /\ UNCHANGED <<failed, final, errors>>
    <2>1. active'[g] = e.attempt /\ \A h \in DispatchGroups \ {g} : active'[h] = active[h]
        BY <1>1, <1>13 DEF Dispatch!TypeOK
    <2>2. Dispatch!ActiveGroups' = Dispatch!ActiveGroups \union {g} /\ Dispatch!Working' = Dispatch!Working \union {g}
        BY <1>1, <1>5, <2>1 DEF Dispatch!ActiveGroups, Dispatch!Working, Dispatch!NotActive
    <2>3. job'[g] = "running" /\ \A h \in DispatchGroups \ {g} : job'[h] = job[h]
        BY <1>1, <1>13 DEF Dispatch!TypeOK
    <2>4. Dispatch!Running' = Dispatch!Running \union {g}
        BY <2>3 DEF Dispatch!Running
    <2>5. Dispatch!Waiting' = Dispatch!Waiting \ {g}
        BY <1>6, <1>13 DEF Dispatch!Waiting
    <2>6. Dispatch!Placed'
        BY <1>1, <1>3, <1>6, <1>13, <2>2, <2>5 DEF Dispatch!Placed
    <2>7. Dispatch!Tallied'
        BY <1>1, <1>13 DEF Dispatch!Handed, Dispatch!Tallied
    <2>8. \A h \in DispatchGroups : Dispatch!FinalTrue(h)'
        BY <1>6, <1>13, <2>3 DEF Dispatch!Handed, Dispatch!FinalTrue
    <2>9. Cardinality(Dispatch!ActiveGroups') <= Limit /\ Cardinality(Dispatch!Running') <= Limit
        <3>1. Dispatch!ActiveGroups \subseteq DispatchGroups /\ Dispatch!ActiveGroups' \subseteq DispatchGroups /\ Dispatch!Running' \subseteq Dispatch!ActiveGroups'
            BY <1>1, <2>2, <2>4 DEF Dispatch!ActiveGroups
        <3>2. Cardinality(Dispatch!ActiveGroups') = Cardinality(Dispatch!ActiveGroups) + 1
            BY <1>1, <1>6, <2>2, <3>1, DispatchOneMoreGroup
        <3>3. Cardinality(Dispatch!Running') <= Cardinality(Dispatch!ActiveGroups') /\ Cardinality(Dispatch!Running') \in Nat
            BY <3>1, DispatchCountable, FS_Subset, FS_CardinalityType
        <3> QED
            BY <1>1, <3>1, <3>2, <3>3, DispatchCountable DEF Dispatch!Bounds
    <2>10. Dispatch!Loaded'
        BY <1>1, <2>2, <2>4, <2>9, DispatchSizes DEF Dispatch!Loaded
    <2>11. Dispatch!Tried'
        <3>1. \A h \in Dispatch!Working' : h \in jobIds' /\ posts'[h] <= active'[h] + 1
            BY <1>1, <1>6, <1>8, <1>9, <1>13, <2>1, <2>2 DEF Dispatch!Handed, Dispatch!Tried, Dispatch!Dispatching, Dispatch!Working, Dispatch!ActiveGroups
        <3> QED
            BY <1>10, <1>12, <1>13, <3>1 DEF Dispatch!Tried
    <2> QED
        BY <1>11, <2>6, <2>7, <2>8, <2>10, <2>11 DEF Dispatch!Handed
<1>14. ASSUME UNCHANGED <<job, jobIds, active>>
       PROVE  /\ Dispatch!ActiveGroups' = Dispatch!ActiveGroups /\ Dispatch!Working' = Dispatch!Working /\ Dispatch!Loaded'
              /\ \A h \in Dispatch!Working' : h \in jobIds' /\ posts'[h] <= active'[h] + 1
    <2>1. Dispatch!ActiveGroups' = Dispatch!ActiveGroups /\ Dispatch!Working' = Dispatch!Working /\ Dispatch!Running' = Dispatch!Running
        BY <1>1, <1>14 DEF Dispatch!ActiveGroups, Dispatch!Working, Dispatch!Running
    <2>2. Dispatch!Loaded'
        BY <1>1, <1>11, <2>1 DEF Dispatch!Loaded, Dispatch!Handed, Dispatch!Dispatching
    <2> QED
        BY <1>1, <1>6, <1>8, <1>14, <2>1, <2>2 DEF Dispatch!Handed, Dispatch!Tried, Dispatch!Dispatching, Dispatch!Working, Dispatch!ActiveGroups
<1>15. CASE /\ Dispatch!MayRetry(e.attempt)
            /\ pending' = <<again>> \o Tail(pending)
            /\ UNCHANGED <<job, jobIds, active, failed, final, errors>>
    <2>1. e.attempt + 1 \in 0..Retries /\ again \in Dispatch!Entry /\ again.group = g /\ again.attempt = e.attempt + 1
        BY <1>4, <1>5, <1>15 DEF Dispatch!MayRetry, Dispatch!Bounds, Dispatch!Entry
    <2>2. Dispatch!NoneTwice(pending') /\ Dispatch!Entries(pending') = Dispatch!Entries(Tail(pending)) \union {again}
        <3>1. pending' = <<again>> \o Tail(pending)
            BY <1>15
        <3>2. \A x \in Dispatch!Entries(Tail(pending)) : x.group # again.group
            BY <1>3
        <3>3. again \in Dispatch!Entry /\ Tail(pending) \in Seq(Dispatch!Entry) /\ Dispatch!NoneTwice(Tail(pending))
            BY <1>3, <2>1
        <3> HIDE DEF again
        <3> QED
            BY <3>1, <3>2, <3>3, DispatchEntryBefore
    <2>3. Dispatch!Waiting' = Dispatch!Waiting
        <3> HIDE DEF again
        <3> QED
            BY <1>6, <2>1, <2>2 DEF Dispatch!Waiting
    <2>4. Dispatch!Placed'
        BY <1>1, <1>14, <1>15, <2>2, <2>3 DEF Dispatch!Placed
    <2>5. Dispatch!Tallied' /\ \A h \in DispatchGroups : Dispatch!FinalTrue(h)'
        BY <1>1, <1>15 DEF Dispatch!Handed, Dispatch!Tallied, Dispatch!FinalTrue
    <2>6. Dispatch!Tried'
        <3> HIDE DEF again
        <3> QED
            BY <1>9, <1>10, <1>12, <1>14, <1>15, <2>1, <2>2 DEF Dispatch!Tried
    <2> QED
        BY <1>11, <1>14, <1>15, <2>4, <2>5, <2>6 DEF Dispatch!Handed
<1>16. CASE Dispatch!Fail(g) /\ pending' = Tail(pending) /\ UNCHANGED <<job, jobIds, active>>
    <2>1. Dispatch!Waiting' = Dispatch!Waiting \ {g}
        BY <1>6, <1>16 DEF Dispatch!Waiting
    <2>2. Dispatch!Placed'
        BY <1>1, <1>3, <1>6, <1>14, <1>16, <2>1 DEF Dispatch!Placed, Dispatch!Fail
    <2>3. Dispatch!Tallied'
        <3>1. errors \subseteq final /\ final \subseteq DispatchGroups /\ failed = Cardinality(errors)
            BY <1>1, DispatchSizes DEF Dispatch!Handed, Dispatch!Tallied, Dispatch!TypeOK
        <3>2. Cardinality(errors \union {g}) = Cardinality(errors) + 1
            BY <1>6, <3>1, DispatchOneMoreGroup
        <3>3. final' \ errors' = final \ errors
            BY <1>6, <1>16, <3>1 DEF Dispatch!Fail
        <3> QED
            BY <1>1, <1>16, <3>1, <3>2, <3>3, DispatchSizes DEF Dispatch!Handed, Dispatch!Tallied, Dispatch!Fail
    <2>4. \A h \in DispatchGroups : Dispatch!FinalTrue(h)'
        BY <1>6, <1>16 DEF Dispatch!Handed, Dispatch!FinalTrue, Dispatch!Fail
    <2>5. Dispatch!Tried'
        BY <1>10, <1>12, <1>14, <1>16 DEF Dispatch!Tried
    <2> QED
        BY <1>11, <1>14, <1>16, <2>2, <2>3, <2>4, <2>5 DEF Dispatch!Handed
<1>17. QED
    BY <1>4, <1>13, <1>15, <1>16 DEF Dispatch!Post

\* A sweep asks about every job that is followed.
LEMMA DispatchBeginSweepKeeps ==
    ASSUME Dispatch!Bounds, Dispatch!Handed, Dispatch!TypeOK', Dispatch!BeginSweep
    PROVE  Dispatch!Handed'
<1>1. /\ dispatchPhase = "dispatch" /\ dispatchPhase' = "sweep" /\ toPoll' = Dispatch!ActiveGroups /\ completed' = {}
      /\ UNCHANGED <<pending, active, accepted, failed, final, errors, jobIds, job, lastKey, posts>>
      /\ Dispatch!Placed /\ completed = {}
    BY DEF Dispatch!BeginSweep, Dispatch!Handed, Dispatch!Dispatching, Dispatch!Placed, Dispatch!sergeVars, Dispatch!reconcileVars
<1>2. Dispatch!ActiveGroups' = Dispatch!ActiveGroups /\ Dispatch!Working' = Dispatch!Working /\ Dispatch!Waiting' = Dispatch!Waiting /\ Dispatch!Running' = Dispatch!Running
    BY <1>1 DEF Dispatch!ActiveGroups, Dispatch!Working, Dispatch!Waiting, Dispatch!Running
<1>3. Dispatch!Placed'
    BY <1>1, <1>2 DEF Dispatch!Placed, Dispatch!Working
<1>4. Dispatch!Loaded' /\ Dispatch!Tried' /\ Dispatch!Tallied' /\ \A g \in DispatchGroups : Dispatch!FinalTrue(g)'
    BY <1>1, <1>2 DEF Dispatch!Handed, Dispatch!Dispatching, Dispatch!Loaded, Dispatch!Tried, Dispatch!Tallied, Dispatch!FinalTrue, Dispatch!Working, Dispatch!ActiveGroups
<1>5. Dispatch!Reconciled' /\ Dispatch!EndsInformed'
    BY <1>1 DEF Dispatch!Handed, Dispatch!Reconciled, Dispatch!EndsInformed
<1>6. QED
    BY <1>3, <1>4, <1>5 DEF Dispatch!Handed

\* A job found ended is counted, or its group waits for another try.
LEMMA DispatchPollKeeps ==
    ASSUME Dispatch!Bounds, Dispatch!Handed, Dispatch!TypeOK', NEW g \in DispatchGroups, Dispatch!Poll(g)
    PROVE  Dispatch!Handed'
<1> DEFINE again == [group |-> g, attempt |-> active[g] + 1]
<1>1. /\ dispatchPhase = "sweep" /\ dispatchPhase' = "sweep" /\ g \in toPoll /\ toPoll' = toPoll \ {g}
      /\ UNCHANGED <<active, failed, errors, jobIds, job, lastKey, posts>>
      /\ Dispatch!TypeOK /\ Dispatch!Placed
    BY DEF Dispatch!Poll, Dispatch!Handed, Dispatch!Dispatching, Dispatch!sergeVars, Dispatch!reconcileVars
<1>2. /\ g \in Dispatch!Working /\ g \notin Dispatch!Waiting /\ g \notin final /\ g \notin completed
      /\ active[g] \in 0..Retries /\ g \in jobIds /\ posts[g] <= active[g] + 1
    BY <1>1 DEF Dispatch!Placed, Dispatch!Working, Dispatch!ActiveGroups, Dispatch!Handed, Dispatch!Tried, Dispatch!Dispatching, Dispatch!TypeOK
<1>3. Dispatch!ActiveGroups' = Dispatch!ActiveGroups /\ Dispatch!Running' = Dispatch!Running
    BY <1>1 DEF Dispatch!ActiveGroups, Dispatch!Running
<1>4. Dispatch!Reconciled' /\ Dispatch!EndsInformed' /\ Dispatch!Dispatching'
    BY <1>1 DEF Dispatch!Handed, Dispatch!Reconciled, Dispatch!EndsInformed, Dispatch!Dispatching
<1>5. CASE UNCHANGED <<completed, pending, accepted, final>>
    <2>1. Dispatch!Working' = Dispatch!Working /\ Dispatch!Waiting' = Dispatch!Waiting
        BY <1>3, <1>5 DEF Dispatch!Working, Dispatch!Waiting
    <2>2. Dispatch!Placed'
        BY <1>1, <1>3, <1>5, <2>1 DEF Dispatch!Placed
    <2>3. Dispatch!Loaded' /\ Dispatch!Tried' /\ Dispatch!Tallied' /\ \A h \in DispatchGroups : Dispatch!FinalTrue(h)'
        BY <1>1, <1>3, <1>5, <2>1 DEF Dispatch!Handed, Dispatch!Dispatching, Dispatch!Loaded, Dispatch!Tried, Dispatch!Tallied, Dispatch!FinalTrue, Dispatch!Working, Dispatch!ActiveGroups
    <2> QED
        BY <1>4, <2>2, <2>3 DEF Dispatch!Handed
<1>6. ASSUME Dispatch!Ended(job[g]), completed' = completed \union {g}
      PROVE  Dispatch!Working' = Dispatch!Working \ {g} /\ Dispatch!Loaded' /\ toPoll' \subseteq Dispatch!Working'
    <2>1. Dispatch!Working' = Dispatch!Working \ {g}
        BY <1>3, <1>6 DEF Dispatch!Working
    <2>2. job[g] # "running"
        BY <1>6 DEF Dispatch!Ended, Dispatch!TerminalStatuses
    <2>3. Dispatch!Loaded'
        BY <1>1, <1>3, <2>1, <2>2 DEF Dispatch!Handed, Dispatch!Dispatching, Dispatch!Loaded, Dispatch!Running
    <2> QED
        BY <1>1, <2>1, <2>3 DEF Dispatch!Placed
<1>7. CASE /\ Dispatch!Ended(job[g]) /\ completed' = completed \union {g}
           /\ Dispatch!MayRetry(active[g])
           /\ pending' = Append(pending, again)
           /\ UNCHANGED <<accepted, final>>
    <2>1. again \in Dispatch!Entry /\ again.group = g /\ again.attempt = active[g] + 1
        BY <1>2, <1>7 DEF Dispatch!MayRetry, Dispatch!Entry, Dispatch!Bounds
    <2>2. \A x \in Dispatch!Entries(pending) : x.group # again.group
        BY <1>2 DEF Dispatch!Waiting
    <2>3. Dispatch!NoneTwice(pending') /\ Dispatch!Entries(pending') = Dispatch!Entries(pending) \union {again}
        <3>1. pending' = Append(pending, again)
            BY <1>7
        <3>2. pending \in Seq(Dispatch!Entry) /\ Dispatch!NoneTwice(pending)
            BY <1>1 DEF Dispatch!TypeOK, Dispatch!Placed
        <3> HIDE DEF again
        <3> QED
            BY <2>1, <2>2, <3>1, <3>2, DispatchEntryAfter
    <2>4. Dispatch!Waiting' = Dispatch!Waiting \union {g}
        <3> HIDE DEF again
        <3> QED
            BY <2>1, <2>3 DEF Dispatch!Waiting
    <2>5. completed' \subseteq Dispatch!ActiveGroups'
        BY <1>1, <1>2, <1>3, <1>7 DEF Dispatch!Placed, Dispatch!Working
    <2>6. Dispatch!Placed'
        BY <1>1, <1>2, <1>6, <1>7, <2>3, <2>4, <2>5 DEF Dispatch!Placed
    <2>7. Dispatch!Tried'
        <3>1. \A h \in Dispatch!Working' : h \in jobIds' /\ posts'[h] <= active'[h] + 1
            BY <1>1, <1>6, <1>7 DEF Dispatch!Handed, Dispatch!Tried, Dispatch!Dispatching
        <3>2. \A x \in Dispatch!Entries(pending') : posts'[x.group] <= x.attempt
            <4> HIDE DEF again
            <4> QED
                BY <1>1, <1>2, <2>1, <2>3 DEF Dispatch!Handed, Dispatch!Tried, Dispatch!Dispatching
        <3> QED
            BY <1>1, <3>1, <3>2 DEF Dispatch!Handed, Dispatch!Tried
    <2>8. Dispatch!Tallied' /\ \A h \in DispatchGroups : Dispatch!FinalTrue(h)'
        BY <1>1, <1>7 DEF Dispatch!Handed, Dispatch!Tallied, Dispatch!FinalTrue
    <2> QED
        BY <1>4, <1>6, <1>7, <2>6, <2>7, <2>8 DEF Dispatch!Handed
<1>8. CASE /\ Dispatch!Ended(job[g]) /\ completed' = completed \union {g}
           /\ accepted' = accepted + 1
           /\ final' = final \union {g}
           /\ UNCHANGED pending
    <2>1. Dispatch!Waiting' = Dispatch!Waiting
        BY <1>8 DEF Dispatch!Waiting
    <2>2. completed' \subseteq Dispatch!ActiveGroups'
        BY <1>1, <1>2, <1>3, <1>8 DEF Dispatch!Placed, Dispatch!Working
    <2>3. Dispatch!Placed'
        BY <1>1, <1>2, <1>6, <1>8, <2>1, <2>2 DEF Dispatch!Placed
    <2>4. Dispatch!Tallied'
        <3>1. errors \subseteq final /\ final \subseteq DispatchGroups
            BY <1>1 DEF Dispatch!Handed, Dispatch!Tallied, Dispatch!TypeOK
        <3>2. final' \ errors' = (final \ errors) \union {g}
            BY <1>1, <1>2, <1>8, <3>1
        <3>3. Cardinality(final' \ errors') = Cardinality(final \ errors) + 1
            BY <1>2, <3>1, <3>2, DispatchOneMoreGroup
        <3> QED
            BY <1>1, <1>8, <3>1, <3>3, DispatchSizes DEF Dispatch!Handed, Dispatch!Tallied
    <2>5. job[g] # "running"
        BY <1>8 DEF Dispatch!Ended, Dispatch!TerminalStatuses
    <2>6. \A h \in DispatchGroups : Dispatch!FinalTrue(h)'
        BY <1>1, <1>2, <1>8, <2>5 DEF Dispatch!Handed, Dispatch!FinalTrue
    <2>7. Dispatch!Tried'
        BY <1>1, <1>6, <1>8 DEF Dispatch!Handed, Dispatch!Tried, Dispatch!Dispatching
    <2> QED
        BY <1>4, <1>6, <1>8, <2>3, <2>4, <2>6, <2>7 DEF Dispatch!Handed
<1>9. QED
    BY <1>5, <1>7, <1>8 DEF Dispatch!Poll

\* What was found ended is followed no longer.
LEMMA DispatchEndSweepKeeps ==
    ASSUME Dispatch!Bounds, Dispatch!Handed, Dispatch!TypeOK', Dispatch!EndSweep
    PROVE  Dispatch!Handed'
<1>1. /\ dispatchPhase = "sweep" /\ dispatchPhase' = "dispatch" /\ toPoll = {} /\ toPoll' = {} /\ completed' = {}
      /\ active' = [g \in DispatchGroups |-> IF g \in completed THEN Dispatch!NotActive ELSE active[g]]
      /\ UNCHANGED <<pending, accepted, failed, final, errors, jobIds, job, lastKey, posts>>
      /\ Dispatch!TypeOK /\ Dispatch!Placed
    BY DEF Dispatch!EndSweep, Dispatch!StillActive, Dispatch!Handed, Dispatch!Dispatching, Dispatch!sergeVars, Dispatch!reconcileVars
<1>2. Dispatch!ActiveGroups' = Dispatch!Working /\ Dispatch!Working' = Dispatch!Working /\ Dispatch!Waiting' = Dispatch!Waiting /\ Dispatch!Running' = Dispatch!Running
    BY <1>1 DEF Dispatch!ActiveGroups, Dispatch!Working, Dispatch!Waiting, Dispatch!Running
<1>3. \A g \in Dispatch!Working : active'[g] = active[g]
    BY <1>1 DEF Dispatch!Working, Dispatch!ActiveGroups
<1>4. Dispatch!Placed'
    BY <1>1, <1>2 DEF Dispatch!Placed
<1>5. Dispatch!Loaded'
    <2>1. Dispatch!Working \subseteq Dispatch!ActiveGroups /\ Dispatch!ActiveGroups \subseteq DispatchGroups
        BY DEF Dispatch!Working, Dispatch!ActiveGroups
    <2>2. Cardinality(Dispatch!Working) <= Cardinality(Dispatch!ActiveGroups)
        BY <2>1, DispatchCountable, FS_Subset
    <2>3. Cardinality(Dispatch!ActiveGroups) <= Limit /\ Cardinality(Dispatch!Working) \in Nat /\ Cardinality(Dispatch!ActiveGroups) \in Nat
        BY <1>1, <2>1, DispatchCountable, DispatchSizes DEF Dispatch!Handed, Dispatch!Loaded, Dispatch!Dispatching
    <2>4. Cardinality(Dispatch!Working) <= Limit
        BY <2>2, <2>3 DEF Dispatch!Bounds
    <2> QED
        BY <1>1, <1>2, <2>4, DispatchSizes DEF Dispatch!Handed, Dispatch!Loaded, Dispatch!Dispatching
<1>6. Dispatch!Tried' /\ Dispatch!Tallied' /\ \A g \in DispatchGroups : Dispatch!FinalTrue(g)'
    BY <1>1, <1>2, <1>3 DEF Dispatch!Handed, Dispatch!Dispatching, Dispatch!Tried, Dispatch!Tallied, Dispatch!FinalTrue
<1>7. Dispatch!Reconciled' /\ Dispatch!EndsInformed'
    BY <1>1 DEF Dispatch!Handed, Dispatch!Reconciled, Dispatch!EndsInformed
<1>8. QED
    BY <1>4, <1>5, <1>6, <1>7 DEF Dispatch!Handed

\* Dispatch ends when nothing waits and nothing is followed: all are counted.
LEMMA DispatchDispatchEndsKeeps ==
    ASSUME Dispatch!Bounds, Dispatch!Handed, Dispatch!TypeOK', Dispatch!DispatchEnds
    PROVE  Dispatch!Handed'
<1>1. /\ dispatchPhase = "dispatch" /\ dispatchPhase' = "reconcile" /\ pending = <<>> /\ Dispatch!ActiveGroups = {}
      /\ failed' = failed + (Cardinality(DispatchGroups) - Cardinality(final))
      /\ UNCHANGED <<accepted, final, errors, jobIds, job, lastKey, posts>>
      /\ Dispatch!TypeOK /\ Dispatch!Placed
    BY DispatchSizes DEF Dispatch!DispatchEnds, Dispatch!Handed, Dispatch!Dispatching, Dispatch!sergeVars
<1>2. Dispatch!Waiting = {} /\ Dispatch!Working = {}
    BY <1>1 DEF Dispatch!Waiting, Dispatch!Working, Dispatch!Entries
<1>3. final = DispatchGroups
    BY <1>1, <1>2 DEF Dispatch!Placed
<1>4. failed' = failed
    BY <1>1, <1>3, DispatchCountable DEF Dispatch!TypeOK
<1>5. Dispatch!Running' = Dispatch!Running
    BY <1>1 DEF Dispatch!Running
<1>6. Dispatch!Loaded' /\ Dispatch!Tried' /\ Dispatch!Tallied' /\ \A g \in DispatchGroups : Dispatch!FinalTrue(g)'
    BY <1>1, <1>4, <1>5 DEF Dispatch!Handed, Dispatch!Dispatching, Dispatch!Loaded, Dispatch!Tried, Dispatch!Tallied, Dispatch!FinalTrue
<1>7. Dispatch!Reconciled' /\ Dispatch!EndsInformed' /\ (Dispatch!Dispatching => Dispatch!Placed)'
    BY <1>1, <1>3 DEF Dispatch!Handed, Dispatch!Reconciled, Dispatch!EndsInformed, Dispatch!Dispatching
<1>8. QED
    BY <1>6, <1>7 DEF Dispatch!Handed

\* A poll of the reconcile that is not over changes nothing that is counted.
LEMMA DispatchAskingKeeps ==
    ASSUME Dispatch!Bounds, Dispatch!Handed, Dispatch!TypeOK', Dispatch!ListPulls \/ \E g \in DispatchGroups : Dispatch!Ask(g)
    PROVE  Dispatch!Handed'
<1>1. /\ dispatchPhase \in {"reconcile", "ask"} /\ dispatchPhase' = "ask"
      /\ UNCHANGED <<accepted, failed, final, errors, jobIds, job, lastKey, posts>>
    BY DEF Dispatch!ListPulls, Dispatch!Ask, Dispatch!dispatchVars, Dispatch!sergeVars
<1>2. Dispatch!Running' = Dispatch!Running
    BY <1>1 DEF Dispatch!Running
<1>3. Dispatch!Loaded' /\ Dispatch!Tried' /\ Dispatch!Tallied' /\ \A g \in DispatchGroups : Dispatch!FinalTrue(g)'
    BY <1>1, <1>2 DEF Dispatch!Handed, Dispatch!Dispatching, Dispatch!Loaded, Dispatch!Tried, Dispatch!Tallied, Dispatch!FinalTrue
<1>4. Dispatch!Reconciled' /\ Dispatch!EndsInformed' /\ (Dispatch!Dispatching => Dispatch!Placed)'
    BY <1>1 DEF Dispatch!Handed, Dispatch!Reconciled, Dispatch!EndsInformed, Dispatch!Dispatching
<1>5. QED
    BY <1>3, <1>4 DEF Dispatch!Handed

\* The run goes on until every group is linked or resolved without a pull
\* request; the counts then grew, and the table is written.
LEMMA DispatchEndPollKeeps ==
    ASSUME Dispatch!Bounds, Dispatch!Handed, Dispatch!TypeOK', Dispatch!EndPoll
    PROVE  Dispatch!Handed'
<1> DEFINE sum == Cardinality(linked) + Cardinality(Dispatch!TerminalGroups)
<1>1. /\ dispatchPhase = "ask" /\ Dispatch!TypeOK
      /\ lastKey' = <<Cardinality(linked), Cardinality(Dispatch!TerminalGroups)>>
      /\ dispatchPolls' = dispatchPolls + 1
      /\ dispatchPhase' = IF sum >= Cardinality(DispatchGroups) \/ dispatchPolls' >= DispatchMaxPolls THEN "ended" ELSE "reconcile"
      /\ UNCHANGED <<accepted, failed, final, errors, jobIds, job, posts>>
    BY DispatchSizes DEF Dispatch!EndPoll, Dispatch!Handed, Dispatch!sergeVars
<1>2. Dispatch!Running' = Dispatch!Running /\ dispatchPhase' \in {"ended", "reconcile"}
    BY <1>1 DEF Dispatch!Running
<1>3. Dispatch!Loaded' /\ Dispatch!Tried' /\ Dispatch!Tallied' /\ \A g \in DispatchGroups : Dispatch!FinalTrue(g)'
    BY <1>1, <1>2 DEF Dispatch!Handed, Dispatch!Dispatching, Dispatch!Loaded, Dispatch!Tried, Dispatch!Tallied, Dispatch!FinalTrue
<1>4. /\ linked \subseteq DispatchGroups /\ Dispatch!TerminalGroups \subseteq DispatchGroups
      /\ linked \intersect Dispatch!TerminalGroups = {}
    BY <1>1 DEF Dispatch!TypeOK, Dispatch!TerminalGroups
<1>5. /\ Cardinality(linked) \in Nat /\ Cardinality(Dispatch!TerminalGroups) \in Nat
      /\ Cardinality(DispatchGroups) \in Nat
    BY <1>4, DispatchCountable
<1>6. Cardinality(linked \union Dispatch!TerminalGroups) = sum
    <2>1. IsFiniteSet(linked) /\ IsFiniteSet(Dispatch!TerminalGroups)
        BY <1>4, DispatchCountable
    <2> QED
        BY <1>4, <1>5, <2>1, FS_Union, FS_EmptySet
<1>7. sum >= Cardinality(DispatchGroups) => linked \union Dispatch!TerminalGroups = DispatchGroups
    <2>1. linked \union Dispatch!TerminalGroups \subseteq DispatchGroups
        BY <1>4
    <2>2. sum <= Cardinality(DispatchGroups)
        BY <1>6, <2>1, DispatchCountable
    <2>3. sum >= Cardinality(DispatchGroups) => Cardinality(linked \union Dispatch!TerminalGroups) = Cardinality(DispatchGroups)
        BY <1>5, <1>6, <2>2
    <2> QED
        BY <2>1, <2>3, FS_Subset, DispatchSizes DEF Dispatch!Bounds
<1>8. Dispatch!Reconciled'
    <2>1. lastKey'[1] + lastKey'[2] = sum
        BY <1>1
    <2> HIDE DEF sum
    <2>2. sum \in Nat
        BY <1>5 DEF sum
    <2>3. dispatchPhase' = "reconcile" => sum < Cardinality(DispatchGroups)
        BY <1>1, <1>5, <2>2
    <2> QED
        BY <1>1, <1>2, <2>1, <2>3, DispatchSizes DEF Dispatch!Handed, Dispatch!Reconciled
<1>9. Dispatch!EndsInformed'
    <2> SUFFICES ASSUME dispatchPhase' = "ended", dispatchPolls' < DispatchMaxPolls, written' PROVE \A g \in DispatchGroups : shown'[g] # "pending"
        BY DEF Dispatch!EndsInformed
    <2>1. sum >= Cardinality(DispatchGroups)
        BY <1>1 DEF Dispatch!TypeOK, Dispatch!Bounds
    <2>2. \A g \in DispatchGroups : Dispatch!Cell(g) # "pending"
        BY <1>7, <2>1 DEF Dispatch!TerminalGroups, Dispatch!Cell, Dispatch!NoPrEnd
    <2>3. lastKey' # lastKey
        BY <1>1, <1>5, <2>1, DispatchSizes DEF Dispatch!Handed, Dispatch!Reconciled, Dispatch!TypeOK
    <2>4. shown' = [g \in DispatchGroups |-> Dispatch!Cell(g)]
        BY <1>1, <2>3 DEF Dispatch!EndPoll
    <2> QED
        BY <2>2, <2>4
<1>10. (Dispatch!Dispatching => Dispatch!Placed)'
    BY <1>2 DEF Dispatch!Dispatching
<1>11. QED
    BY <1>3, <1>8, <1>9, <1>10 DEF Dispatch!Handed

\* A run that dies of an unanswered post leaves Serge one job it does not know.
LEMMA DispatchCallTimesOutKeeps ==
    ASSUME Dispatch!Bounds, Dispatch!Handed, Dispatch!TypeOK', Dispatch!CallTimesOut
    PROVE  Dispatch!Handed'
<1>1. /\ dispatchPhase' = "died" /\ Dispatch!TypeOK
      /\ UNCHANGED <<accepted, failed, final, errors, jobIds, lastKey, posts>>
    BY DEF Dispatch!CallTimesOut, Dispatch!Handed, Dispatch!reconcileVars
<1>2. Dispatch!Tried' /\ Dispatch!Tallied' /\ Dispatch!Reconciled' /\ Dispatch!EndsInformed' /\ (Dispatch!Dispatching => Dispatch!Placed)'
    BY <1>1 DEF Dispatch!Handed, Dispatch!Dispatching, Dispatch!Tried, Dispatch!Tallied, Dispatch!Reconciled, Dispatch!EndsInformed
<1>3. CASE UNCHANGED job
    <2>1. Dispatch!Running' = Dispatch!Running
        BY <1>3 DEF Dispatch!Running
    <2> QED
        BY <1>1, <1>2, <1>3, <2>1 DEF Dispatch!Handed, Dispatch!Loaded, Dispatch!Dispatching, Dispatch!FinalTrue
<1>4. CASE /\ dispatchPhase = "dispatch" /\ pending # <<>> /\ Cardinality(Dispatch!ActiveGroups) < Limit
           /\ job' = [job EXCEPT ![Head(pending).group] = "running"]
    <2>1. Dispatch!Placed /\ pending \in Seq(Dispatch!Entry) /\ Dispatch!NoneTwice(pending)
        BY <1>1, <1>4 DEF Dispatch!Handed, Dispatch!Dispatching, Dispatch!Placed, Dispatch!TypeOK
    <2>2. Head(pending) \in Dispatch!Entries(pending) /\ Head(pending) \in Dispatch!Entry
        BY <1>4, <2>1, DispatchTailEntries
    <2>3. PICK g \in DispatchGroups : g = Head(pending).group
        BY <2>2 DEF Dispatch!Entry
    <2>4. g \notin final /\ Dispatch!Running \subseteq Dispatch!ActiveGroups
        BY <1>4, <2>1, <2>2, <2>3 DEF Dispatch!Placed, Dispatch!Waiting, Dispatch!Handed, Dispatch!Loaded, Dispatch!Dispatching, Dispatch!Working
    <2>5. job'[g] = "running" /\ \A h \in DispatchGroups \ {g} : job'[h] = job[h]
        BY <1>1, <1>4, <2>3 DEF Dispatch!TypeOK
    <2>6. \A h \in DispatchGroups : Dispatch!FinalTrue(h)'
        BY <1>1, <2>4, <2>5 DEF Dispatch!Handed, Dispatch!FinalTrue
    <2>7. Dispatch!Running' \subseteq Dispatch!ActiveGroups \union {g} /\ Dispatch!ActiveGroups \subseteq DispatchGroups
        BY <2>4, <2>5 DEF Dispatch!Running, Dispatch!ActiveGroups
    <2>8. Cardinality(Dispatch!Running') <= Limit
        <3>1. IsFiniteSet(Dispatch!ActiveGroups) /\ Cardinality(Dispatch!ActiveGroups) \in Nat
            BY <2>7, DispatchCountable
        <3>2. /\ IsFiniteSet(Dispatch!ActiveGroups \union {g})
              /\ Cardinality(Dispatch!ActiveGroups \union {g}) <= Cardinality(Dispatch!ActiveGroups) + 1
              /\ Cardinality(Dispatch!ActiveGroups \union {g}) \in Nat
            <4>1. /\ IsFiniteSet(Dispatch!ActiveGroups \union {g})
                  /\ Cardinality(Dispatch!ActiveGroups \union {g}) \in {Cardinality(Dispatch!ActiveGroups), Cardinality(Dispatch!ActiveGroups) + 1}
                BY <3>1, FS_AddElement
            <4> QED
                BY <3>1, <4>1
        <3>3. Cardinality(Dispatch!Running') <= Cardinality(Dispatch!ActiveGroups \union {g}) /\ Cardinality(Dispatch!Running') \in Nat
            BY <2>7, <3>2, FS_Subset, FS_CardinalityType
        <3> QED
            BY <1>4, <3>1, <3>2, <3>3 DEF Dispatch!Bounds
    <2> QED
        BY <1>1, <1>2, <2>6, <2>8, DispatchSizes DEF Dispatch!Handed, Dispatch!Loaded, Dispatch!Dispatching
<1>5. QED
    BY <1>3, <1>4, DispatchSizes DEF Dispatch!CallTimesOut

LEMMA DispatchHandedNext ==
    ASSUME Dispatch!Bounds, Dispatch!Handed, [Dispatch!Next]_(Dispatch!triageVars)
    PROVE  Dispatch!Handed'
<1>1. Dispatch!TypeOK'
    BY DispatchTypeNext DEF Dispatch!Handed
<1>2. CASE UNCHANGED Dispatch!triageVars
    BY <1>1, <1>2 DEF Dispatch!Handed, Dispatch!triageVars, Dispatch!dispatchVars, Dispatch!sergeVars, Dispatch!reconcileVars, Dispatch!Dispatching, Dispatch!Placed,
                      Dispatch!Waiting, Dispatch!Working, Dispatch!ActiveGroups, Dispatch!Running, Dispatch!FinalTrue, Dispatch!Tallied, Dispatch!Loaded, Dispatch!Tried, Dispatch!Reconciled, Dispatch!EndsInformed
<1>3. CASE Dispatch!Next
    <2>1. ASSUME NEW g \in DispatchGroups, Dispatch!SergeEnds(g) \/ Dispatch!PullRequestCloses(g) \/ Dispatch!PullRequestOpens(g) PROVE Dispatch!Handed'
        BY <1>1, <2>1, DispatchOthersKeep
    <2>2. ASSUME NEW g \in DispatchGroups, Dispatch!Poll(g) PROVE Dispatch!Handed'
        BY <1>1, <2>2, DispatchPollKeeps
    <2> QED
        BY <1>1, <1>3, <2>1, <2>2, DispatchPostKeeps, DispatchBeginSweepKeeps, DispatchEndSweepKeeps, DispatchDispatchEndsKeeps,
           DispatchAskingKeeps, DispatchEndPollKeeps, DispatchCallTimesOutKeeps DEF Dispatch!Next
<1>4. QED
    BY <1>2, <1>3

LEMMA DispatchHandedInit ==
    ASSUME Dispatch!Bounds, Dispatch!Init
    PROVE  Dispatch!Handed
<1>1. PICK order \in Dispatch!SetToSeqs(DispatchGroups) :
          pending = [i \in DOMAIN order |-> [group |-> order[i], attempt |-> 0]]
    BY DEF Dispatch!Init
<1>2. /\ order \in Seq(DispatchGroups)
      /\ \A i, j \in DOMAIN order : order[i] = order[j] => i = j
      /\ \A g \in DispatchGroups : \E i \in DOMAIN order : order[i] = g
    BY DispatchOrderOfAll
<1>3. pending \in Seq(Dispatch!Entry) /\ DOMAIN pending = DOMAIN order
    <2>1. Len(order) \in Nat /\ DOMAIN order = 1..Len(order) /\ \A i \in DOMAIN order : order[i] \in DispatchGroups
        BY <1>2
    <2>2. \A i \in DOMAIN order : [group |-> order[i], attempt |-> 0] \in Dispatch!Entry
        BY <2>1 DEF Dispatch!Entry, Dispatch!Bounds
    <2>3. pending \in [1..Len(order) -> Dispatch!Entry]
        BY <1>1, <2>1, <2>2
    <2> QED
        BY <2>1, <2>3
<1>4. \A i \in DOMAIN order : pending[i].group = order[i] /\ pending[i].attempt = 0
    BY <1>1
<1>5. Dispatch!NoneTwice(pending) /\ Dispatch!Waiting = DispatchGroups
    BY <1>2, <1>3, <1>4 DEF Dispatch!NoneTwice, Dispatch!Waiting, Dispatch!Entries
<1>6. Dispatch!ActiveGroups = {} /\ Dispatch!Working = {} /\ Dispatch!Running = {}
    BY DEF Dispatch!Init, Dispatch!ActiveGroups, Dispatch!Working, Dispatch!Running, Dispatch!NoStatus
<1>7. Dispatch!TypeOK
    BY <1>3 DEF Dispatch!Init, Dispatch!TypeOK, Dispatch!JobStates, Dispatch!Statuses, Dispatch!Cells, Dispatch!NotActive, Dispatch!NoStatus
<1>8. Dispatch!Placed
    BY <1>5, <1>6 DEF Dispatch!Init, Dispatch!Placed
<1>9. Dispatch!Tallied /\ Dispatch!Loaded
    BY <1>6, FS_EmptySet, DispatchSizes DEF Dispatch!Init, Dispatch!Tallied, Dispatch!Loaded, Dispatch!Bounds
<1>10. Dispatch!Tried
    <2>1. \A g \in DispatchGroups : posts[g] = 0
        BY DEF Dispatch!Init
    <2>2. \A e \in Dispatch!Entries(pending) : e.group \in DispatchGroups /\ e.attempt = 0
        <3>1. \A i \in DOMAIN order : order[i] \in DispatchGroups
            BY <1>2
        <3> QED
            BY <1>3, <1>4, <3>1 DEF Dispatch!Entries
    <2> QED
        BY <1>6, <2>1, <2>2 DEF Dispatch!Tried, Dispatch!Bounds
<1>11. Dispatch!Reconciled /\ Dispatch!EndsInformed /\ \A g \in DispatchGroups : Dispatch!FinalTrue(g)
    BY DispatchCountable, DispatchSizes DEF Dispatch!Init, Dispatch!Reconciled, Dispatch!EndsInformed, Dispatch!FinalTrue
<1>12. QED
    BY <1>7, <1>8, <1>9, <1>10, <1>11 DEF Dispatch!Handed

-----------------------------------------------------------------------------
(* Theorems                                                                  *)

\* Whatever Serge answers, refuses or leaves unanswered, every group of the run
\* is in one place, counted truly, and tried no more often than agreed.
THEOREM DispatchHandedCorrect == ASSUME Dispatch!Bounds PROVE Dispatch!SafetySpec => []Dispatch!Handed
<1>1. Dispatch!Init => Dispatch!Handed
    BY DispatchHandedInit
<1>2. Dispatch!Handed /\ [Dispatch!Next]_(Dispatch!triageVars) => Dispatch!Handed'
    BY DispatchHandedNext
<1>3. QED
    BY <1>1, <1>2, PTL DEF Dispatch!SafetySpec

\* Serge never works on more of the run's groups at once than serge_concurrency
\* allows, and no group is posted more often than its retries allow.
THEOREM DispatchBoundedLoadCorrect == ASSUME Dispatch!Bounds PROVE Dispatch!SafetySpec => []Dispatch!BoundedLoad
<1>1. Dispatch!Handed => Dispatch!BoundedLoad
    BY DEF Dispatch!Handed, Dispatch!Loaded, Dispatch!Tried, Dispatch!Running, Dispatch!BoundedLoad
<1>2. QED
    BY <1>1, DispatchHandedCorrect, PTL

\* When dispatch is over, accepted and failed add up to the groups, and a group
\* without a job has its error.
THEOREM DispatchEveryGroupCountedCorrect == ASSUME Dispatch!Bounds PROVE Dispatch!SafetySpec => []Dispatch!EveryGroupCounted
<1>1. Dispatch!Handed => Dispatch!EveryGroupCounted
    <2> SUFFICES ASSUME Dispatch!Handed, dispatchPhase \in {"reconcile", "ask", "ended"}
                 PROVE  /\ accepted + failed = Cardinality(DispatchGroups)
                        /\ failed = Cardinality(errors)
                        /\ DispatchGroups \ jobIds \subseteq errors
                        /\ \A g \in DispatchGroups \ errors : Dispatch!Ended(job[g])
        BY DispatchSizes DEF Dispatch!EveryGroupCounted
    <2>1. final = DispatchGroups /\ errors \subseteq DispatchGroups
        BY DEF Dispatch!Handed, Dispatch!Reconciled, Dispatch!TypeOK
    <2>2. \A g \in DispatchGroups : g \in errors \/ (g \in jobIds /\ Dispatch!Ended(job[g]))
        BY <2>1 DEF Dispatch!Handed, Dispatch!FinalTrue
    <2>3. accepted + failed = Cardinality(DispatchGroups)
        <3>1. IsFiniteSet(errors) /\ IsFiniteSet(DispatchGroups \ errors)
            BY <2>1, DispatchCountable
        <3>2. (DispatchGroups \ errors) \union errors = DispatchGroups /\ (DispatchGroups \ errors) \intersect errors = {}
            BY <2>1
        <3>3. accepted = Cardinality(DispatchGroups \ errors) /\ failed = Cardinality(errors)
            BY <2>1, DispatchSizes DEF Dispatch!Handed, Dispatch!Tallied
        <3> QED
            <4>1. Cardinality(DispatchGroups) = Cardinality(DispatchGroups \ errors) + Cardinality(errors) - 0
                BY <3>1, <3>2, FS_Union, FS_EmptySet
            <4>2. Cardinality(DispatchGroups \ errors) \in Nat /\ Cardinality(errors) \in Nat
                BY <3>1, FS_CardinalityType
            <4> QED
                BY <3>3, <4>1, <4>2
    <2> QED
        BY <2>2, <2>3, DispatchSizes DEF Dispatch!Handed, Dispatch!Tallied
<1>2. QED
    BY <1>1, DispatchHandedCorrect, PTL

\* A reconcile that ends before its time has told every group's end in the table.
THEOREM DispatchEndsInformedCorrect == ASSUME Dispatch!Bounds PROVE Dispatch!SafetySpec => []Dispatch!EndsInformed
<1>1. Dispatch!Handed => Dispatch!EndsInformed
    BY DEF Dispatch!Handed
<1>2. QED
    BY <1>1, DispatchHandedCorrect, PTL

-----------------------------------------------------------------------------
(* Proofs, for any dispatchers and polls *)

LEMMA DashboardTypeNext == ASSUME Dashboard!TypeOK, [Dashboard!Next]_(Dashboard!dashboardVars) PROVE Dashboard!TypeOK'
<1>1. CASE UNCHANGED Dashboard!dashboardVars
    BY <1>1 DEF Dashboard!dashboardVars, Dashboard!TypeOK
<1>2. ASSUME NEW d \in Runners,
             \/ Dashboard!Fetch(d) \/ Dashboard!Check(d) \/ Dashboard!Refuse(d) \/ Dashboard!EnsureIssue(d) \/ Dashboard!Dispatch(d) \/ Dashboard!Record(d)
             \/ Dashboard!Poll(d) \/ Dashboard!Refresh(d) \/ Dashboard!SergeEnds(d)
      PROVE  Dashboard!TypeOK'
    <2>1. pc' \in [Runners -> Dashboard!Stages]
        BY <1>2 DEF Dashboard!Fetch, Dashboard!Check, Dashboard!Refuse, Dashboard!EnsureIssue, Dashboard!Dispatch, Dashboard!Record, Dashboard!Poll, Dashboard!Refresh,
                    Dashboard!SergeEnds, Dashboard!Go, Dashboard!TypeOK, Dashboard!Stages
    <2>2. forced' \in [Runners -> BOOLEAN] /\ identity' \in [Runners -> Dashboard!Identities]
        BY <1>2 DEF Dashboard!Fetch, Dashboard!Check, Dashboard!Refuse, Dashboard!EnsureIssue, Dashboard!Dispatch, Dashboard!Record, Dashboard!Poll, Dashboard!Refresh,
                    Dashboard!SergeEnds, Dashboard!TypeOK, Dashboard!Identities
    <2>3. task' \in [Runners -> {"none", "running", "published", "no_fix", "error"}]
        BY <1>2 DEF Dashboard!Fetch, Dashboard!Check, Dashboard!Refuse, Dashboard!EnsureIssue, Dashboard!Dispatch, Dashboard!Record, Dashboard!Poll, Dashboard!Refresh,
                    Dashboard!SergeEnds, Dashboard!TypeOK
    <2>4. issue' \in [Dashboard!Identities -> {"none", "open", "closed"}]
        BY <1>2 DEF Dashboard!Fetch, Dashboard!Check, Dashboard!Refuse, Dashboard!EnsureIssue, Dashboard!Dispatch, Dashboard!Record, Dashboard!Poll, Dashboard!Refresh,
                    Dashboard!SergeEnds, Dashboard!TypeOK
    <2>5. QED
        BY <2>1, <2>2, <2>3, <2>4 DEF Dashboard!TypeOK
<1>3. CASE Dashboard!People
    BY <1>3 DEF Dashboard!People, Dashboard!TypeOK
<1>4. QED
    BY <1>1, <1>2, <1>3 DEF Dashboard!Next

\* A check that comes after another's task finds the issue that was opened for it.
LEMMA DashboardCheckLocking ==
    ASSUME Dashboard!Locking, Dashboard!TypeOK', NEW d \in Runners, Dashboard!Check(d)
    PROVE  Dashboard!Locking'
<1>1. /\ pc[d] = "check" /\ pc' = [pc EXCEPT ![d] = "decide"]
      /\ UNCHANGED <<identity, forced, task, issue>>
    BY DEF Dashboard!Check, Dashboard!Go
<1>2. /\ late \subseteq late' /\ late' \subseteq late \union {d}
      /\ locked \subseteq locked' /\ (d \in late' => d \in locked')
    BY DEF Dashboard!Check, Dashboard!Locking, Dashboard!HeldLate, Dashboard!TakenWith, Dashboard!Held
<1>3. task[d] = "none"
    BY <1>1 DEF Dashboard!Locking, Dashboard!SentOnce
<1>4. \A e \in Runners : Dashboard!SentOnce(e)'
    BY <1>1, <1>3 DEF Dashboard!Locking, Dashboard!SentOnce, Dashboard!TypeOK
<1>5. \A e \in Runners : Dashboard!HeldLate(e)'
    BY <1>1, <1>2 DEF Dashboard!Locking, Dashboard!HeldLate, Dashboard!TypeOK
<1>6. Dashboard!LockedFromDispatch'
    BY <1>1, <1>2, <1>3 DEF Dashboard!Locking, Dashboard!LockedFromDispatch
<1>7. QED
    BY <1>2, <1>4, <1>5, <1>6 DEF Dashboard!Locking

LEMMA DashboardDispatcherLocking ==
    ASSUME Dashboard!Locking, Dashboard!TypeOK', NEW d \in Runners,
           \/ Dashboard!Fetch(d) \/ Dashboard!Refuse(d) \/ Dashboard!EnsureIssue(d) \/ Dashboard!Dispatch(d) \/ Dashboard!Record(d)
           \/ Dashboard!Poll(d) \/ Dashboard!Refresh(d) \/ Dashboard!SergeEnds(d)
    PROVE  Dashboard!Locking'
<1>1. UNCHANGED <<late, locked>>
    BY DEF Dashboard!Fetch, Dashboard!Refuse, Dashboard!EnsureIssue, Dashboard!Dispatch, Dashboard!Record, Dashboard!Poll, Dashboard!Refresh, Dashboard!SergeEnds
<1>2. \A e \in Runners \ {d} :
          pc'[e] = pc[e] /\ forced'[e] = forced[e] /\ task'[e] = task[e]
    BY DEF Dashboard!Locking, Dashboard!TypeOK, Dashboard!Fetch, Dashboard!Refuse, Dashboard!EnsureIssue, Dashboard!Dispatch, Dashboard!Record, Dashboard!Poll, Dashboard!Refresh, Dashboard!SergeEnds, Dashboard!Go
<1>3. Dashboard!SentOnce(d)'
    BY DEF Dashboard!Locking, Dashboard!TypeOK, Dashboard!SentOnce, Dashboard!Fetch, Dashboard!Refuse, Dashboard!EnsureIssue, Dashboard!Dispatch, Dashboard!Record, Dashboard!Poll,
           Dashboard!Refresh, Dashboard!SergeEnds, Dashboard!Go
<1>4. Dashboard!HeldLate(d)'
    BY <1>1 DEF Dashboard!Locking, Dashboard!TypeOK, Dashboard!HeldLate, Dashboard!SentOnce, Dashboard!Fetch, Dashboard!Refuse, Dashboard!EnsureIssue, Dashboard!Dispatch,
                Dashboard!Record, Dashboard!Poll, Dashboard!Refresh, Dashboard!SergeEnds, Dashboard!Go
<1>5. (d \in late' /\ task'[d] # "none") => forced'[d]
    BY <1>1 DEF Dashboard!Locking, Dashboard!TypeOK, Dashboard!HeldLate, Dashboard!SentOnce, Dashboard!LockedFromDispatch, Dashboard!Fetch, Dashboard!Refuse,
                Dashboard!EnsureIssue, Dashboard!Dispatch, Dashboard!Record, Dashboard!Poll, Dashboard!Refresh, Dashboard!SergeEnds, Dashboard!Go
<1>6. Dashboard!LockedFromDispatch'
    BY <1>1, <1>2, <1>5 DEF Dashboard!Locking, Dashboard!LockedFromDispatch
<1>7. QED
    BY <1>1, <1>2, <1>3, <1>4, <1>6 DEF Dashboard!Locking, Dashboard!SentOnce, Dashboard!HeldLate

\* The inductive invariant holds in every state the program can reach.
THEOREM DashboardLockingCorrect == Dashboard!Spec => []Dashboard!Locking
<1>1. Dashboard!Init => Dashboard!Locking
    BY DEF Dashboard!Init, Dashboard!Locking, Dashboard!TypeOK, Dashboard!Stages, Dashboard!Identities, Dashboard!SentOnce, Dashboard!HeldLate, Dashboard!LockedFromDispatch
<1>2. Dashboard!Locking /\ [Dashboard!Next]_(Dashboard!dashboardVars) => Dashboard!Locking'
    <2> SUFFICES ASSUME Dashboard!Locking, [Dashboard!Next]_(Dashboard!dashboardVars) PROVE Dashboard!Locking'
        OBVIOUS
    <2>1. Dashboard!TypeOK'
        BY DashboardTypeNext DEF Dashboard!Locking
    <2>2. CASE UNCHANGED Dashboard!dashboardVars \/ Dashboard!People
        <3>1. UNCHANGED <<pc, forced, task, locked, late>>
            BY <2>2 DEF Dashboard!dashboardVars, Dashboard!People
        <3> QED
            BY <2>1, <3>1 DEF Dashboard!Locking, Dashboard!SentOnce, Dashboard!HeldLate, Dashboard!LockedFromDispatch
    <2>3. QED
        BY <2>1, <2>2, DashboardCheckLocking, DashboardDispatcherLocking DEF Dashboard!Next
<1>3. QED
    BY <1>1, <1>2, PTL DEF Dashboard!Spec

-----------------------------------------------------------------------------
(* Proofs, for any runners, groups, models, days and bounds.  First what the *)
(* operators return.                                                         *)

\* The sizes Night counts are those of any other module.
LEMMA NightSizes ==
    \A S : Night!IsFiniteSet(S) = IsFiniteSet(S) /\ Night!Cardinality(S) = Cardinality(S)
BY Zenon DEF Night!IsFiniteSet, IsFiniteSet, Night!Cardinality, Cardinality

LEMMA NightRenderedTyped ==
    ASSUME Night!TypeOK, NEW w \in Night!Run
    PROVE  /\ Night!Rendered(w) \in Night!Issue /\ Night!Rendered(w).key = w.key /\ Night!Rendered(w).open
           /\ Night!Reasoned(w) => Night!Reasoned(Night!Rendered(w))
           /\ \A row \in Night!Rendered(w).rows : row.group \in w.targets \/ row \in w.rows
           /\ w.rows \subseteq Night!Rendered(w).rows
<1>1. /\ w.targets \subseteq NightGroups /\ w.rows \subseteq Night!Row /\ w.recap \subseteq NightGroups
      /\ w.key \in Keys \union {0} /\ w.status \in [NightGroups -> Night!Fates]
    BY DEF Night!Run
<1>2. \A g \in NightGroups : Night!Cell(w, g) \in {"pending", "pr"} \union Night!Explained
    BY <1>1 DEF Night!Cell
<1>3. {[group |-> g, cell |-> Night!Cell(w, g)] : g \in w.targets} \subseteq Night!Row
    BY <1>1, <1>2 DEF Night!Row
<1>4. Night!Rendered(w) \in Night!Issue
    BY <1>1, <1>3 DEF Night!Rendered, Night!Issue
<1>5. Night!Reasoned(w) => Night!Reasoned(Night!Rendered(w))
    <2> SUFFICES ASSUME Night!Reasoned(w), NEW row \in Night!Rendered(w).rows, row.cell \in Night!Explained
                 PROVE  row.group \in Night!Rendered(w).recap
        BY DEF Night!Reasoned
    <2>1. CASE row \in w.rows
        BY <2>1 DEF Night!Reasoned, Night!Rendered
    <2>2. CASE row \in {[group |-> g, cell |-> Night!Cell(w, g)] : g \in w.targets}
        <3>1. PICK g \in w.targets : row = [group |-> g, cell |-> Night!Cell(w, g)]
            BY <2>2
        <3>2. ~nightPulls[g] /\ w.status[g] \in Night!Explained
            BY <3>1 DEF Night!Cell, Night!Explained
        <3> QED
            BY <3>1, <3>2 DEF Night!Rendered
    <2> QED
        BY <2>1, <2>2 DEF Night!Rendered
<1>6. \A row \in Night!Rendered(w).rows : row.group \in w.targets \/ row \in w.rows
    <2>1. \A row \in {[group |-> g, cell |-> Night!Cell(w, g)] : g \in w.targets} : row.group \in w.targets
        OBVIOUS
    <2> QED
        BY <2>1 DEF Night!Rendered
<1>7. QED
    BY <1>4, <1>5, <1>6 DEF Night!Rendered

LEMMA NightPatchedTyped ==
    ASSUME Night!TypeOK, NEW w \in Night!Run, NEW n \in Night!Numbers
    PROVE  /\ DOMAIN Night!Patched(n, w) = Night!Numbers
           /\ \A m \in Night!Numbers \ {n} : Night!Patched(n, w)[m] = issues[m]
           /\ Night!Patched(n, w)[n] \in Night!Issue
           /\ Night!Patched(n, w)[n].key = w.key /\ Night!Patched(n, w)[n].open = issues[n].open
           /\ Night!Patched(n, w)[n].rows = Night!Rendered(w).rows
           /\ Night!Patched(n, w)[n].recap = Night!Rendered(w).recap
<1>1. Night!Rendered(w) \in Night!Issue /\ Night!Rendered(w).key = w.key /\ issues[n] \in Night!Issue
    BY NightRenderedTyped DEF Night!TypeOK
<1>2. issues[n].open \in BOOLEAN
    BY <1>1 DEF Night!Issue
<1>3. [Night!Rendered(w) EXCEPT !.open = issues[n].open] \in Night!Issue
    BY <1>1, <1>2 DEF Night!Issue
<1>4. /\ [Night!Rendered(w) EXCEPT !.open = issues[n].open].key = w.key
      /\ [Night!Rendered(w) EXCEPT !.open = issues[n].open].open = issues[n].open
      /\ [Night!Rendered(w) EXCEPT !.open = issues[n].open].rows = Night!Rendered(w).rows
      /\ [Night!Rendered(w) EXCEPT !.open = issues[n].open].recap = Night!Rendered(w).recap
    BY <1>1 DEF Night!Issue
<1>5. /\ DOMAIN Night!Patched(n, w) = Night!Numbers
      /\ \A m \in Night!Numbers \ {n} : Night!Patched(n, w)[m] = issues[m]
      /\ Night!Patched(n, w)[n] = [Night!Rendered(w) EXCEPT !.open = issues[n].open]
    BY DEF Night!Patched, Night!TypeOK, Night!Numbers
<1>6. QED
    BY <1>3, <1>4, <1>5

LEMMA NightIdleTyped ==
    /\ Night!Idle \in Night!Run /\ Night!Reasoned(Night!Idle)
    /\ Night!Idle.phase = "idle" /\ Night!Idle.issue = Night!NoIssue /\ Night!Idle.alone = FALSE
<1>1. [g \in NightGroups |-> "none"] \in [NightGroups -> Night!Fates]
    BY DEF Night!Fates
<1>2. <<-1, -1>> \in Int \X Int
    OBVIOUS
<1>3. QED
    BY <1>1, <1>2 DEF Night!Idle, Night!Run, Night!Reasoned, Night!NoIssue

LEMMA NightCarriedTyped ==
    ASSUME NEW one \in Night!Issue, NEW gs \in SUBSET NightGroups
    PROVE  /\ Night!CarriedRows(one, gs) \subseteq Night!Row /\ Night!CarriedRecap(one, gs) \subseteq NightGroups
           /\ Night!Reasoned(one) =>
                 \A row \in Night!CarriedRows(one, gs) :
                     row.cell \in Night!Explained => row.group \in Night!CarriedRecap(one, gs)
BY DEF Night!Issue, Night!CarriedRows, Night!CarriedRecap, Night!Reasoned

-----------------------------------------------------------------------------
(* What each step does to its run and to the issues *)

\* The issues with a new one are those there were and its one.
LEMMA NightCreatedTyped ==
    ASSUME Night!TypeOK, NEW w \in Night!Run, NEW n, n = Cardinality(Night!Numbers) + 1,
           issues' = [m \in Night!Numbers \union {n} |-> IF m = n THEN Night!Rendered(w) ELSE issues[m]]
    PROVE  /\ n \notin Night!Numbers /\ Night!Numbers' = Night!Numbers \union {n} /\ n # Night!NoIssue
           /\ issues'[n] = Night!Rendered(w) /\ \A m \in Night!Numbers : issues'[m] = issues[m]
           /\ issues' \in [Night!Numbers' -> Night!Issue]
           /\ Cardinality(Night!Numbers') \in Nat /\ Night!Numbers' = 1 .. Cardinality(Night!Numbers')
<1>1. Cardinality(Night!Numbers) \in Nat /\ Night!Numbers = 1 .. Cardinality(Night!Numbers)
    BY NightSizes DEF Night!TypeOK
<1>2. n \notin Night!Numbers /\ n # Night!NoIssue /\ n \in Nat
    BY <1>1 DEF Night!NoIssue
<1>3. Night!Numbers' = Night!Numbers \union {n}
    BY DEF Night!Numbers
<1>4. issues'[n] = Night!Rendered(w) /\ \A m \in Night!Numbers : issues'[m] = issues[m]
    BY <1>2
<1>5. issues' \in [Night!Numbers \union {n} -> Night!Issue]
    BY NightRenderedTyped, <1>2 DEF Night!TypeOK
<1>6. Night!Numbers \union {n} = 1 .. n
    BY <1>1
<1>7. Cardinality(1 .. n) = n
    BY <1>2, FS_Interval
<1>8. QED
    BY <1>2, <1>3, <1>4, <1>5, <1>6, <1>7

\* The issues with one replaced are those there were and its body.
LEMMA NightPatchedStep ==
    ASSUME Night!TypeOK, NEW w \in Night!Run, NEW n \in Night!Numbers, issues' = Night!Patched(n, w)
    PROVE  /\ Night!Numbers' = Night!Numbers /\ issues' \in [Night!Numbers' -> Night!Issue]
           /\ Cardinality(Night!Numbers') \in Nat /\ Night!Numbers' = 1 .. Cardinality(Night!Numbers')
<1>1. Night!Numbers' = Night!Numbers
    BY NightPatchedTyped DEF Night!Numbers
<1>2. issues' \in [Night!Numbers -> Night!Issue]
    <2>1. \A m \in Night!Numbers : issues'[m] \in Night!Issue
        BY NightPatchedTyped DEF Night!TypeOK
    <2>2. issues' = [m \in Night!Numbers |-> issues'[m]]
        BY DEF Night!Patched, Night!TypeOK, Night!Numbers
    <2> QED
        BY <2>1, <2>2
<1>3. QED
    BY <1>1, <1>2, NightSizes DEF Night!TypeOK

\* A run that goes on takes nothing from the others: none of them is alone.
LEMMA NightRunMoves ==
    ASSUME Night!Tracked, Night!TypeOK', NEW r \in Runners, run[r].phase # "idle", NEW new \in Night!Run,
           run' = [run EXCEPT ![r] = new], new.alone => run[r].alone,
           Night!Kept, Night!OnePerDay', \A n \in Night!Numbers' : Night!Reasoned(issues'[n]),
           Night!Reasoned(new), Night!Follows(r)', Night!Carries(r)', Night!Covers(r)', Night!Swept(r)'
    PROVE  Night!Tracked'
<1>1. run'[r] = new /\ \A s \in Runners \ {r} : run'[s] = run[s]
    BY DEF Night!Tracked, Night!TypeOK
<1>2. ASSUME NEW s \in Runners \ {r} PROVE Night!Tracks(s)'
    <2>1. Night!Tracks(s) /\ run'[s] = run[s]
        BY <1>1 DEF Night!Tracked
    <2>2. ~run[s].alone
        <3>1. run[s] \in Night!Run
            BY DEF Night!Tracked, Night!TypeOK
        <3> QED
            BY <2>1 DEF Night!Tracks, Night!AloneTrue
    <2>3. Night!Follows(s)'
        BY <2>1 DEF Night!Tracks, Night!Follows, Night!Kept
    <2> QED
        BY <2>1, <2>2, <2>3 DEF Night!Tracks, Night!AloneTrue, Night!Reasoned, Night!Carries, Night!Covers, Night!Swept
<1>3. Night!Tracks(r)'
    <2>1. Night!AloneTrue(r)'
        BY <1>1 DEF Night!Tracked, Night!Tracks, Night!AloneTrue
    <2> QED
        BY <1>1, <2>1 DEF Night!Tracks, Night!Reasoned
<1>4. QED
    BY <1>2, <1>3 DEF Night!Tracked

\* What is so of a run that ends.
LEMMA NightRunEnds ==
    ASSUME Night!Tracked, NEW r \in Runners, run[r].phase # "idle", run' = [run EXCEPT ![r] = Night!Idle],
           UNCHANGED <<issues, nightPulls, day>>, serge' \in [NightGroups -> Night!Fates]
    PROVE  Night!Tracked'
<1>1. run'[r] = Night!Idle /\ run' \in [Runners -> Night!Run]
    BY NightIdleTyped DEF Night!Tracked, Night!TypeOK
<1>2. Night!Numbers' = Night!Numbers /\ Night!OpenIssues' = Night!OpenIssues
    BY DEF Night!Numbers, Night!OpenIssues
<1>3. Night!TypeOK'
    BY <1>1, <1>2 DEF Night!Tracked, Night!TypeOK
<1>4. Night!OnePerDay' /\ \A n \in Night!Numbers' : Night!Reasoned(issues'[n])
    BY <1>2 DEF Night!Tracked, Night!OnePerDay
<1>5. Night!Follows(r)' /\ Night!Carries(r)' /\ Night!Covers(r)' /\ Night!Swept(r)'
    BY <1>1, NightIdleTyped DEF Night!Follows, Night!Carries, Night!Covers, Night!Swept
<1>6. Night!Kept
    BY <1>2 DEF Night!Kept
<1>7. QED
    BY <1>3, <1>4, <1>5, <1>6, NightIdleTyped, NightRunMoves

\* A run carries the one open issue of its day, or fails to read it.
LEMMA NightReadTracked ==
    ASSUME Night!Tracked, NEW r \in Runners, Night!ReadRows(r)
    PROVE  Night!Tracked'
<1> DEFINE w == [run[r] EXCEPT !.phase = "ensure"]
<1>1. /\ run[r] \in Night!Run /\ run[r].phase = "read" /\ run[r].issue = Night!NoIssue
      /\ UNCHANGED <<issues, nightPulls, serge, day>>
    BY DEF Night!Tracked, Night!TypeOK, Night!Tracks, Night!Follows, Night!ReadRows, Night!Local
<1>2. /\ w \in Night!Run /\ w.phase = "ensure" /\ w.key = run[r].key /\ w.targets = run[r].targets
      /\ w.issue = Night!NoIssue /\ w.alone = run[r].alone /\ w.rows = run[r].rows
      /\ w.recap = run[r].recap /\ w.saw = run[r].saw
    BY <1>1 DEF Night!Run
<1>3. Night!Numbers' = Night!Numbers /\ Night!OpenIssues' = Night!OpenIssues
      /\ \A key : Night!TodaysIssues(key)' = Night!TodaysIssues(key)
    BY <1>1 DEF Night!Numbers, Night!OpenIssues, Night!TodaysIssues
<1> DEFINE Goes(new) ==
          /\ run' = [run EXCEPT ![r] = new] /\ Night!Reasoned(new)
          /\ new.phase = "ensure" /\ new.key = w.key /\ new.targets = w.targets
          /\ new.issue = Night!NoIssue /\ new.alone = w.alone
          /\ new.saw => \A n \in Night!TodaysIssues(w.key) :
                           Night!CarriedRows(issues[n], w.targets) \subseteq new.rows
<1>4. \E new \in Night!Run : Goes(new)
    <2> DEFINE carried(n) == [w EXCEPT !.rows = Night!CarriedRows(issues[n], w.targets),
                                       !.recap = Night!CarriedRecap(issues[n], w.targets)]
               blind == [w EXCEPT !.saw = FALSE]
    <2>1. Night!Reasoned(w)
        BY <1>2 DEF Night!Tracked, Night!Tracks, Night!Reasoned
    <2>2. \/ Night!TodaysIssues(w.key) = {} /\ run' = [run EXCEPT ![r] = w]
          \/ \E n \in Night!TodaysIssues(w.key) : run' = [run EXCEPT ![r] = carried(n)]
          \/ run' = [run EXCEPT ![r] = blind]
        BY DEF Night!ReadRows, Night!Local
    <2>3. ASSUME NEW n \in Night!TodaysIssues(w.key), run' = [run EXCEPT ![r] = carried(n)]
          PROVE  Goes(carried(n))
        <3>1. issues[n] \in Night!Issue /\ Night!Reasoned(issues[n]) /\ w.targets \in SUBSET NightGroups
            BY <1>2 DEF Night!TodaysIssues, Night!OpenIssues, Night!Tracked, Night!TypeOK, Night!Run
        <3>2. /\ Night!CarriedRows(issues[n], w.targets) \subseteq Night!Row
              /\ Night!CarriedRecap(issues[n], w.targets) \subseteq NightGroups
            BY <3>1, NightCarriedTyped
        <3>3. /\ carried(n) \in Night!Run /\ carried(n).rows = Night!CarriedRows(issues[n], w.targets)
              /\ carried(n).recap = Night!CarriedRecap(issues[n], w.targets)
              /\ carried(n).phase = w.phase /\ carried(n).key = w.key
              /\ carried(n).targets = w.targets
              /\ carried(n).issue = w.issue /\ carried(n).alone = w.alone
            BY <1>2, <3>2 DEF Night!Run
        <3>4. Night!Reasoned(carried(n))
            BY <3>1, <3>3, NightCarriedTyped DEF Night!Reasoned
        <3>5. \A m \in Night!TodaysIssues(w.key) : m = n
            BY DEF Night!Tracked, Night!OnePerDay, Night!TodaysIssues
        <3> HIDE DEF carried, w
        <3> QED
            BY <1>2, <2>3, <3>3, <3>4, <3>5
    <2>4. ASSUME NEW n \in Night!TodaysIssues(w.key) PROVE carried(n) \in Night!Run
        <3>1. issues[n] \in Night!Issue /\ w.targets \in SUBSET NightGroups
            BY <1>2 DEF Night!TodaysIssues, Night!OpenIssues, Night!Tracked, Night!TypeOK, Night!Run
        <3>2. /\ Night!CarriedRows(issues[n], w.targets) \subseteq Night!Row
              /\ Night!CarriedRecap(issues[n], w.targets) \subseteq NightGroups
            BY <3>1, NightCarriedTyped
        <3> QED
            BY <1>2, <3>2 DEF Night!Run
    <2>5. /\ blind \in Night!Run /\ blind.rows = w.rows /\ blind.recap = w.recap
          /\ blind.phase = w.phase /\ blind.key = w.key /\ blind.targets = w.targets
          /\ blind.issue = w.issue /\ blind.alone = w.alone /\ blind.saw = FALSE
        BY <1>2 DEF Night!Run
    <2>6. Night!Reasoned(blind)
        BY <2>1, <2>5 DEF Night!Reasoned
    <2> HIDE DEF carried, blind, w
    <2>7. CASE Night!TodaysIssues(w.key) = {} /\ run' = [run EXCEPT ![r] = w]
        BY <1>2, <2>1, <2>7
    <2>8. CASE run' = [run EXCEPT ![r] = blind]
        <3>1. Goes(blind)
            BY <1>2, <2>5, <2>6, <2>8
        <3> HIDE DEF Goes
        <3> QED
            BY <2>5, <3>1
    <2>9. CASE \E n \in Night!TodaysIssues(w.key) : run' = [run EXCEPT ![r] = carried(n)]
        <3> HIDE DEF Goes
        <3> QED
            BY <2>3, <2>4, <2>9
    <2>10. QED
        BY <2>2, <2>7, <2>8, <2>9
<1> HIDE DEF w
<1>5. PICK new \in Night!Run : Goes(new)
    BY <1>4
<1>6. run'[r] = new /\ run' \in [Runners -> Night!Run]
    BY <1>5 DEF Night!Tracked, Night!TypeOK
<1>7. Night!TypeOK'
    BY <1>1, <1>3, <1>6 DEF Night!Tracked, Night!TypeOK
<1>8. Night!Carries(r)'
    BY <1>1, <1>3, <1>5, <1>6 DEF Night!Carries
<1>9. Night!Follows(r)' /\ Night!Covers(r)' /\ Night!Swept(r)'
    BY <1>5, <1>6 DEF Night!Follows, Night!Covers, Night!Swept
<1>10. Night!OnePerDay' /\ Night!Kept /\ \A n \in Night!Numbers' : Night!Reasoned(issues'[n])
    BY <1>1, <1>3 DEF Night!Tracked, Night!OnePerDay, Night!Kept
<1>11. QED
    BY <1>1, <1>2, <1>5, <1>7, <1>8, <1>9, <1>10, NightRunMoves

\* The issues after one is created or replaced by the body of a run of its day:
\* still one a day, and their rows have their reasons.
LEMMA NightBodyKept ==
    ASSUME Night!Tracked, NEW w \in Night!Run, Night!Reasoned(w),
           \/ \E n \in Night!Numbers : issues' = Night!Patched(n, w) /\ issues[n].key = w.key
           \/ /\ Night!TodaysIssues(w.key) = {}
              /\ issues' = [m \in Night!Numbers \union {Cardinality(Night!Numbers) + 1} |->
                               IF m = Cardinality(Night!Numbers) + 1 THEN Night!Rendered(w) ELSE issues[m]]
    PROVE  /\ issues' \in [Night!Numbers' -> Night!Issue] /\ Night!Kept /\ Night!OnePerDay'
           /\ Cardinality(Night!Numbers') \in Nat /\ Night!Numbers' = 1 .. Cardinality(Night!Numbers')
           /\ \A n \in Night!Numbers' : Night!Reasoned(issues'[n])
<1>1. Night!TypeOK /\ Night!Reasoned(Night!Rendered(w)) /\ Night!Rendered(w).key = w.key
    BY NightRenderedTyped DEF Night!Tracked
<1>2. ASSUME NEW n \in Night!Numbers, issues' = Night!Patched(n, w), issues[n].key = w.key
      PROVE  /\ Night!Kept /\ Night!OnePerDay' /\ \A m \in Night!Numbers' : Night!Reasoned(issues'[m])
    <2>1. /\ Night!Numbers' = Night!Numbers /\ \A m \in Night!Numbers \ {n} : issues'[m] = issues[m]
          /\ issues'[n].key = issues[n].key /\ issues'[n].open = issues[n].open
          /\ issues'[n].rows = Night!Rendered(w).rows /\ issues'[n].recap = Night!Rendered(w).recap
        BY <1>1, <1>2, NightPatchedTyped, NightPatchedStep
    <2>2. \A m \in Night!Numbers : issues'[m].key = issues[m].key /\ issues'[m].open = issues[m].open
        BY <2>1
    <2>3. Night!OnePerDay'
        BY <2>1, <2>2 DEF Night!Tracked, Night!OnePerDay, Night!OpenIssues
    <2>4. \A m \in Night!Numbers : Night!Reasoned(issues'[m])
        BY <1>1, <2>1 DEF Night!Tracked, Night!Reasoned
    <2> QED
        BY <2>1, <2>2, <2>3, <2>4 DEF Night!Kept
<1>3. ASSUME Night!TodaysIssues(w.key) = {}, NEW n, n = Cardinality(Night!Numbers) + 1,
             issues' = [m \in Night!Numbers \union {n} |-> IF m = n THEN Night!Rendered(w) ELSE issues[m]]
      PROVE  /\ Night!Kept /\ Night!OnePerDay' /\ \A m \in Night!Numbers' : Night!Reasoned(issues'[m])
    <2>1. /\ n \notin Night!Numbers /\ Night!Numbers' = Night!Numbers \union {n}
          /\ issues'[n] = Night!Rendered(w) /\ \A m \in Night!Numbers : issues'[m] = issues[m]
        BY <1>1, <1>3, NightCreatedTyped
    <2>2. \A m \in Night!OpenIssues : issues[m].key # w.key
        BY <1>3 DEF Night!TodaysIssues
    <2>3. Night!OnePerDay'
        BY <1>1, <2>1, <2>2 DEF Night!Tracked, Night!OnePerDay, Night!OpenIssues
    <2> QED
        BY <1>1, <2>1, <2>3 DEF Night!Tracked, Night!Kept
<1>4. CASE \E n \in Night!Numbers : issues' = Night!Patched(n, w) /\ issues[n].key = w.key
    BY <1>1, <1>2, <1>4, NightPatchedStep
<1>5. CASE /\ Night!TodaysIssues(w.key) = {}
           /\ issues' = [m \in Night!Numbers \union {Cardinality(Night!Numbers) + 1} |->
                            IF m = Cardinality(Night!Numbers) + 1 THEN Night!Rendered(w) ELSE issues[m]]
    BY <1>1, <1>3, <1>5, NightCreatedTyped
<1>6. QED
    BY <1>4, <1>5

\* A run has its day's issue written with what it found and what it carried.
LEMMA NightEnsureTracked ==
    ASSUME Night!Tracked, NEW r \in Runners, Night!Ensure(r)
    PROVE  Night!Tracked'
<1> DEFINE w == [run[r] EXCEPT !.phase = "supersede"]
           new(n) == [w EXCEPT !.issue = n]
<1>1. /\ run[r] \in Night!Run /\ run[r].phase = "ensure" /\ Night!Reasoned(run[r])
      /\ UNCHANGED <<nightPulls, serge, day>> /\ Night!TypeOK
    BY DEF Night!Tracked, Night!TypeOK, Night!Tracks, Night!Ensure, Night!Local
<1>2. /\ w \in Night!Run /\ w.key = run[r].key /\ w.targets = run[r].targets
      /\ w.alone = run[r].alone /\ w.rows = run[r].rows /\ w.recap = run[r].recap
      /\ w.phase = "supersede"
    BY <1>1 DEF Night!Run
<1>3. ASSUME NEW n \in Nat
      PROVE  /\ new(n) \in Night!Run /\ new(n).key = w.key /\ new(n).targets = w.targets
             /\ new(n).alone = w.alone /\ new(n).rows = w.rows /\ new(n).recap = w.recap
             /\ new(n).phase = "supersede" /\ new(n).issue = n
    BY <1>2, <1>3 DEF Night!Run
<1>4. Night!Reasoned(w) /\ \A n \in Nat : Night!Reasoned(new(n))
    BY <1>1, <1>2, <1>3 DEF Night!Reasoned
<1>5. \/ \E n \in Night!TodaysIssues(w.key) :
             issues' = Night!Patched(n, w) /\ run' = [run EXCEPT ![r] = new(n)]
      \/ /\ Night!TodaysIssues(w.key) = {}
         /\ issues' = [m \in Night!Numbers \union {Cardinality(Night!Numbers) + 1} |->
                          IF m = Cardinality(Night!Numbers) + 1 THEN Night!Rendered(w) ELSE issues[m]]
         /\ run' = [run EXCEPT ![r] = new(Cardinality(Night!Numbers) + 1)]
    BY NightSizes DEF Night!Ensure, Night!Local
<1> HIDE DEF w, new
<1>6. \A n \in Night!TodaysIssues(w.key) : n \in Night!Numbers /\ issues[n].key = w.key
    BY DEF Night!TodaysIssues, Night!OpenIssues
<1>7. /\ issues' \in [Night!Numbers' -> Night!Issue] /\ Night!Kept /\ Night!OnePerDay'
      /\ Cardinality(Night!Numbers') \in Nat /\ Night!Numbers' = 1 .. Cardinality(Night!Numbers')
      /\ \A n \in Night!Numbers' : Night!Reasoned(issues'[n])
    BY <1>2, <1>4, <1>5, <1>6, NightBodyKept
<1>8. PICK n \in Night!Numbers' \intersect Nat :
          /\ n # Night!NoIssue /\ run' = [run EXCEPT ![r] = new(n)]
          /\ issues'[n].key = w.key /\ issues'[n].rows = Night!Rendered(w).rows
    <2>1. CASE \E n \in Night!TodaysIssues(w.key) :
                   issues' = Night!Patched(n, w) /\ run' = [run EXCEPT ![r] = new(n)]
        <3>1. PICK n \in Night!TodaysIssues(w.key) :
                  issues' = Night!Patched(n, w) /\ run' = [run EXCEPT ![r] = new(n)]
            BY <2>1
        <3>2. n \in Night!Numbers /\ n \in Nat /\ n # Night!NoIssue
            BY <1>1, <1>6 DEF Night!TypeOK, Night!NoIssue
        <3>3. Night!Numbers' = Night!Numbers /\ issues'[n].key = w.key /\ issues'[n].rows = Night!Rendered(w).rows
            BY <1>1, <1>2, <3>1, <3>2, NightPatchedTyped, NightPatchedStep
        <3> QED
            BY <3>1, <3>2, <3>3
    <2>2. CASE /\ issues' = [m \in Night!Numbers \union {Cardinality(Night!Numbers) + 1} |->
                                IF m = Cardinality(Night!Numbers) + 1 THEN Night!Rendered(w) ELSE issues[m]]
               /\ run' = [run EXCEPT ![r] = new(Cardinality(Night!Numbers) + 1)]
        <3> DEFINE n == Cardinality(Night!Numbers) + 1
        <3>1. n \in Nat /\ n # Night!NoIssue
            BY <1>1, NightSizes DEF Night!TypeOK, Night!NoIssue
        <3>2. Night!Numbers' = Night!Numbers \union {n} /\ issues'[n] = Night!Rendered(w)
            BY <1>1, <1>2, <2>2, NightCreatedTyped
        <3>3. Night!Rendered(w).key = w.key
            BY <1>1, <1>2, NightRenderedTyped
        <3> QED
            BY <2>2, <3>1, <3>2, <3>3
    <2> QED
        BY <1>5, <2>1, <2>2
<1>9. run'[r] = new(n) /\ run' \in [Runners -> Night!Run]
    BY <1>3, <1>8 DEF Night!Tracked, Night!TypeOK
<1>10. Night!TypeOK'
    BY <1>1, <1>7, <1>9, NightSizes DEF Night!TypeOK
<1>11. Night!Covers(r)'
    BY <1>1, <1>2, <1>3, <1>8, <1>9, NightRenderedTyped DEF Night!Covers
<1>12. Night!Follows(r)' /\ Night!Carries(r)' /\ Night!Swept(r)'
    BY <1>3, <1>8, <1>9 DEF Night!Follows, Night!Carries, Night!Swept
<1>13. new(n) \in Night!Run /\ new(n).alone = run[r].alone /\ Night!Reasoned(new(n))
    BY <1>2, <1>3, <1>4
<1>14. QED
    BY <1>1, <1>7, <1>8, <1>10, <1>11, <1>12, <1>13, NightRunMoves

\* A call that failed may have created the issue; the run goes on without it.
LEMMA NightEnsureFailsTracked ==
    ASSUME Night!Tracked, NEW r \in Runners, Night!EnsureFails(r)
    PROVE  Night!Tracked'
<1> DEFINE new == [run[r] EXCEPT !.phase = "dispatch"]
<1>1. /\ run[r] \in Night!Run /\ run[r].phase = "ensure" /\ Night!Reasoned(run[r])
      /\ run[r].issue = Night!NoIssue /\ UNCHANGED <<nightPulls, serge, day>> /\ Night!TypeOK
      /\ run' = [run EXCEPT ![r] = new]
    BY DEF Night!Tracked, Night!TypeOK, Night!Tracks, Night!Follows, Night!EnsureFails, Night!Local
<1>2. /\ new \in Night!Run /\ new.alone = run[r].alone /\ new.rows = run[r].rows
      /\ new.recap = run[r].recap /\ new.phase = "dispatch" /\ new.issue = Night!NoIssue
    BY <1>1 DEF Night!Run
<1>3. \/ UNCHANGED issues
      \/ /\ Night!TodaysIssues(run[r].key) = {}
         /\ issues' = [m \in Night!Numbers \union {Cardinality(Night!Numbers) + 1} |->
                          IF m = Cardinality(Night!Numbers) + 1 THEN Night!Rendered(run[r]) ELSE issues[m]]
    BY NightSizes DEF Night!EnsureFails
<1> HIDE DEF new
<1>4. /\ issues' \in [Night!Numbers' -> Night!Issue] /\ Night!Kept /\ Night!OnePerDay'
      /\ Cardinality(Night!Numbers') \in Nat /\ Night!Numbers' = 1 .. Cardinality(Night!Numbers')
      /\ \A n \in Night!Numbers' : Night!Reasoned(issues'[n])
    <2>1. CASE UNCHANGED issues
        <3>1. Night!Numbers' = Night!Numbers /\ Night!OpenIssues' = Night!OpenIssues
            BY <2>1 DEF Night!Numbers, Night!OpenIssues
        <3> QED
            BY <2>1, <3>1, NightSizes DEF Night!Tracked, Night!TypeOK, Night!Kept, Night!OnePerDay
    <2> QED
        BY <1>1, <1>3, <2>1, NightBodyKept
<1>5. run'[r] = new /\ run' \in [Runners -> Night!Run]
    BY <1>1, <1>2 DEF Night!TypeOK
<1>6. Night!TypeOK'
    BY <1>1, <1>4, <1>5, NightSizes DEF Night!TypeOK
<1>7. Night!Reasoned(new) /\ Night!Follows(r)' /\ Night!Carries(r)' /\ Night!Covers(r)' /\ Night!Swept(r)'
    BY <1>1, <1>2, <1>5 DEF Night!Reasoned, Night!Follows, Night!Carries, Night!Covers, Night!Swept
<1>8. QED
    BY <1>1, <1>2, <1>4, <1>6, <1>7, NightRunMoves

\* A run closes the others; what they show stays.
LEMMA NightSupersedeTracked ==
    ASSUME Night!Tracked, NEW r \in Runners, Night!Supersede(r)
    PROVE  Night!Tracked'
<1>1. /\ run[r] \in Night!Run /\ run[r].phase = "supersede" /\ Night!Reasoned(run[r]) /\ Night!TypeOK
      /\ Night!Follows(r) /\ Night!Covers(r) /\ UNCHANGED <<nightPulls, serge, day>>
    BY DEF Night!Tracked, Night!TypeOK, Night!Tracks, Night!Supersede, Night!Local
<1>2. PICK left \in SUBSET Night!PriorIssues(r) :
          /\ issues' = [n \in Night!Numbers |-> IF n \in Night!PriorIssues(r) \ left
                                         THEN [issues[n] EXCEPT !.open = FALSE] ELSE issues[n]]
          /\ run' = [run EXCEPT ![r] =
                        [run[r] EXCEPT !.phase = "dispatch", !.clean = (left = {})]]
    BY DEF Night!Supersede, Night!Local
<1> DEFINE new == [run[r] EXCEPT !.phase = "dispatch", !.clean = (left = {})]
<1>3. /\ new \in Night!Run /\ new.alone = run[r].alone /\ new.rows = run[r].rows
      /\ new.recap = run[r].recap /\ new.phase = "dispatch" /\ new.issue = run[r].issue
      /\ new.key = run[r].key /\ new.targets = run[r].targets /\ new.clean = (left = {})
    BY <1>1 DEF Night!Run
<1>4. run' = [run EXCEPT ![r] = new]
    BY <1>2
<1> HIDE DEF new
<1>5. Night!Numbers' = Night!Numbers
    BY <1>2 DEF Night!Numbers
<1>6. \A n \in Night!Numbers :
          /\ issues'[n] \in Night!Issue /\ issues'[n].key = issues[n].key
          /\ issues'[n].rows = issues[n].rows /\ issues'[n].recap = issues[n].recap
          /\ issues'[n].open => issues[n].open
    <2> SUFFICES ASSUME NEW n \in Night!Numbers
                 PROVE  /\ issues'[n] \in Night!Issue /\ issues'[n].key = issues[n].key
                        /\ issues'[n].rows = issues[n].rows
                        /\ issues'[n].recap = issues[n].recap
                        /\ issues'[n].open => issues[n].open
        OBVIOUS
    <2>1. issues[n] \in Night!Issue
        BY <1>1 DEF Night!TypeOK
    <2>2. issues'[n] = issues[n] \/ issues'[n] = [issues[n] EXCEPT !.open = FALSE]
        BY <1>2
    <2> QED
        BY <2>1, <2>2 DEF Night!Issue
<1>7. Night!OpenIssues' \subseteq Night!OpenIssues
    BY <1>5, <1>6 DEF Night!OpenIssues
<1>8. left = {} => Night!OpenIssues' \subseteq {run[r].issue}
    <2> SUFFICES ASSUME left = {}, NEW n \in Night!OpenIssues', n # run[r].issue PROVE FALSE
        OBVIOUS
    <2>1. n \in Night!PriorIssues(r) /\ n \in Night!Numbers
        BY <1>7 DEF Night!PriorIssues, Night!OpenIssues
    <2>2. issues'[n] = [issues[n] EXCEPT !.open = FALSE] /\ issues[n] \in Night!Issue
        BY <1>1, <1>2, <2>1 DEF Night!TypeOK
    <2>3. issues'[n].open = FALSE
        BY <2>2 DEF Night!Issue
    <2> QED
        BY <2>3 DEF Night!OpenIssues
<1>9. run'[r] = new /\ run' \in [Runners -> Night!Run]
    BY <1>1, <1>3, <1>4 DEF Night!TypeOK
<1>10. Night!TypeOK'
    <2>1. issues' \in [Night!Numbers -> Night!Issue]
        BY <1>2, <1>6
    <2> QED
        BY <1>1, <1>5, <1>9, <2>1 DEF Night!TypeOK
<1>11. Night!OnePerDay' /\ Night!Kept /\ \A n \in Night!Numbers' : Night!Reasoned(issues'[n])
    <2>1. Night!OnePerDay'
        BY <1>6, <1>7 DEF Night!Tracked, Night!OnePerDay, Night!OpenIssues
    <2> QED
        BY <1>5, <1>6, <2>1 DEF Night!Tracked, Night!Kept, Night!Reasoned
<1>12. Night!Follows(r)' /\ Night!Carries(r)'
    BY <1>1, <1>3, <1>5, <1>6, <1>9 DEF Night!Follows, Night!Carries
<1>13. Night!Covers(r)'
    BY <1>1, <1>3, <1>6, <1>9 DEF Night!Follows, Night!Covers
<1>14. Night!Swept(r)'
    BY <1>3, <1>8, <1>9 DEF Night!Swept
<1>15. Night!Reasoned(new)
    BY <1>1, <1>3 DEF Night!Reasoned
<1>16. QED
    BY <1>1, <1>3, <1>4, <1>10, <1>11, <1>12, <1>13, <1>14, <1>15, NightRunMoves

\* A run hands its groups over, or ends without an issue to follow them in.
LEMMA NightDispatchTracked ==
    ASSUME Night!Tracked, NEW r \in Runners, Night!Dispatch(r)
    PROVE  Night!Tracked'
<1>1. /\ run[r] \in Night!Run /\ run[r].phase = "dispatch" /\ Night!Reasoned(run[r]) /\ Night!TypeOK
      /\ Night!Follows(r) /\ Night!Covers(r) /\ Night!Swept(r) /\ UNCHANGED <<issues, nightPulls, day>>
    BY DEF Night!Tracked, Night!TypeOK, Night!Tracks, Night!Dispatch
<1>2. PICK refused \in SUBSET run[r].targets :
          /\ serge' = [g \in NightGroups |-> IF g \in run[r].targets \ refused THEN "working"
                                        ELSE serge[g]]
          /\ run' = [run EXCEPT ![r] =
                       IF run[r].issue = Night!NoIssue THEN Night!Idle
                       ELSE [run[r] EXCEPT !.phase = "reconcile", !.refused = refused,
                                      !.status = [g \in NightGroups |->
                                         IF g \in refused THEN "error" ELSE "none"]]]
    BY DEF Night!Dispatch
<1>3. serge' \in [NightGroups -> Night!Fates]
    BY <1>1, <1>2 DEF Night!TypeOK, Night!Fates
<1>4. CASE run[r].issue = Night!NoIssue
    <2>1. run' = [run EXCEPT ![r] = Night!Idle]
        BY <1>2, <1>4
    <2> QED
        BY <1>1, <1>3, <2>1, NightRunEnds
<1>5. CASE run[r].issue # Night!NoIssue
    <2> DEFINE heard == [g \in NightGroups |-> IF g \in refused THEN "error" ELSE "none"]
               new == [run[r] EXCEPT !.phase = "reconcile", !.refused = refused, !.status = heard]
    <2>1. heard \in [NightGroups -> Night!Fates]
        BY DEF Night!Fates, Night!Explained
    <2>2. run' = [run EXCEPT ![r] = new]
        BY <1>2, <1>5
    <2>3. refused \in SUBSET NightGroups
        BY <1>1 DEF Night!Run
    <2> HIDE DEF heard
    <2>4. /\ new \in Night!Run /\ new.alone = run[r].alone /\ new.rows = run[r].rows
          /\ new.recap = run[r].recap /\ new.phase = "reconcile" /\ new.issue = run[r].issue
          /\ new.key = run[r].key /\ new.targets = run[r].targets /\ new.clean = run[r].clean
        BY <1>1, <2>1, <2>3 DEF Night!Run
    <2> HIDE DEF new
    <2>5. run'[r] = new /\ run' \in [Runners -> Night!Run]
        BY <1>1, <2>2, <2>4 DEF Night!TypeOK
    <2>6. Night!Numbers' = Night!Numbers /\ Night!OpenIssues' = Night!OpenIssues
        BY <1>1 DEF Night!Numbers, Night!OpenIssues
    <2>7. Night!TypeOK'
        BY <1>1, <1>3, <2>5, <2>6 DEF Night!TypeOK
    <2>8. Night!OnePerDay' /\ Night!Kept /\ \A n \in Night!Numbers' : Night!Reasoned(issues'[n])
        BY <1>1, <2>6 DEF Night!Tracked, Night!OnePerDay, Night!Kept
    <2>9. Night!Follows(r)' /\ Night!Carries(r)' /\ Night!Covers(r)' /\ Night!Swept(r)' /\ Night!Reasoned(new)
        BY <1>1, <1>5, <2>4, <2>5, <2>6 DEF Night!Follows, Night!Carries, Night!Covers, Night!Swept, Night!Reasoned
    <2> QED
        BY <1>1, <2>2, <2>4, <2>7, <2>8, <2>9, NightRunMoves
<1>6. QED
    BY <1>4, <1>5

\* A poll writes what it heard into the run's issue.
LEMMA NightPollTracked ==
    ASSUME Night!Finite, Night!Tracked, NEW r \in Runners, Night!Poll(r)
    PROVE  Night!Tracked'
<1> DEFINE w == [run[r] EXCEPT !.status = Night!Heard(r)]
           counts == <<Night!Linked(w), Night!Terminal(w)>>
           new == [w EXCEPT !.shown = counts]
<1>1. /\ run[r] \in Night!Run /\ run[r].phase = "reconcile" /\ Night!Reasoned(run[r]) /\ Night!TypeOK
      /\ Night!Follows(r) /\ Night!Covers(r) /\ Night!Swept(r) /\ UNCHANGED <<nightPulls, serge, day>>
      /\ run' = [run EXCEPT ![r] = new]
      /\ issues' = Night!Patched(w.issue, w) \/ UNCHANGED issues
    BY DEF Night!Tracked, Night!TypeOK, Night!Tracks, Night!Poll, Night!Local
<1>2. Night!Heard(r) \in [NightGroups -> Night!Fates]
    BY <1>1 DEF Night!Heard, Night!TypeOK, Night!Run
<1>3. /\ w \in Night!Run /\ w.alone = run[r].alone /\ w.rows = run[r].rows /\ w.clean = run[r].clean
      /\ w.recap = run[r].recap /\ w.phase = "reconcile" /\ w.issue = run[r].issue
      /\ w.key = run[r].key /\ w.targets = run[r].targets
    BY <1>1, <1>2 DEF Night!Run
<1> HIDE DEF w
<1>4. counts \in Int \X Int
    <2>1. /\ {g \in w.targets : nightPulls[g]} \subseteq NightGroups
          /\ {g \in w.targets : ~nightPulls[g] /\ w.status[g] \in Night!Explained} \subseteq NightGroups
        BY <1>3 DEF Night!Run
    <2>2. Night!Linked(w) \in Nat /\ Night!Terminal(w) \in Nat
        BY <2>1, FS_Subset, FS_CardinalityType, NightSizes DEF Night!Linked, Night!Terminal, Night!Finite
    <2> QED
        BY <2>2
<1> HIDE DEF counts
<1>5. /\ new \in Night!Run /\ new.alone = w.alone /\ new.rows = w.rows /\ new.clean = w.clean
      /\ new.recap = w.recap /\ new.phase = "reconcile" /\ new.issue = w.issue
      /\ new.key = w.key /\ new.targets = w.targets
    BY <1>3, <1>4 DEF Night!Run
<1> HIDE DEF new
<1>6. w.issue \in Night!Numbers /\ issues[w.issue].key = w.key /\ w.issue # Night!NoIssue
    BY <1>1, <1>3 DEF Night!Follows
<1>7. Night!Reasoned(w) /\ Night!Reasoned(new)
    BY <1>1, <1>3, <1>5 DEF Night!Reasoned
<1>8. run'[r] = new /\ run' \in [Runners -> Night!Run]
    BY <1>1, <1>5 DEF Night!TypeOK
<1>9. /\ issues' \in [Night!Numbers' -> Night!Issue] /\ Night!Kept /\ Night!OnePerDay' /\ Night!Numbers' = Night!Numbers
      /\ Cardinality(Night!Numbers') \in Nat /\ Night!Numbers' = 1 .. Cardinality(Night!Numbers')
      /\ \A n \in Night!Numbers' : Night!Reasoned(issues'[n])
      /\ Night!OpenIssues' \subseteq Night!OpenIssues
      /\ w.alone => \A row \in issues'[w.issue].rows : row.group \in w.targets \/ row \in w.rows
    <2>1. CASE UNCHANGED issues
        <3>1. Night!Numbers' = Night!Numbers /\ Night!OpenIssues' = Night!OpenIssues
            BY <2>1 DEF Night!Numbers, Night!OpenIssues
        <3>2. w.alone => \A row \in issues[w.issue].rows : row.group \in w.targets \/ row \in w.rows
            BY <1>1, <1>3, <1>6 DEF Night!Covers
        <3> QED
            BY <1>1, <2>1, <3>1, <3>2, NightSizes DEF Night!Tracked, Night!TypeOK, Night!Kept, Night!OnePerDay
    <2>2. CASE issues' = Night!Patched(w.issue, w)
        <3>1. /\ Night!Numbers' = Night!Numbers /\ issues'[w.issue].rows = Night!Rendered(w).rows
              /\ \A m \in Night!Numbers \ {w.issue} : issues'[m] = issues[m]
              /\ issues'[w.issue].open = issues[w.issue].open
            BY <1>1, <1>3, <1>6, <2>2, NightPatchedTyped, NightPatchedStep
        <3>2. Night!OpenIssues' \subseteq Night!OpenIssues
            BY <3>1 DEF Night!OpenIssues
        <3>3. \A row \in Night!Rendered(w).rows : row.group \in w.targets \/ row \in w.rows
            BY <1>1, <1>3, NightRenderedTyped
        <3> QED
            BY <1>3, <1>6, <1>7, <2>2, <3>1, <3>2, <3>3, NightBodyKept
    <2> QED
        BY <1>1, <2>1, <2>2
<1>10. Night!TypeOK'
    BY <1>1, <1>8, <1>9 DEF Night!TypeOK
<1>11. Night!Follows(r)' /\ Night!Carries(r)' /\ Night!Covers(r)'
    <2>1. /\ run'[r].phase = "reconcile" /\ run'[r].issue = w.issue /\ run'[r].key = w.key
          /\ run'[r].alone = w.alone /\ run'[r].targets = w.targets /\ run'[r].rows = w.rows
        BY <1>5, <1>8
    <2>2. w.issue \in Night!Numbers' /\ issues'[w.issue].key = w.key
        BY <1>6, <1>9 DEF Night!Kept
    <2>3. Night!Follows(r)'
        BY <1>6, <2>1, <2>2 DEF Night!Follows
    <2>4. Night!Carries(r)'
        BY <2>1 DEF Night!Carries
    <2>5. Night!Covers(r)'
        BY <1>9, <2>1 DEF Night!Covers
    <2> QED
        BY <2>3, <2>4, <2>5
<1>12. Night!Swept(r)'
    BY <1>1, <1>3, <1>5, <1>8, <1>9 DEF Night!Swept
<1>13. QED
    BY <1>1, <1>3, <1>5, <1>7, <1>9, <1>10, <1>11, <1>12, NightRunMoves

\* A run that starts is alone if no other is going on, and then no other is.
LEMMA NightStartTracked ==
    ASSUME Night!Tracked, NEW r \in Runners, Night!Start(r)
    PROVE  Night!Tracked'
<1>1. /\ Night!TypeOK /\ run[r].phase = "idle"
      /\ UNCHANGED <<issues, nightPulls, serge, day>>
    BY DEF Night!Tracked, Night!Start
<1> DEFINE others == {s \in Runners : run[s].phase # "idle"}
           begun(gs) == [Night!Idle EXCEPT !.phase = "read", !.key = day, !.targets = gs,
                                     !.alone = (others = {})]
           aside(s) == [run[s] EXCEPT !.alone = FALSE]
<1>2. PICK gs \in SUBSET NightGroups :
          run' = [s \in Runners |-> IF s = r THEN begun(gs) ELSE aside(s)]
    BY DEF Night!Start
<1>3. /\ begun(gs) \in Night!Run /\ begun(gs).phase = "read" /\ begun(gs).issue = Night!NoIssue
      /\ begun(gs).alone = (others = {})
      /\ begun(gs).rows = Night!Idle.rows /\ begun(gs).recap = Night!Idle.recap
    <2>1. day \in Keys \union {0}
        BY <1>1 DEF Night!TypeOK
    <2> QED
        BY <2>1, NightIdleTyped DEF Night!Run
<1>4. ASSUME NEW s \in Runners
      PROVE  /\ aside(s) \in Night!Run /\ aside(s).alone = FALSE /\ aside(s).phase = run[s].phase
             /\ aside(s).rows = run[s].rows /\ aside(s).recap = run[s].recap
             /\ aside(s).issue = run[s].issue /\ aside(s).key = run[s].key
    <2>1. run[s] \in Night!Run
        BY <1>1 DEF Night!TypeOK
    <2> QED
        BY <2>1 DEF Night!Run
<1> HIDE DEF begun, aside
<1>5. run'[r] = begun(gs) /\ \A s \in Runners \ {r} : run'[s] = aside(s)
    BY <1>2
<1>6. run' \in [Runners -> Night!Run]
    BY <1>2, <1>3, <1>4
<1>7. Night!Numbers' = Night!Numbers /\ Night!OpenIssues' = Night!OpenIssues
    BY <1>1 DEF Night!Numbers, Night!OpenIssues
<1>8. Night!TypeOK'
    BY <1>1, <1>6, <1>7 DEF Night!TypeOK
<1>9. Night!OnePerDay' /\ \A n \in Night!Numbers' : Night!Reasoned(issues'[n])
    BY <1>1, <1>7 DEF Night!Tracked, Night!OnePerDay
<1>10. ASSUME NEW s \in Runners \ {r} PROVE Night!Tracks(s)'
    <2>1. Night!Reasoned(run[s]) /\ Night!Follows(s)
        BY DEF Night!Tracked, Night!Tracks
    <2>2. Night!Reasoned(run'[s])
        BY <1>4, <1>5, <2>1 DEF Night!Reasoned
    <2>3. Night!Follows(s)'
        BY <1>1, <1>4, <1>5, <1>7, <2>1 DEF Night!Follows
    <2> QED
        BY <1>4, <1>5, <2>2, <2>3 DEF Night!Tracks, Night!AloneTrue, Night!Carries, Night!Covers, Night!Swept
<1>11. Night!Tracks(r)'
    <2>1. Night!AloneTrue(r)'
        BY <1>3, <1>4, <1>5 DEF Night!AloneTrue
    <2>2. Night!Reasoned(run'[r])
        BY <1>3, <1>5, NightIdleTyped DEF Night!Reasoned
    <2> QED
        BY <1>3, <1>5, <2>1, <2>2 DEF Night!Tracks, Night!Follows, Night!Carries, Night!Covers, Night!Swept
<1>12. QED
    BY <1>8, <1>9, <1>10, <1>11 DEF Night!Tracked

LEMMA NightTrackedNext == ASSUME Night!Finite, Night!Tracked, [Night!Next]_(Night!nightVars) PROVE Night!Tracked'
<1>1. ASSUME UNCHANGED <<issues, run>>, nightPulls' \in [NightGroups -> BOOLEAN],
             serge' \in [NightGroups -> Night!Fates], day' \in Keys
      PROVE  Night!Tracked'
    <2>1. Night!Numbers' = Night!Numbers /\ Night!OpenIssues' = Night!OpenIssues
          /\ \A key : Night!TodaysIssues(key)' = Night!TodaysIssues(key)
        BY <1>1 DEF Night!Numbers, Night!OpenIssues, Night!TodaysIssues
    <2>2. Night!TypeOK' /\ Night!OnePerDay' /\ \A n \in Night!Numbers' : Night!Reasoned(issues'[n])
        BY <1>1, <2>1 DEF Night!Tracked, Night!TypeOK, Night!OnePerDay
    <2>3. ASSUME NEW r \in Runners PROVE Night!Tracks(r)'
        <3>1. Night!Tracks(r)
            BY DEF Night!Tracked
        <3> QED
            BY <1>1, <2>1, <3>1
               DEF Night!Tracks, Night!AloneTrue, Night!Follows, Night!Carries, Night!Covers, Night!Swept
    <2> QED
        BY <2>2, <2>3 DEF Night!Tracked
<1>2. CASE UNCHANGED Night!nightVars
    BY <1>1, <1>2 DEF Night!nightVars, Night!Tracked, Night!TypeOK
<1>3. ASSUME NEW r \in Runners, Night!EndRun(r) \/ Night!Killed(r) PROVE Night!Tracked'
    <2>1. /\ run[r].phase # "idle" /\ run' = [run EXCEPT ![r] = Night!Idle]
          /\ UNCHANGED <<issues, nightPulls, serge, day>>
        BY <1>3 DEF Night!EndRun, Night!Killed, Night!Local
    <2> QED
        BY <2>1, NightRunEnds DEF Night!Tracked, Night!TypeOK
<1>4. ASSUME NEW g \in NightGroups, Night!SergeEnds(g) PROVE Night!Tracked'
    BY <1>1, <1>4 DEF Night!SergeEnds, Night!Tracked, Night!TypeOK, Night!Fates
<1>5. CASE Night!NewDay
    BY <1>1, <1>5 DEF Night!NewDay, Night!Tracked, Night!TypeOK
<1>6. QED
    BY <1>2, <1>3, <1>4, <1>5, NightStartTracked, NightReadTracked, NightEnsureTracked, NightEnsureFailsTracked,
       NightSupersedeTracked, NightDispatchTracked, NightPollTracked DEF Night!Next

\* The inductive invariant holds in every state the program can reach.
THEOREM NightTrackedCorrect == ASSUME Night!Finite PROVE Night!Spec => []Night!Tracked
<1>1. ASSUME Night!Init PROVE Night!Tracked
    <2>1. Night!Numbers = {}
        BY <1>1 DEF Night!Init, Night!Numbers
    <2>2. Cardinality(Night!Numbers) = 0 /\ Night!Numbers = 1 .. 0
        BY <2>1, FS_EmptySet
    <2>3. Night!TypeOK
        BY <1>1, <2>1, <2>2, NightIdleTyped, NightSizes DEF Night!Init, Night!TypeOK, Night!Fates
    <2>4. \A r \in Runners : Night!Tracks(r)
        BY <1>1, NightIdleTyped DEF Night!Init, Night!Tracks, Night!AloneTrue, Night!Follows, Night!Carries, Night!Covers, Night!Swept
    <2> QED
        BY <2>1, <2>3, <2>4 DEF Night!Tracked, Night!OnePerDay, Night!OpenIssues
<1>2. Night!Tracked /\ [Night!Next]_(Night!nightVars) => Night!Tracked'
    BY NightTrackedNext
<1>3. Night!Init => Night!Tracked
    BY <1>1
<1>4. QED
    BY <1>2, <1>3, PTL DEF Night!Spec

\* A cell that says a group ended without a pull request never stands without its
\* reason, whichever run wrote or carried it (integration_failure_triage.py).
THEOREM NightMarkerExplainedCorrect == ASSUME Night!Finite PROVE Night!Spec => []Night!MarkerExplained
<1>1. Night!Tracked => Night!MarkerExplained
    BY DEF Night!Tracked, Night!Reasoned, Night!MarkerExplained
<1>2. QED
    BY <1>1, NightTrackedCorrect, PTL

\* A run that nothing disturbed leaves no issue open but its own.
THEOREM NightOneIssueOpenCorrect == ASSUME Night!Finite PROVE Night!Spec => []Night!OneIssueOpen
<1>1. Night!Tracked => Night!OneIssueOpen
    BY DEF Night!Tracked, Night!Tracks, Night!Follows, Night!Swept, Night!OneIssueOpen
<1>2. QED
    BY <1>1, NightTrackedCorrect, PTL

\* A run that is alone writes an issue it has read; a row that was resolved and is
\* neither carried nor of its groups was of a model it takes up.
THEOREM NightResolvedRowKeptCorrect == ASSUME Night!Finite PROVE Night!Spec => Night!ResolvedRowKept
<1> DEFINE Lost ==
        \A n \in Night!Numbers : \A row \in issues[n].rows :
            row.cell \in Night!Resolved /\ row \notin issues'[n].rows =>
               \E r \in Runners :
                  /\ run[r].phase \in {"ensure", "reconcile"}
                  /\ \/ ModelOf[row.group] \in Night!TargetModels(run[r].targets)
                     \/ row.group \in run[r].targets
                     \/ ~run[r].alone
                     \/ ~run[r].saw
<1>1. ASSUME Night!Tracked, NEW n \in Night!Numbers, NEW row \in issues[n].rows,
             row.cell \in Night!Resolved, row \notin issues'[n].rows,
             NEW r \in Runners, NEW w \in Night!Run, run[r].phase \in {"ensure", "reconcile"},
             w.targets = run[r].targets, w.rows = run[r].rows,
             run[r].phase = "ensure" => n \in Night!TodaysIssues(run[r].key),
             run[r].phase = "reconcile" => n = run[r].issue,
             issues'[n].rows = Night!Rendered(w).rows, run[r].alone, run[r].saw
      PROVE  \/ ModelOf[row.group] \in Night!TargetModels(run[r].targets)
             \/ row.group \in run[r].targets
    <2>1. row \notin run[r].rows
        BY <1>1, NightRenderedTyped DEF Night!Tracked
    <2>2. CASE run[r].phase = "ensure"
        <3>1. row \notin Night!CarriedRows(issues[n], run[r].targets)
            BY <1>1, <2>1, <2>2 DEF Night!Tracked, Night!Tracks, Night!Carries
        <3> QED
            BY <1>1, <3>1 DEF Night!CarriedRows, Night!PrCell
    <2>3. CASE run[r].phase = "reconcile"
        BY <1>1, <2>1, <2>3 DEF Night!Tracked, Night!Tracks, Night!Covers, Night!Follows
    <2> QED
        BY <1>1, <2>2, <2>3
<1>2. ASSUME Night!Tracked, Night!Next PROVE Lost
    <2> SUFFICES ASSUME NEW n \in Night!Numbers, NEW row \in issues[n].rows, row.cell \in Night!Resolved,
                        row \notin issues'[n].rows
                 PROVE  \E r \in Runners :
                           /\ run[r].phase \in {"ensure", "reconcile"}
                           /\ \/ ModelOf[row.group] \in Night!TargetModels(run[r].targets)
                              \/ row.group \in run[r].targets
                              \/ ~run[r].alone
                              \/ ~run[r].saw
        OBVIOUS
    <2>1. Night!TypeOK
        BY <1>2 DEF Night!Tracked
    <2>2. ASSUME NEW r \in Runners, NEW w \in Night!Run, run[r].phase \in {"ensure", "reconcile"},
                 w.targets = run[r].targets, w.rows = run[r].rows, NEW m \in Night!Numbers,
                 run[r].phase = "ensure" => m \in Night!TodaysIssues(run[r].key),
                 run[r].phase = "reconcile" => m = run[r].issue,
                 issues' = Night!Patched(m, w)
          PROVE  \/ ModelOf[row.group] \in Night!TargetModels(run[r].targets)
                 \/ row.group \in run[r].targets
                 \/ ~run[r].alone
                 \/ ~run[r].saw
        <3>1. m = n
            BY <2>1, <2>2, NightPatchedTyped
        <3>2. issues'[n].rows = Night!Rendered(w).rows
            BY <2>1, <2>2, <3>1, NightPatchedTyped
        <3> QED
            BY <1>1, <1>2, <2>2, <3>1, <3>2
    <2>3. ASSUME NEW r \in Runners, NEW w \in Night!Run,
                 issues' = [m \in Night!Numbers \union {Cardinality(Night!Numbers) + 1} |->
                               IF m = Cardinality(Night!Numbers) + 1 THEN Night!Rendered(w) ELSE issues[m]]
          PROVE  FALSE
        BY <2>1, <2>3, NightCreatedTyped
    <2>4. \A r \in Runners : run[r] \in Night!Run
        BY <2>1 DEF Night!TypeOK
    <2>5. ASSUME NEW r \in Runners, Night!Ensure(r)
          PROVE  run[r].phase = "ensure" /\
                 \/ ModelOf[row.group] \in Night!TargetModels(run[r].targets)
                 \/ row.group \in run[r].targets
                 \/ ~run[r].alone
                 \/ ~run[r].saw
        <3> DEFINE w == [run[r] EXCEPT !.phase = "supersede"]
        <3>1. /\ w \in Night!Run /\ w.targets = run[r].targets /\ w.rows = run[r].rows
              /\ w.key = run[r].key
            BY <2>4 DEF Night!Run
        <3>2. \/ \E m \in Night!TodaysIssues(w.key) : issues' = Night!Patched(m, w)
              \/ issues' = [m \in Night!Numbers \union {Cardinality(Night!Numbers) + 1} |->
                               IF m = Cardinality(Night!Numbers) + 1 THEN Night!Rendered(w) ELSE issues[m]]
            BY <2>5, NightSizes DEF Night!Ensure
        <3>3. \A m \in Night!TodaysIssues(w.key) : m \in Night!Numbers
            BY DEF Night!TodaysIssues, Night!OpenIssues
        <3>4. run[r].phase = "ensure"
            BY <2>5 DEF Night!Ensure
        <3> HIDE DEF w
        <3> QED
            BY <2>2, <2>3, <3>1, <3>2, <3>3, <3>4
    <2>6. ASSUME NEW r \in Runners, Night!EnsureFails(r) PROVE FALSE
        BY <2>3, <2>4, <2>6, NightSizes DEF Night!EnsureFails
    <2>7. ASSUME NEW r \in Runners, Night!Supersede(r) PROVE FALSE
        <3>1. issues[n] \in Night!Issue
            BY <2>1 DEF Night!TypeOK
        <3>2. issues'[n] = issues[n] \/ issues'[n] = [issues[n] EXCEPT !.open = FALSE]
            BY <2>7 DEF Night!Supersede
        <3>3. issues'[n].rows = issues[n].rows
            BY <3>1, <3>2 DEF Night!Issue
        <3> QED
            BY <3>3
    <2>8. ASSUME NEW r \in Runners, Night!Poll(r)
          PROVE  run[r].phase = "reconcile" /\
                 \/ ModelOf[row.group] \in Night!TargetModels(run[r].targets)
                 \/ row.group \in run[r].targets
                 \/ ~run[r].alone
                 \/ ~run[r].saw
        <3> DEFINE w == [run[r] EXCEPT !.status = Night!Heard(r)]
        <3>1. Night!Heard(r) \in [NightGroups -> Night!Fates]
            BY <2>1 DEF Night!Heard, Night!TypeOK, Night!Run
        <3>2. /\ w \in Night!Run /\ w.targets = run[r].targets /\ w.rows = run[r].rows
              /\ w.issue = run[r].issue /\ run[r].phase = "reconcile"
            BY <2>4, <2>8, <3>1 DEF Night!Run, Night!Poll
        <3>3. issues' = Night!Patched(w.issue, w)
            BY <2>8 DEF Night!Poll
        <3>4. w.issue \in Night!Numbers
            BY <1>2, <3>2 DEF Night!Tracked, Night!Tracks, Night!Follows
        <3> HIDE DEF w
        <3> QED
            BY <2>2, <3>2, <3>3, <3>4
    <2>9. ~UNCHANGED issues
        OBVIOUS
    <2>10. \E r \in Runners : Night!Ensure(r) \/ Night!EnsureFails(r) \/ Night!Supersede(r) \/ Night!Poll(r)
        BY <1>2, <2>9 DEF Night!Next, Night!Start, Night!ReadRows, Night!Dispatch, Night!EndRun, Night!Killed, Night!SergeEnds, Night!NewDay
    <2> QED
        BY <2>5, <2>6, <2>7, <2>8, <2>10
<1>3. UNCHANGED Night!nightVars => Lost
    BY DEF Night!nightVars
<1>4. Night!Tracked /\ [Night!Next]_(Night!nightVars) => [Lost]_(Night!nightVars)
    BY <1>2, <1>3
<1> HIDE DEF Lost
<1>5. Night!Spec => [][Lost]_(Night!nightVars)
    BY <1>4, NightTrackedCorrect, PTL DEF Night!Spec
<1>6. QED
    BY <1>5 DEF Lost, Night!ResolvedRowKept

-----------------------------------------------------------------------------
(* Proofs, for any tests, suites, targets and bounds.                        *)

\* The sizes Liveness counts are those of any other module.
LEMMA LivenessSizes ==
    \A S : Liveness!IsFiniteSet(S) = IsFiniteSet(S) /\ Liveness!Cardinality(S) = Cardinality(S)
BY Zenon DEF Liveness!IsFiniteSet, IsFiniteSet, Liveness!Cardinality, Cardinality

LEMMA LivenessLeastOfNat ==
    ASSUME NEW S \in SUBSET Nat, S # {}
    PROVE  Liveness!Min(S) \in S /\ \A y \in S : Liveness!Min(S) <= y
<1>1. \E x \in S : \A y \in S : x <= y
    BY Least
<1>2. QED
    BY <1>1 DEF Liveness!Min

LEMMA LivenessGreatestBelow ==
    ASSUME NEW n \in Nat, NEW S \in SUBSET (0 .. n), S # {}
    PROVE  Liveness!Max(S) \in S /\ \A y \in S : Liveness!Max(S) >= y
<1>1. \E x \in S : \A y \in S : x >= y
    BY Greatest
<1>2. QED
    BY <1>1 DEF Liveness!Max

LEMMA LivenessCardinalityOfTests ==
    ASSUME Liveness!Suited
    PROVE  /\ Cardinality(LivenessTests) \in Nat
           /\ \A S \in SUBSET LivenessTests : Cardinality(S) \in 0 .. Cardinality(LivenessTests)
<1>1. \A S \in SUBSET LivenessTests :
          IsFiniteSet(S) /\ Cardinality(S) <= Cardinality(LivenessTests) /\ Cardinality(S) \in Nat
    BY FS_Subset, FS_CardinalityType, LivenessSizes DEF Liveness!Suited
<1>2. QED
    BY <1>1, FS_CardinalityType DEF Liveness!Suited

LEMMA LivenessToldNext == ASSUME Liveness!Suited, Liveness!Told, [Liveness!Next]_(Liveness!livenessVars) PROVE Liveness!Told'
<1>1. Len(ci) \in Nat /\ Liveness!Runs = 1 .. Len(ci) /\ \A i \in Liveness!Runs : ci[i] \in Liveness!CiRun
    BY DEF Liveness!Told, Liveness!Runs
<1>2. CASE Liveness!StartCi
    <2>1. PICK new \in Liveness!CiRun : ci' = Append(ci, new) /\ new.ran = {}
        <3>1. PICK event \in {"daily", "push"}, suite \in Suites :
                  ci' = Append(ci, [event |-> event, suite |-> suite, ran |-> {}, failed |-> {}])
            BY <1>2 DEF Liveness!StartCi
        <3>2. suite \in SUBSET LivenessTests
            BY DEF Liveness!Suited
        <3>3. [event |-> event, suite |-> suite, ran |-> {}, failed |-> {}] \in Liveness!CiRun
            BY <3>2 DEF Liveness!CiRun
        <3> QED
            BY <3>1, <3>3
    <2>2. /\ ci' \in Seq(Liveness!CiRun) /\ Liveness!Runs' = 1 .. (Len(ci) + 1)
          /\ \A i \in Liveness!Runs : ci'[i] = ci[i]
          /\ ci'[Len(ci) + 1] = new
        BY <1>1, <2>1 DEF Liveness!Told, Liveness!Runs
    <2> QED
        BY <1>1, <1>2, <2>1, <2>2 DEF Liveness!StartCi, Liveness!Told
<1>3. ASSUME NEW i \in Liveness!Runs, Liveness!RunTest(i) PROVE Liveness!Told'
    <2> DEFINE t == Liveness!Min(ci[i].suite \ ci[i].ran)
    <2>1. ci[i] \in Liveness!CiRun /\ ci[i].ran \subseteq ci[i].suite
        BY <1>1 DEF Liveness!Told
    <2>2. ci[i].suite \ ci[i].ran \in SUBSET Nat /\ ci[i].suite \ ci[i].ran # {}
        BY <1>3, <2>1 DEF Liveness!RunTest, Liveness!CiRun, Liveness!Suited
    <2>3. t \in ci[i].suite /\ t \in LivenessTests
        BY <2>1, <2>2, LivenessLeastOfNat DEF Liveness!CiRun
    <2> HIDE DEF t
    <2> DEFINE new == [ci[i] EXCEPT !.ran = @ \union {t},
                                    !.failed = @ \union ({t} \intersect broken)]
    <2>4. /\ new \in Liveness!CiRun /\ new.ran = ci[i].ran \union {t} /\ new.suite = ci[i].suite
        BY <2>1, <2>3 DEF Liveness!CiRun
    <2>5. ci' = [ci EXCEPT ![i] = new]
        BY <1>3 DEF Liveness!RunTest, t
    <2> HIDE DEF new
    <2>6. /\ ci' \in Seq(Liveness!CiRun) /\ Liveness!Runs' = Liveness!Runs
          /\ ci'[i] = new /\ \A j \in Liveness!Runs \ {i} : ci'[j] = ci[j]
        BY <2>4, <2>5 DEF Liveness!Told, Liveness!Runs
    <2>7. \A j \in Liveness!Runs : ci'[j].ran \subseteq ci'[j].suite
        BY <2>1, <2>3, <2>4, <2>6 DEF Liveness!Told
    <2> QED
        BY <1>3, <2>6, <2>7 DEF Liveness!RunTest, Liveness!Told
<1>4. CASE Liveness!QueryTotals
    <2>1. totals' = Liveness!Totals /\ UNCHANGED ci
        BY <1>4 DEF Liveness!QueryTotals
    <2>2. Liveness!Runs' = Liveness!Runs
        BY <2>1 DEF Liveness!Runs
    <2>3. \A i \in Liveness!Runs : Cardinality(ci[i].ran) \in 0 .. Cardinality(LivenessTests)
        BY <1>1, LivenessCardinalityOfTests DEF Liveness!CiRun
    <2> QED
        BY <2>1, <2>2, <2>3, LivenessSizes DEF Liveness!Told, Liveness!Totals
<1>5. CASE Liveness!QueryFailures
    <2>1. totals' = [i \in {} |-> 0] /\ UNCHANGED ci
        BY <1>5 DEF Liveness!QueryFailures
    <2> QED
        BY <2>1 DEF Liveness!Told, Liveness!Runs
<1>6. CASE UNCHANGED <<ci, totals>>
    BY <1>6 DEF Liveness!Told, Liveness!Runs
<1>7. QED
    BY <1>2, <1>3, <1>4, <1>5, <1>6 DEF Liveness!Next, Liveness!BreakOrFix, Liveness!livenessVars

\* When the runs of the event are whole or small, the newest whole one is in the
\* baseline, and what is recent goes back to it.
LEMMA LivenessRecentFromWhole ==
    ASSUME Liveness!Suited, Liveness!Told, NEW whole, whole = {i \in DOMAIN totals : Liveness!Whole(i)}, whole # {},
           \A i \in DOMAIN totals \ whole : ci[i].event = "daily" => Liveness!Small(i),
           NEW i \in DOMAIN totals, i >= Liveness!Max(whole)
    PROVE  i \in Liveness!Recent
<1> DEFINE m == Liveness!Max(whole)
           all == Cardinality(LivenessTests)
<1>1. all \in Nat /\ Liveness!Runs = 1 .. Len(ci) /\ Len(ci) \in Nat /\ DOMAIN totals \subseteq Liveness!Runs
      /\ \A j \in DOMAIN totals : totals[j] \in 0 .. all
    BY LivenessCardinalityOfTests, LivenessSizes DEF Liveness!Told, Liveness!Runs
<1>2. whole \in SUBSET (0 .. Len(ci))
    BY <1>1
<1>3. m \in whole /\ \A j \in whole : m >= j
    BY <1>1, <1>2, LivenessGreatestBelow
<1> HIDE DEF m
<1>4. m \in Liveness!Pool /\ totals[m] = all /\ m \in DOMAIN totals
    BY <1>3, LivenessSizes DEF Liveness!Whole, Liveness!Pool
<1>5. Liveness!Max({totals[j] : j \in Liveness!Pool}) = all
    <2>1. all \in {totals[j] : j \in Liveness!Pool} /\ \A x \in {totals[j] : j \in Liveness!Pool} : all >= x /\ x \in Nat
        BY <1>1, <1>4 DEF Liveness!Pool
    <2> QED
        BY <1>1, <2>1 DEF Liveness!Max
<1>6. Liveness!FullSuite = whole
    <2>1. \A j \in whole : j \in Liveness!FullSuite
        BY <1>1, <1>5, LivenessSizes DEF Liveness!FullSuite, Liveness!Whole, Liveness!Pool
    <2>2. ASSUME NEW j \in Liveness!FullSuite PROVE j \in whole
        <3>1. j \in DOMAIN totals /\ ci[j].event = "daily" /\ 2 * totals[j] >= all
            BY <1>5 DEF Liveness!FullSuite, Liveness!Pool
        <3>2. Liveness!Small(j) => 2 * totals[j] < all
            BY LivenessSizes DEF Liveness!Small
        <3> QED
            BY <1>1, <3>1, <3>2
    <2> QED
        BY <2>1, <2>2
<1>7. m \in Liveness!Baseline
    <2> DEFINE newer == {j \in Liveness!FullSuite : j > m}
    <2>1. newer = {}
        BY <1>1, <1>3, <1>4, <1>6
    <2> HIDE DEF newer
    <2>2. Cardinality(newer) = 0 /\ 0 < BaselineRuns
        BY <2>1, FS_EmptySet DEF Liveness!Suited
    <2>3. Cardinality(newer) < BaselineRuns
        BY <2>2
    <2> USE DEF newer
    <2> QED
        BY <1>3, <1>6, <2>3, LivenessSizes DEF Liveness!Baseline
<1>8. Liveness!Baseline \in SUBSET Nat
    BY <1>1 DEF Liveness!Baseline, Liveness!FullSuite, Liveness!Pool
<1>9. Liveness!Min(Liveness!Baseline) <= m /\ Liveness!Min(Liveness!Baseline) \in Nat
    BY <1>7, <1>8, LivenessLeastOfNat
<1>10. i >= m /\ i \in Nat /\ m \in Nat
    BY <1>1, <1>4 DEF m
<1>11. QED
    BY <1>9, <1>10 DEF Liveness!Recent

\* A group is skipped only if no test of it known to fail has failed since the last
\* whole run (settled_reason, drop_settled_targets).
THEOREM LivenessSkippedOnEvidenceCorrect == ASSUME Liveness!Suited PROVE Liveness!Spec => Liveness!SkippedOnEvidence
<1> DEFINE Evidence ==
        Liveness!QueryFailures =>
         LET whole == {i \in DOMAIN totals : Liveness!Whole(i)} IN
         (whole # {} /\ \A i \in DOMAIN totals \ whole : ci[i].event = "daily" => Liveness!Small(i)) =>
            \A g \in skipped', i \in DOMAIN totals :
               i >= Liveness!Max(whole) => ci[i].failed \intersect TestsIn[g] = {}
<1>1. ASSUME Liveness!Told, Liveness!QueryFailures, NEW whole, whole = {i \in DOMAIN totals : Liveness!Whole(i)},
             whole # {}, \A i \in DOMAIN totals \ whole : ci[i].event = "daily" => Liveness!Small(i),
             NEW g \in skipped', NEW i \in DOMAIN totals, i >= Liveness!Max(whole)
      PROVE  ci[i].failed \intersect TestsIn[g] = {}
    <2>1. Liveness!Settled(g)
        BY <1>1 DEF Liveness!QueryFailures
    <2>2. i \in Liveness!Recent
        BY <1>1, LivenessRecentFromWhole
    <2>3. i \in Liveness!Runs
        BY <1>1 DEF Liveness!Told
    <2> SUFFICES ASSUME NEW t \in ci[i].failed, t \in TestsIn[g] PROVE FALSE
        OBVIOUS
    <2>4. i \in Liveness!FailingRuns(t)
        BY <2>3 DEF Liveness!FailingRuns
    <2>5. Liveness!FailingRuns(t) \intersect Liveness!Recent = {}
        BY <2>1, <2>4 DEF Liveness!Settled
    <2> QED
        BY <2>2, <2>4, <2>5
<1>2. Liveness!Told => Evidence
    BY <1>1
<1>3. Liveness!Told /\ [Liveness!Next]_(Liveness!livenessVars) => [Evidence]_(Liveness!livenessVars) /\ Liveness!Told'
    BY <1>2, LivenessToldNext
<1>4. Liveness!Init => Liveness!Told
    BY DEF Liveness!Init, Liveness!Told, Liveness!Runs
<1>5. QED
    BY <1>3, <1>4, PTL DEF Liveness!Spec, Liveness!SkippedOnEvidence

-----------------------------------------------------------------------------
(* Proofs, for any tests, windows and pull requests.  First, each step.        *)

\* The sizes Ledger counts are those of any other module.
LEMMA LedgerSizes ==
    \A S : Ledger!IsFiniteSet(S) = IsFiniteSet(S) /\ Ledger!Cardinality(S) = Cardinality(S)
BY Zenon DEF Ledger!IsFiniteSet, IsFiniteSet, Ledger!Cardinality, Cardinality

LEMMA LedgerRestrictToTyped ==
    ASSUME Ledger!TypeOK, NEW S \in SUBSET DOMAIN ledgerPulls
    PROVE  /\ DOMAIN Ledger!RestrictTo(S) = S /\ Ledger!RestrictTo(S) \in [S -> Ledger!Pull]
           /\ \A n \in S : Ledger!RestrictTo(S)[n] = ledgerPulls[n]
BY DEF Ledger!TypeOK, Ledger!RestrictTo

\* What closing a pull request leaves of it.
LEMMA LedgerAsClosedTyped ==
    ASSUME NEW D, NEW f \in [D -> Ledger!Pull], NEW c \in Ledger!Closing, c.number \in D
    PROVE  /\ DOMAIN Ledger!AsClosed(f, c) = D /\ Ledger!AsClosed(f, c) \in [D -> Ledger!Pull]
           /\ \A m \in D : /\ Ledger!AsClosed(f, c)[m].tests = f[m].tests /\ Ledger!AsClosed(f, c)[m].whole = f[m].whole
                           /\ m # c.number => Ledger!AsClosed(f, c)[m] = f[m]
           /\ Ledger!AsClosed(f, c)[c.number].state = "closed"
<1> DEFINE n == c.number  h == Ledger!AsClosed(f, c)
<1>1. \A m \in D : m # n => h[m] = f[m]
    BY DEF Ledger!AsClosed
<1>2. h[n] = [f[n] EXCEPT !.state = "closed", !.marker = c.reason]
    BY DEF Ledger!AsClosed
<1>3. f[n] \in Ledger!Pull /\ c.reason \in {"stale", "superseded"}
    BY DEF Ledger!Closing
<1>4. h[n] \in Ledger!Pull /\ h[n].state = "closed" /\ h[n].tests = f[n].tests /\ h[n].whole = f[n].whole
    BY <1>2, <1>3 DEF Ledger!Pull
<1>5. DOMAIN h = D /\ h = [m \in D |-> h[m]]
    BY DEF Ledger!AsClosed
<1> HIDE DEF h
<1>6. h \in [D -> Ledger!Pull]
    BY <1>1, <1>4, <1>5
<1>7. /\ DOMAIN h = D /\ h \in [D -> Ledger!Pull]
      /\ \A m \in D : /\ h[m].tests = f[m].tests /\ h[m].whole = f[m].whole
                      /\ m # n => h[m] = f[m]
      /\ h[c.number].state = "closed"
    BY <1>1, <1>4, <1>5, <1>6
<1> QED
    BY <1>7 DEF h

LEMMA LedgerRetireTyped ==
    ASSUME Ledger!TypeOK, Ledger!Reckoned, NEW c \in plan, Ledger!Retire(c)
    PROVE  /\ c \in Ledger!Closing /\ c.number \in DOMAIN listed /\ c.number \in DOMAIN ledgerPulls
           /\ Ledger!TypeOK' /\ DOMAIN listed' = DOMAIN listed /\ DOMAIN ledgerPulls' = DOMAIN ledgerPulls
           /\ \A n \in DOMAIN listed :
                 /\ listed'[n].tests = listed[n].tests /\ listed'[n].whole = listed[n].whole
                 /\ n # c.number => listed'[n] = listed[n]
                 /\ listed' # listed => c \in retired'
           /\ \A n \in DOMAIN ledgerPulls :
                 /\ ledgerPulls'[n].tests = ledgerPulls[n].tests
                 /\ n # c.number => ledgerPulls'[n] = ledgerPulls[n]
                 /\ ledgerPulls' # ledgerPulls => ~Ledger!IsOpen(ledgerPulls'[c.number])
           /\ listed' # listed => ledgerPulls' # ledgerPulls
           /\ retired \subseteq retired' /\ retired' \subseteq retired \union {c}
<1>1. /\ c \in Ledger!Closing /\ c.number \in DOMAIN listed /\ c.number \in DOMAIN ledgerPulls
      /\ c.reason \in {"stale", "superseded"}
      /\ DOMAIN listed \subseteq DOMAIN ledgerPulls /\ ledgerPulls \in [DOMAIN ledgerPulls -> Ledger!Pull] /\ listed \in [DOMAIN listed -> Ledger!Pull]
      /\ ledgerPulls \in Seq(Ledger!Pull)
    BY DEF Ledger!TypeOK, Ledger!Reckoned, Ledger!Grounded, Ledger!Closing
<1> DEFINE closing == Ledger!AsClosed(ledgerPulls, c)
           heard == Ledger!AsClosed(listed, c)
<1>2. /\ DOMAIN closing = DOMAIN ledgerPulls /\ closing \in [DOMAIN ledgerPulls -> Ledger!Pull]
      /\ \A m \in DOMAIN ledgerPulls :
            /\ closing[m].tests = ledgerPulls[m].tests /\ closing[m].whole = ledgerPulls[m].whole
            /\ m # c.number => closing[m] = ledgerPulls[m]
      /\ closing[c.number].state = "closed"
    BY <1>1, LedgerAsClosedTyped
<1>3. /\ DOMAIN heard = DOMAIN listed /\ heard \in [DOMAIN listed -> Ledger!Pull]
      /\ \A m \in DOMAIN listed : /\ heard[m].tests = listed[m].tests /\ heard[m].whole = listed[m].whole
                                  /\ m # c.number => heard[m] = listed[m]
      /\ heard[c.number].state = "closed"
    BY <1>1, LedgerAsClosedTyped
<1>5. /\ plan' = plan \ {c}
      /\ \/ Ledger!IsOpen(ledgerPulls[c.number]) /\ ledgerPulls' = closing /\ retired' = retired \union {c} /\ listed' = heard
         \/ Ledger!IsOpen(ledgerPulls[c.number]) /\ ledgerPulls' = closing /\ retired' = retired \union {c} /\ listed' = listed
         \/ UNCHANGED <<ledgerPulls, retired, listed>>
      /\ UNCHANGED <<nights, results, ledgerPhase, groups, touched, touches, doubled>>
    BY DEF Ledger!Retire
<1> HIDE DEF closing, heard
<1>4. closing \in Seq(Ledger!Pull)
    <2>1. Len(ledgerPulls) \in Nat /\ DOMAIN ledgerPulls = 1..Len(ledgerPulls)
        BY <1>1
    <2>2. closing \in [1..Len(ledgerPulls) -> Ledger!Pull]
        BY <1>2, <2>1
    <2> QED
        BY <2>1, <2>2
<1>6. /\ Ledger!IsOpen(ledgerPulls[c.number]) => closing # ledgerPulls
      /\ ~Ledger!IsOpen(closing[c.number])
    BY <1>2 DEF Ledger!IsOpen
<1>7. Ledger!TypeOK'
    BY <1>1, <1>2, <1>3, <1>4, <1>5 DEF Ledger!TypeOK
<1>8. /\ DOMAIN listed' = DOMAIN listed
      /\ \A n \in DOMAIN listed :
            /\ listed'[n].tests = listed[n].tests /\ listed'[n].whole = listed[n].whole
            /\ n # c.number => listed'[n] = listed[n]
            /\ listed' # listed => c \in retired'
    BY <1>3, <1>5
<1>9. /\ DOMAIN ledgerPulls' = DOMAIN ledgerPulls
      /\ \A n \in DOMAIN ledgerPulls :
            /\ ledgerPulls'[n].tests = ledgerPulls[n].tests
            /\ n # c.number => ledgerPulls'[n] = ledgerPulls[n]
            /\ ledgerPulls' # ledgerPulls => ~Ledger!IsOpen(ledgerPulls'[c.number])
    <2>1. CASE ledgerPulls' = ledgerPulls
        BY <2>1
    <2>2. CASE ledgerPulls' = closing
        <3>1. ~Ledger!IsOpen(ledgerPulls'[c.number])
            BY <1>6, <2>2
        <3>2. /\ DOMAIN ledgerPulls' = DOMAIN ledgerPulls
              /\ \A n \in DOMAIN ledgerPulls :
                    /\ ledgerPulls'[n].tests = ledgerPulls[n].tests
                    /\ n # c.number => ledgerPulls'[n] = ledgerPulls[n]
            BY <1>2, <2>2
        <3> QED
            BY <3>1, <3>2
    <2> QED
        BY <1>5, <2>1, <2>2
<1> QED
    BY <1>1, <1>5, <1>6, <1>7, <1>8, <1>9

LEMMA LedgerTypeInit == ASSUME Ledger!Windows, Ledger!Init PROVE Ledger!TypeOK
<1>1. PICK old \in OldPulls :
          ledgerPulls = [n \in DOMAIN old |-> [tests |-> old[n].tests, fp |-> old[n].fp, whole |-> old[n].whole,
                                         state |-> "open", marker |-> "none"]]
    BY DEF Ledger!Init
<1>2. old \in Seq([tests : SUBSET LedgerTests, fp : (SUBSET LedgerTests) \X Variants, whole : BOOLEAN])
    BY DEF Ledger!Windows
<1>3. ledgerPulls \in [1..Len(old) -> Ledger!Pull] /\ Len(old) \in Nat
    <2>1. DOMAIN old = 1..Len(old) /\ Len(old) \in Nat
        BY <1>2
    <2>2. \A n \in DOMAIN old : old[n] \in [tests : SUBSET LedgerTests, fp : (SUBSET LedgerTests) \X Variants, whole : BOOLEAN]
        <3> SUFFICES ASSUME NEW n \in DOMAIN old
                     PROVE  old[n] \in [tests : SUBSET LedgerTests, fp : (SUBSET LedgerTests) \X Variants, whole : BOOLEAN]
            OBVIOUS
        <3> DEFINE Kind == [tests : SUBSET LedgerTests, fp : (SUBSET LedgerTests) \X Variants, whole : BOOLEAN]
        <3>1. old \in Seq(Kind)
            BY <1>2
        <3> HIDE DEF Kind
        <3>2. old[n] \in Kind
            BY <3>1
        <3> QED
            BY <3>2 DEF Kind
    <2>3. \A n \in DOMAIN old : [tests |-> old[n].tests, fp |-> old[n].fp, whole |-> old[n].whole,
                                 state |-> "open", marker |-> "none"] \in Ledger!Pull
        BY <2>2 DEF Ledger!Pull
    <2> QED
        BY <1>1, <2>1, <2>3
<1>4. ledgerPulls \in Seq(Ledger!Pull)
    BY <1>3
<1>5. QED
    BY <1>4 DEF Ledger!Init, Ledger!TypeOK, Ledger!Windows

\* What the run knows once it has listed: every closing has its reason.
LEMMA LedgerBeginRunGrounds ==
    ASSUME Ledger!Windows, Ledger!TypeOK, Ledger!BeginRun
    PROVE  Ledger!TypeOK' /\ Ledger!ListingTrue' /\ \A c \in plan' : Ledger!Grounded(c)'
<1>1. PICK known \in SUBSET DOMAIN ledgerPulls : listed' = Ledger!RestrictTo(known)
    BY DEF Ledger!BeginRun
<1>2. /\ DOMAIN listed' = known /\ listed' \in [known -> Ledger!Pull]
      /\ \A n \in known : listed'[n] = ledgerPulls[n]
    BY <1>1, LedgerRestrictToTyped
<1>3. plan' = Ledger!Closings' /\ retired' = {} /\ touched' = {} /\ ledgerPhase' = "retire" /\ UNCHANGED <<nights, results, ledgerPulls, groups>>
    BY DEF Ledger!BeginRun
<1>4. known \subseteq Nat
    BY DEF Ledger!TypeOK
<1>5. /\ \A n \in Ledger!Stale' : n \in known /\ Ledger!Quiet(listed[n])' /\ QuietDays # 0 /\ ~(Len(results') < QuietDays)
      /\ \A n \in Ledger!Superseded' : n \in known /\ \E m \in known : m > n /\ Ledger!Covers(listed[m], listed[n])' /\ Ledger!IsOpen(listed[m])'
    BY <1>2 DEF Ledger!Stale, Ledger!Superseded, Ledger!ListedOpen
<1>6. \A c \in plan' : \/ c.number \in Ledger!Stale' /\ c = [number |-> c.number, reason |-> "stale"]
                       \/ c.number \in Ledger!Superseded' /\ c = [number |-> c.number, reason |-> "superseded"]
    BY <1>3 DEF Ledger!Closings
<1>7. plan' \subseteq Ledger!Closing
    BY <1>4, <1>5, <1>6 DEF Ledger!Closing
<1>8. Ledger!TypeOK'
    BY <1>2, <1>3, <1>7 DEF Ledger!TypeOK
<1>9. ASSUME NEW c \in plan' PROVE Ledger!Grounded(c)'
    <2>1. CASE c.number \in Ledger!Stale' /\ c.reason = "stale"
        <3>1. c.number \in known /\ Ledger!Quiet(listed[c.number])' /\ QuietDays # 0 /\ ~(Len(results') < QuietDays)
            BY <1>5, <2>1
        <3>2. Len(results') \in Nat
            BY <1>8 DEF Ledger!TypeOK
        <3>3. QuietDays # 0 /\ Len(results') >= QuietDays
            BY <3>1, <3>2 DEF Ledger!Windows
        <3> QED
            BY <3>1, <3>3, <2>1, <1>2 DEF Ledger!Grounded
    <2>2. CASE c.number \in Ledger!Superseded' /\ c.reason = "superseded"
        BY <1>2, <1>5, <2>2 DEF Ledger!Grounded
    <2> QED
        BY <1>6, <2>1, <2>2
<1>10. Ledger!ListingTrue'
    BY <1>2, <1>3 DEF Ledger!ListingTrue, Ledger!TargetTests, Ledger!IsOpen
<1>11. QED
    BY <1>8, <1>9, <1>10

\* A closing keeps its reason while the results stand, unless what is open is
\* closed by the run.
LEMMA LedgerGroundedKept ==
    ASSUME NEW c, Ledger!Grounded(c), results' = results, DOMAIN listed' = DOMAIN listed, retired \subseteq retired',
           \A n \in DOMAIN listed :
               /\ listed'[n].tests = listed[n].tests /\ listed'[n].whole = listed[n].whole
               /\ Ledger!IsOpen(listed[n]) => Ledger!IsOpen(listed'[n]) \/ \E r \in retired' : r.number = n
    PROVE  Ledger!Grounded(c)'
<1>1. ASSUME NEW n \in DOMAIN listed, Ledger!Quiet(listed[n]) PROVE Ledger!Quiet(listed[n])'
    BY <1>1 DEF Ledger!Quiet, Ledger!NewestResults, Ledger!PassedOn, Ledger!TargetTests
<1>2. ASSUME NEW n \in DOMAIN listed, NEW m \in DOMAIN listed, Ledger!Covers(listed[m], listed[n])
      PROVE  Ledger!Covers(listed[m], listed[n])'
    BY <1>2 DEF Ledger!Covers, Ledger!TargetTests
<1>3. QED
    BY <1>1, <1>2 DEF Ledger!Grounded

LEMMA LedgerPersistentKept ==
    ASSUME results' = results PROVE Ledger!Persistent' = Ledger!Persistent
BY DEF Ledger!Persistent

LEMMA LedgerReckonedRetire ==
    ASSUME Ledger!Windows, Ledger!Reckoned, NEW c \in plan, Ledger!Retire(c)
    PROVE  Ledger!Reckoned'
<1>1. /\ c \in Ledger!Closing /\ c.number \in DOMAIN listed /\ c.number \in DOMAIN ledgerPulls
      /\ Ledger!TypeOK' /\ DOMAIN listed' = DOMAIN listed /\ DOMAIN ledgerPulls' = DOMAIN ledgerPulls
      /\ \A n \in DOMAIN listed :
            /\ listed'[n].tests = listed[n].tests /\ listed'[n].whole = listed[n].whole
            /\ n # c.number => listed'[n] = listed[n]
            /\ listed' # listed => c \in retired'
      /\ \A n \in DOMAIN ledgerPulls :
            /\ ledgerPulls'[n].tests = ledgerPulls[n].tests
            /\ n # c.number => ledgerPulls'[n] = ledgerPulls[n]
            /\ ledgerPulls' # ledgerPulls => ~Ledger!IsOpen(ledgerPulls'[c.number])
      /\ listed' # listed => ledgerPulls' # ledgerPulls
      /\ retired \subseteq retired' /\ retired' \subseteq retired \union {c}
    BY LedgerRetireTyped DEF Ledger!Reckoned
<1>2. /\ ledgerPhase = "retire" /\ plan' = plan \ {c}
      /\ UNCHANGED <<results, ledgerPhase, groups, touched, doubled>>
    BY DEF Ledger!Retire
<1>3. \A n \in DOMAIN listed :
          Ledger!IsOpen(listed[n]) => Ledger!IsOpen(listed'[n]) \/ \E r \in retired' : r.number = n
    BY <1>1
<1>4. ASSUME NEW d \in plan' \union retired' PROVE Ledger!Grounded(d)'
    <2>1. Ledger!Grounded(d)
        BY <1>1, <1>2 DEF Ledger!Reckoned
    <2> QED
        BY <2>1, <1>1, <1>2, <1>3, LedgerGroundedKept
<1>5. Ledger!ListingTrue'
    <2>1. DOMAIN listed \subseteq DOMAIN ledgerPulls
        BY DEF Ledger!Reckoned, Ledger!TypeOK
    <2>2. ASSUME NEW n \in DOMAIN listed'
          PROVE  /\ Ledger!TargetTests(listed'[n]) = Ledger!TargetTests(ledgerPulls'[n])
                 /\ n \notin touched /\ Ledger!IsOpen(ledgerPulls'[n]) => Ledger!IsOpen(listed'[n])
        <3>1. /\ Ledger!TargetTests(listed[n]) = Ledger!TargetTests(ledgerPulls[n])
              /\ n \notin touched /\ Ledger!IsOpen(ledgerPulls[n]) => Ledger!IsOpen(listed[n])
            BY <1>1 DEF Ledger!Reckoned, Ledger!ListingTrue
        <3>2. CASE n = c.number
            BY <1>1, <2>1, <3>1, <3>2 DEF Ledger!TargetTests
        <3>3. CASE n # c.number
            BY <1>1, <2>1, <3>1, <3>3 DEF Ledger!TargetTests
        <3> QED
            BY <3>2, <3>3
    <2> QED
        BY <1>2, <2>2 DEF Ledger!ListingTrue
<1>6. Ledger!OneThingAtATime' /\ Ledger!OnePullPerTest'
    BY <1>1, <1>2 DEF Ledger!Reckoned, Ledger!OneThingAtATime, Ledger!OnePullPerTest
<1>7. \A g \in groups' : g.tests \subseteq Ledger!Persistent'
    BY <1>2, LedgerPersistentKept DEF Ledger!Reckoned
<1>8. QED
    BY <1>1, <1>4, <1>5, <1>6, <1>7 DEF Ledger!Reckoned

LEMMA LedgerReckonedOpenNew ==
    ASSUME Ledger!Windows, Ledger!Reckoned, NEW g \in groups, Ledger!OpenNew(g)
    PROVE  Ledger!Reckoned'
<1>1. /\ ledgerPhase = "dispatch" /\ Ledger!OpenPulls(g.tests, g.fp) = {} /\ groups' = groups \ {g}
      /\ UNCHANGED <<results, ledgerPhase, listed, plan, retired, touched>>
    BY DEF Ledger!OpenNew
<1> DEFINE p == [tests |-> g.tests, fp |-> g.fp, whole |-> TRUE, state |-> "open", marker |-> "none"]
<1>2. \/ UNCHANGED <<ledgerPulls, doubled>>
      \/ /\ ledgerPulls' = Append(ledgerPulls, p)
         /\ doubled' = (doubled \/ \E n \in DOMAIN listed \ touched :
                           Ledger!IsOpen(ledgerPulls[n]) /\ Ledger!TargetTests(ledgerPulls[n]) \intersect g.tests # {})
    BY DEF Ledger!OpenNew
<1>3. p \in Ledger!Pull
    BY DEF Ledger!Reckoned, Ledger!TypeOK, Ledger!Group, Ledger!Pull
<1> HIDE DEF p
<1>4. /\ ledgerPulls' \in Seq(Ledger!Pull) /\ DOMAIN ledgerPulls \subseteq DOMAIN ledgerPulls'
      /\ \A n \in DOMAIN ledgerPulls : ledgerPulls'[n] = ledgerPulls[n]
    <2>1. ledgerPulls \in Seq(Ledger!Pull)
        BY DEF Ledger!Reckoned, Ledger!TypeOK
    <2> QED
        BY <1>2, <1>3, <2>1
<1>5. DOMAIN listed \subseteq DOMAIN ledgerPulls
    BY DEF Ledger!Reckoned, Ledger!TypeOK
<1>6. \A n \in DOMAIN listed \ touched :
          ~(Ledger!IsOpen(ledgerPulls[n]) /\ Ledger!TargetTests(ledgerPulls[n]) \intersect g.tests # {})
    BY <1>1 DEF Ledger!Reckoned, Ledger!ListingTrue, Ledger!OpenPulls, Ledger!ListedOpen, Ledger!Tracks
<1>7. Ledger!OnePullPerTest'
    BY <1>2, <1>6 DEF Ledger!Reckoned, Ledger!OnePullPerTest
<1>8. Ledger!TypeOK'
    BY <1>1, <1>4, <1>5 DEF Ledger!Reckoned, Ledger!TypeOK
<1>9. Ledger!ListingTrue'
    BY <1>1, <1>4, <1>5 DEF Ledger!Reckoned, Ledger!ListingTrue
<1>10. \A c \in plan' \union retired' : Ledger!Grounded(c)'
    <2>1. \A c \in plan' \union retired' : Ledger!Grounded(c)
        BY <1>1 DEF Ledger!Reckoned
    <2> QED
        BY <1>1, <2>1, LedgerGroundedKept
<1>11. \A h \in groups' : h.tests \subseteq Ledger!Persistent'
    BY <1>1, LedgerPersistentKept DEF Ledger!Reckoned
<1>12. QED
    BY <1>1, <1>7, <1>8, <1>9, <1>10, <1>11 DEF Ledger!Reckoned, Ledger!OneThingAtATime

LEMMA LedgerReckonedMaintainer ==
    ASSUME Ledger!Windows, Ledger!Reckoned, NEW n \in DOMAIN ledgerPulls, NEW from \in {"open", "closed"},
           NEW to \in {"open", "closed", "merged"}, Ledger!Maintainer(n, from, to)
    PROVE  Ledger!Reckoned'
<1>1. /\ ledgerPulls' = [ledgerPulls EXCEPT ![n].state = to]
      /\ touched' = IF ledgerPhase = "idle" THEN touched ELSE touched \union {n}
      /\ UNCHANGED <<results, ledgerPhase, listed, plan, groups, retired, doubled>>
    BY DEF Ledger!Maintainer
<1>2. ledgerPulls \in Seq(Ledger!Pull) /\ DOMAIN listed \subseteq DOMAIN ledgerPulls
    BY DEF Ledger!Reckoned, Ledger!TypeOK
<1>3. /\ ledgerPulls' \in Seq(Ledger!Pull) /\ DOMAIN ledgerPulls' = DOMAIN ledgerPulls
      /\ \A m \in DOMAIN ledgerPulls : ledgerPulls'[m].tests = ledgerPulls[m].tests /\ (m # n => ledgerPulls'[m] = ledgerPulls[m])
    <2>1. Len(ledgerPulls) \in Nat /\ DOMAIN ledgerPulls = 1..Len(ledgerPulls) /\ ledgerPulls[n] \in Ledger!Pull
        BY <1>2
    <2>2. ledgerPulls'[n] = [ledgerPulls[n] EXCEPT !.state = to]
        BY <1>1
    <2>3. ledgerPulls'[n] \in Ledger!Pull /\ ledgerPulls'[n].tests = ledgerPulls[n].tests
        BY <2>1, <2>2 DEF Ledger!Pull
    <2>4. DOMAIN ledgerPulls' = DOMAIN ledgerPulls /\ \A m \in DOMAIN ledgerPulls : m # n => ledgerPulls'[m] = ledgerPulls[m]
        BY <1>1
    <2>5. ledgerPulls' = [m \in 1..Len(ledgerPulls) |-> ledgerPulls'[m]]
        BY <1>1, <2>1
    <2>6. \A m \in 1..Len(ledgerPulls) : ledgerPulls'[m] \in Ledger!Pull
        BY <1>2, <2>1, <2>3, <2>4
    <2>7. ledgerPulls' \in Seq(Ledger!Pull)
        BY <2>1, <2>5, <2>6
    <2> QED
        BY <2>3, <2>4, <2>7
<1>4. Ledger!ListingTrue'
    <2>1. CASE ledgerPhase = "idle"
        BY <1>1, <2>1 DEF Ledger!Reckoned, Ledger!OneThingAtATime, Ledger!ListingTrue
    <2>2. CASE ledgerPhase # "idle"
        BY <1>1, <1>2, <1>3, <2>2 DEF Ledger!Reckoned, Ledger!ListingTrue, Ledger!TargetTests
    <2> QED
        BY <2>1, <2>2
<1>5. Ledger!TypeOK'
    BY <1>1, <1>2, <1>3 DEF Ledger!Reckoned, Ledger!TypeOK
<1>6. \A c \in plan' \union retired' : Ledger!Grounded(c)'
    <2>1. \A c \in plan' \union retired' : Ledger!Grounded(c)
        BY <1>1 DEF Ledger!Reckoned
    <2> QED
        BY <1>1, <2>1, LedgerGroundedKept
<1>7. \A g \in groups' : g.tests \subseteq Ledger!Persistent'
    BY <1>1, LedgerPersistentKept DEF Ledger!Reckoned
<1>8. QED
    BY <1>1, <1>4, <1>5, <1>6, <1>7 DEF Ledger!Reckoned, Ledger!OneThingAtATime, Ledger!OnePullPerTest

LEMMA LedgerReckonedNight ==
    ASSUME Ledger!Windows, Ledger!Reckoned, Ledger!Night
    PROVE  Ledger!Reckoned'
<1>1. PICK now \in SUBSET LedgerTests, crashed \in BOOLEAN :
          LET night == [ran |-> ~crashed, failing |-> IF crashed THEN {} ELSE now] IN
          results' = IF Len(results) < Window THEN Append(results, night)
                             ELSE Append(Tail(results), night)
    BY DEF Ledger!Night
<1> DEFINE Kind == [ran : BOOLEAN, failing : SUBSET LedgerTests]
           night == [ran |-> ~crashed, failing |-> IF crashed THEN {} ELSE now]
<1>2. night \in Kind /\ results \in Seq(Kind) /\ Len(results) <= Window /\ Window \in Nat \ {0}
    BY DEF Ledger!Reckoned, Ledger!TypeOK, Ledger!Windows
<1>3. results' = IF Len(results) < Window THEN Append(results, night) ELSE Append(Tail(results), night)
    BY <1>1
<1> HIDE DEF Kind, night
<1>4. results' \in Seq(Kind) /\ Len(results') <= Window
    <2>1. CASE Len(results) < Window
        BY <1>2, <1>3, <2>1
    <2>2. CASE Len(results) = Window
        BY <1>2, <1>3, <2>2
    <2> QED
        BY <1>2, <2>1, <2>2
<1>5. /\ ledgerPhase = "idle"
      /\ UNCHANGED <<ledgerPulls, ledgerPhase, listed, plan, groups, retired, touched, doubled>>
    BY DEF Ledger!Night
<1>6. Ledger!TypeOK'
    BY <1>4, <1>5 DEF Ledger!Reckoned, Ledger!TypeOK, Kind
<1>7. plan = {} /\ retired = {} /\ groups = {}
    BY <1>5 DEF Ledger!Reckoned, Ledger!OneThingAtATime
<1>8. QED
    BY <1>5, <1>6, <1>7 DEF Ledger!Reckoned, Ledger!OneThingAtATime, Ledger!ListingTrue, Ledger!OnePullPerTest

LEMMA LedgerReckonedNext ==
    ASSUME Ledger!Windows, Ledger!Reckoned, [Ledger!Next]_(Ledger!ledgerVars)
    PROVE  Ledger!Reckoned'
<1>1. CASE Ledger!Night
    BY <1>1, LedgerReckonedNight
<1>2. CASE Ledger!BeginRun
    <2>1. Ledger!TypeOK' /\ Ledger!ListingTrue' /\ \A c \in plan' : Ledger!Grounded(c)'
        BY <1>2, LedgerBeginRunGrounds DEF Ledger!Reckoned
    <2>2. ledgerPhase = "idle" /\ retired' = {} /\ ledgerPhase' = "retire" /\ UNCHANGED <<groups, doubled>>
        BY <1>2 DEF Ledger!BeginRun
    <2>3. groups' = {}
        BY <2>2 DEF Ledger!Reckoned, Ledger!OneThingAtATime
    <2> QED
        BY <2>1, <2>2, <2>3 DEF Ledger!Reckoned, Ledger!OneThingAtATime, Ledger!OnePullPerTest
<1>3. CASE Ledger!ChooseGroups
    <2>1. /\ ledgerPhase = "retire" /\ plan = {} /\ ledgerPhase' = "dispatch"
          /\ UNCHANGED <<results, ledgerPulls, listed, plan, retired, touched, doubled>>
        BY <1>3 DEF Ledger!ChooseGroups
    <2>2. PICK gs \in Ledger!Groupings, variant \in Variants :
              \E some \in SUBSET {g \in gs : ~Ledger!Declined(g, Ledger!Fingerprint(g, variant))} :
                 groups' = {[tests |-> g, fp |-> Ledger!Fingerprint(g, variant)] : g \in some}
        BY <1>3 DEF Ledger!ChooseGroups
    <2>3. \A g \in gs : g \subseteq Ledger!Persistent /\ g \subseteq LedgerTests
        BY DEF Ledger!Groupings, Ledger!Persistent
    <2>4. groups' \subseteq Ledger!Group /\ \A g \in groups' : g.tests \subseteq Ledger!Persistent
        BY <2>2, <2>3 DEF Ledger!Group, Ledger!Fingerprint
    <2>5. \A c \in plan' \union retired' : Ledger!Grounded(c)'
        <3>1. \A c \in plan' \union retired' : Ledger!Grounded(c)
            BY <2>1 DEF Ledger!Reckoned
        <3> QED
            BY <2>1, <3>1, LedgerGroundedKept
    <2>6. Ledger!TypeOK' /\ Ledger!ListingTrue'
        BY <2>1, <2>4 DEF Ledger!Reckoned, Ledger!TypeOK, Ledger!ListingTrue
    <2>7. \A g \in groups' : g.tests \subseteq Ledger!Persistent'
        BY <2>1, <2>4, LedgerPersistentKept
    <2> QED
        BY <2>1, <2>5, <2>6, <2>7 DEF Ledger!Reckoned, Ledger!OneThingAtATime, Ledger!OnePullPerTest
<1>4. CASE Ledger!EndRun
    <2>1. /\ ledgerPhase = "dispatch" /\ groups = {} /\ ledgerPhase' = "idle"
          /\ listed' = Ledger!RestrictTo({}) /\ retired' = {}
          /\ UNCHANGED <<results, ledgerPulls, plan, groups, doubled>>
        BY <1>4 DEF Ledger!EndRun
    <2>2. DOMAIN listed' = {} /\ listed' \in [{} -> Ledger!Pull] /\ plan' = {}
        BY <2>1 DEF Ledger!Reckoned, Ledger!OneThingAtATime, Ledger!RestrictTo
    <2>3. Ledger!TypeOK'
        BY <2>1, <2>2 DEF Ledger!Reckoned, Ledger!TypeOK
    <2> QED
        BY <2>1, <2>2, <2>3 DEF Ledger!Reckoned, Ledger!OneThingAtATime, Ledger!OnePullPerTest, Ledger!ListingTrue
<1>5. ASSUME NEW c \in plan, Ledger!Retire(c) PROVE Ledger!Reckoned'
    BY <1>5, LedgerReckonedRetire
<1>6. ASSUME NEW g \in groups, Ledger!FollowUp(g) PROVE Ledger!Reckoned'
    <2>1. /\ groups' = groups \ {g} /\ ledgerPhase = "dispatch"
          /\ UNCHANGED <<results, ledgerPulls, ledgerPhase, listed, plan, retired, touched, doubled>>
        BY <1>6 DEF Ledger!FollowUp
    <2>2. \A c \in plan' \union retired' : Ledger!Grounded(c)'
        <3>1. \A c \in plan' \union retired' : Ledger!Grounded(c)
            BY <2>1 DEF Ledger!Reckoned
        <3> QED
            BY <2>1, <3>1, LedgerGroundedKept
    <2>3. Ledger!TypeOK' /\ Ledger!ListingTrue' /\ Ledger!OneThingAtATime' /\ Ledger!OnePullPerTest'
        BY <2>1 DEF Ledger!Reckoned, Ledger!TypeOK, Ledger!ListingTrue, Ledger!OneThingAtATime, Ledger!OnePullPerTest
    <2>4. \A h \in groups' : h.tests \subseteq Ledger!Persistent'
        BY <2>1, LedgerPersistentKept DEF Ledger!Reckoned
    <2> QED
        BY <2>2, <2>3, <2>4 DEF Ledger!Reckoned
<1>7. ASSUME NEW g \in groups, Ledger!OpenNew(g) PROVE Ledger!Reckoned'
    BY <1>7, LedgerReckonedOpenNew
<1>8. ASSUME NEW n \in DOMAIN ledgerPulls,
             Ledger!Maintainer(n, "open", "closed") \/ Ledger!Maintainer(n, "open", "merged") \/ Ledger!Maintainer(n, "closed", "open")
      PROVE  Ledger!Reckoned'
    BY <1>8, LedgerReckonedMaintainer
<1>9. CASE UNCHANGED Ledger!ledgerVars
    <2>1. UNCHANGED <<results, ledgerPulls, ledgerPhase, listed, plan, groups, retired, touched, doubled>>
        BY <1>9 DEF Ledger!ledgerVars
    <2>2. \A c \in plan' \union retired' : Ledger!Grounded(c)'
        <3>1. \A c \in plan' \union retired' : Ledger!Grounded(c)
            BY <2>1 DEF Ledger!Reckoned
        <3> QED
            BY <2>1, <3>1, LedgerGroundedKept
    <2>3. Ledger!TypeOK' /\ Ledger!ListingTrue' /\ Ledger!OneThingAtATime' /\ Ledger!OnePullPerTest'
        BY <2>1 DEF Ledger!Reckoned, Ledger!TypeOK, Ledger!ListingTrue, Ledger!OneThingAtATime, Ledger!OnePullPerTest
    <2>4. \A h \in groups' : h.tests \subseteq Ledger!Persistent'
        BY <2>1, LedgerPersistentKept DEF Ledger!Reckoned
    <2> QED
        BY <2>2, <2>3, <2>4 DEF Ledger!Reckoned
<1>10. QED
    BY <1>1, <1>2, <1>3, <1>4, <1>5, <1>6, <1>7, <1>8, <1>9 DEF Ledger!Next

\* Every closing has its reason, whatever maintainers do meanwhile (main,
\* retire_serge_prs).
THEOREM LedgerReckonedCorrect == ASSUME Ledger!Windows PROVE Ledger!Spec => []Ledger!Reckoned
<1>1. Ledger!Init => Ledger!Reckoned
    <2> SUFFICES ASSUME Ledger!Init PROVE Ledger!Reckoned
        OBVIOUS
    <2>1. Ledger!TypeOK
        BY LedgerTypeInit
    <2> QED
        BY <2>1 DEF Ledger!Init, Ledger!Reckoned, Ledger!OneThingAtATime, Ledger!ListingTrue, Ledger!OnePullPerTest
<1>2. Ledger!Reckoned /\ [Ledger!Next]_(Ledger!ledgerVars) => Ledger!Reckoned'
    BY LedgerReckonedNext
<1>3. QED
    BY <1>1, <1>2, PTL DEF Ledger!Spec

\* Of the pull requests a run knew for a test that fails, the newest it closes was
\* closed for a newer one, which is open (find_stale_prs, find_superseded_prs).
THEOREM LedgerCoverageKeptCorrect == ASSUME Ledger!Windows PROVE Ledger!Spec => []Ledger!CoverageKept
<1>1. ASSUME Ledger!Reckoned PROVE Ledger!CoverageKept
    <2> DEFINE for(t) == {n \in DOMAIN listed : t \in Ledger!TargetTests(listed[n])}
               gone == {c.number : c \in retired}
    <2> SUFFICES ASSUME NEW t \in LedgerTests, NEW d \in Ledger!NewestResults, t \in results[d].failing,
                        for(t) \intersect gone # {}
                 PROVE  \E n \in for(t) \ gone : Ledger!IsOpen(listed[n])
        BY DEF Ledger!CoverageKept
    <2>1. for(t) \intersect gone \in SUBSET (0 .. Len(ledgerPulls)) /\ Len(ledgerPulls) \in Nat
        BY <1>1 DEF Ledger!Reckoned, Ledger!TypeOK
    <2>2. PICK n \in for(t) \intersect gone : \A m \in for(t) \intersect gone : n >= m
        BY <2>1, Greatest
    <2>3. PICK c \in retired : c.number = n
        BY <2>2
    <2>4. Ledger!Grounded(c) /\ c.reason \in {"stale", "superseded"}
        BY <1>1, <2>3 DEF Ledger!Reckoned, Ledger!TypeOK, Ledger!Closing
    <2>5. ~Ledger!Quiet(listed[n])
        <3>1. ~Ledger!PassedOn(d, listed[n], t)
            BY DEF Ledger!PassedOn
        <3> QED
            BY <2>2, <3>1 DEF Ledger!Quiet
    <2>6. PICK m \in DOMAIN listed :
              /\ m > n /\ Ledger!Covers(listed[m], listed[n])
              /\ Ledger!IsOpen(listed[m]) \/ \E r \in retired : r.number = m
        BY <2>3, <2>4, <2>5 DEF Ledger!Grounded
    <2>7. m \in for(t)
        BY <2>2, <2>6 DEF Ledger!Covers
    <2>8. n \in Nat /\ m \in Nat
        BY <1>1, <2>2, <2>6 DEF Ledger!Reckoned, Ledger!TypeOK
    <2>9. m \notin gone
        BY <2>2, <2>6, <2>7, <2>8
    <2> QED
        BY <2>6, <2>7, <2>9
<1>2. QED
    BY <1>1, LedgerReckonedCorrect, PTL

\* With windows as the defaults are, a test quiet long enough for its pull request
\* to be closed is not persistent (find_stale_prs, intersect_across_days).
THEOREM LedgerNeverQuietAndDispatchedCorrect ==
    ASSUME Ledger!Windows, Ledger!QuietOutlasts PROVE Ledger!Spec => []Ledger!NeverQuietAndDispatched
<1>1. ASSUME Ledger!Reckoned PROVE Ledger!NeverQuietAndDispatched
    <2> SUFFICES ASSUME NEW g \in groups, NEW c \in retired, c.reason = "stale",
                        NEW t \in Ledger!TargetTests(ledgerPulls[c.number]) \intersect g.tests
                 PROVE  FALSE
        BY DEF Ledger!NeverQuietAndDispatched
    <2>1. Ledger!Grounded(c) /\ t \in Ledger!Persistent
        BY <1>1 DEF Ledger!Reckoned
    <2>2. c.number \in DOMAIN listed /\ Ledger!Quiet(listed[c.number]) /\ Len(results) >= QuietDays
        BY <2>1 DEF Ledger!Grounded
    <2>3. t \in Ledger!TargetTests(listed[c.number])
        BY <1>1, <2>2 DEF Ledger!Reckoned, Ledger!ListingTrue
    <2>4. \A d \in Ledger!NewestResults : t \notin results[d].failing
        BY <2>2, <2>3 DEF Ledger!Quiet, Ledger!PassedOn
    <2> DEFINE red == {d \in DOMAIN results : t \in results[d].failing}
               n == Len(results) - QuietDays
    <2>5. /\ DOMAIN results = 1 .. Len(results) /\ Len(results) \in Nat /\ Len(results) <= Window
          /\ QuietDays \in Nat /\ MinDays \in Nat /\ Window \in Nat /\ Window < MinDays + QuietDays
        BY <1>1 DEF Ledger!Reckoned, Ledger!TypeOK, Ledger!Windows, Ledger!QuietOutlasts
    <2>6. red \subseteq 1 .. n /\ n \in Nat /\ n < MinDays
        BY <2>2, <2>4, <2>5 DEF Ledger!NewestResults
    <2>7. IsFiniteSet(1 .. n) /\ Cardinality(1 .. n) = n
        BY <2>6, FS_Interval
    <2>8. Cardinality(red) <= Cardinality(1 .. n) /\ Cardinality(red) \in Nat
        BY <2>6, <2>7, FS_Subset, FS_CardinalityType
    <2>9. Cardinality(red) >= MinDays
        BY <2>1, LedgerSizes DEF Ledger!Persistent
    <2> HIDE DEF red, n
    <2> QED
        BY <2>5, <2>6, <2>7, <2>8, <2>9
<1>2. QED
    BY <1>1, LedgerReckonedCorrect, PTL

\* No second pull request is opened for a test while one the run listed is left
\* open (classify_prior_attempts).
THEOREM LedgerOnePullPerTestCorrect == ASSUME Ledger!Windows PROVE Ledger!Spec => []Ledger!OnePullPerTest
<1>1. Ledger!Reckoned => Ledger!OnePullPerTest
    BY DEF Ledger!Reckoned
<1>2. QED
    BY <1>1, LedgerReckonedCorrect, PTL

-----------------------------------------------------------------------------
(* The sum: a behaviour of it is one of every component, or leaves it alone   *)

\* What a step of the sum is for the component it is about.
LEMMA SumInit ==
    Init => /\ Ledger!Init /\ Dashboard!Init /\ Night!Init /\ Liveness!Init
            /\ (part = "dispatch" => Dispatch!Init)
BY DEF Init

LEMMA PartKept == [Next]_vars => part' = part
BY DEF Next, vars

LEMMA DispatchStep == (part = "dispatch" /\ [Next]_vars) => [Dispatch!Next]_(Dispatch!triageVars)
BY DEF Next, vars, dispatchVars, Dispatch!triageVars, Dispatch!dispatchVars, Dispatch!sergeVars,
       Dispatch!reconcileVars

LEMMA LedgerStep == [Next]_vars => [Ledger!Next]_(Ledger!ledgerVars)
BY DEF Next, vars, ledgerVars, Ledger!ledgerVars

LEMMA DashboardStep == [Next]_vars => [Dashboard!Next]_(Dashboard!dashboardVars)
BY DEF Next, vars, dashboardVars, Dashboard!dashboardVars

LEMMA NightStep == [Next]_vars => [Night!Next]_(Night!nightVars)
BY DEF Next, vars, nightVars, Night!nightVars

LEMMA LivenessStep == [Next]_vars => [Liveness!Next]_(Liveness!livenessVars)
BY DEF Next, vars, livenessVars, Liveness!livenessVars

\* Serge gets no more work than agreed, every group is counted and told of its end
\* (serge_dispatch.py), and a dashboard task is locked from its dispatch on
\* (dashboard_triage.py), for any groups, limits, retries and dispatchers.
THEOREM DispatchKeptCorrect == Spec => []DispatchKept
<1>1. /\ Dispatch!SafetySpec => []Dispatch!BoundedLoad
      /\ Dispatch!SafetySpec => []Dispatch!EveryGroupCounted
      /\ Dispatch!SafetySpec => []Dispatch!EndsInformed
    BY DispatchBoundedLoadCorrect, DispatchEveryGroupCountedCorrect, DispatchEndsInformedCorrect,
       DispatchAssumption
<1>2. (part = "dispatch" /\ Spec) => Dispatch!SafetySpec
    <2>1. (part = "dispatch" /\ [Next]_vars) => (part = "dispatch")'
        BY PartKept
    <2> QED
        BY <2>1, SumInit, DispatchStep, PTL DEF Spec, Dispatch!SafetySpec
<1>3. Spec => (part = "dispatch" \/ [](~(part = "dispatch")))
    <2>1. (~(part = "dispatch") /\ [Next]_vars) => (~(part = "dispatch"))'
        BY PartKept
    <2> QED
        BY <2>1, PTL DEF Spec
<1>4. Dashboard!Spec => []Dashboard!Locking
    BY DashboardLockingCorrect
<1>5. Spec => Dashboard!Spec
    BY SumInit, DashboardStep, PTL DEF Spec, Dashboard!Spec
<1>6. (/\ part = "dispatch" =>
              Dispatch!BoundedLoad /\ Dispatch!EveryGroupCounted /\ Dispatch!EndsInformed
       /\ Dashboard!Locking) => DispatchKept
    BY DEF DispatchKept, Dashboard!Locking
<1>7. QED
    BY <1>1, <1>2, <1>3, <1>4, <1>5, <1>6, PTL

\* The pull requests of earlier nights stay with their groups, for any tests,
\* listings and windows that a quiet test does not outlast
\* (integration_failure_triage.py, main).
THEOREM LedgerKeptCorrect == Spec => []LedgerKept
<1>1. /\ Ledger!Spec => []Ledger!CoverageKept
      /\ Ledger!Spec => []Ledger!NeverQuietAndDispatched
      /\ Ledger!Spec => []Ledger!OnePullPerTest
    BY LedgerCoverageKeptCorrect, LedgerNeverQuietAndDispatchedCorrect, LedgerOnePullPerTestCorrect,
       LedgerAssumption
<1>2. Spec => Ledger!Spec
    BY SumInit, LedgerStep, PTL DEF Spec, Ledger!Spec
<1>3. (Ledger!CoverageKept /\ Ledger!NeverQuietAndDispatched /\ Ledger!OnePullPerTest)
          => LedgerKept
    BY DEF LedgerKept
<1>4. QED
    BY <1>1, <1>2, <1>3, PTL

\* One tracking issue is open, and a marker in it has its row, for any runs,
\* groups and days (integration_failure_triage.py, ensure_issue and its callers).
THEOREM IssueKeptCorrect == Spec => []IssueKept
<1>1. /\ Night!Spec => []Night!MarkerExplained
      /\ Night!Spec => []Night!OneIssueOpen
    BY NightMarkerExplainedCorrect, NightOneIssueOpenCorrect, NightAssumption
<1>2. Spec => Night!Spec
    BY SumInit, NightStep, PTL DEF Spec, Night!Spec
<1>3. (Night!MarkerExplained /\ Night!OneIssueOpen) => IssueKept
    BY DEF IssueKept
<1>4. QED
    BY <1>1, <1>2, <1>3, PTL

\* A row that was resolved stays (integration_failure_triage.py, carry_rows), and a
\* test is skipped only on evidence (liveness.py).
THEOREM VerdictsKeptCorrect == Spec => VerdictsKept
<1>1. Night!Spec => Night!ResolvedRowKept
    BY NightResolvedRowKeptCorrect, NightAssumption
<1>2. Liveness!Spec => Liveness!SkippedOnEvidence
    BY LivenessSkippedOnEvidenceCorrect, LivenessAssumption
<1>3. Spec => Night!Spec
    BY SumInit, NightStep, PTL DEF Spec, Night!Spec
<1>4. Spec => Liveness!Spec
    BY SumInit, LivenessStep, PTL DEF Spec, Liveness!Spec
<1>5. QED
    BY <1>1, <1>2, <1>3, <1>4, PTL DEF VerdictsKept

=============================================================================
