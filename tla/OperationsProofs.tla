-------------------------- MODULE OperationsProofs ---------------------------
(* Proofs of properties of MCOperations, for any values of its constants that *)
(* its assumptions allow.                                                     *)
EXTENDS MCOperations, FiniteSetTheorems, WellFoundedInduction, TLAPS

\* A set of numbers has a least, and up to a bound a greatest.
LEMMA Least ==
    ASSUME NEW S \in SUBSET Nat, S # {}
    PROVE  \E m \in S : \A y \in S : m <= y
<1>1. PICK m \in S : \A k \in S : <<k, m>> \notin OpToRel(<, Nat)
    BY NatLessThanWellFounded, WFMin, Zenon
<1>2. \A k \in S : ~(k < m)
    BY <1>1, Zenon DEF OpToRel
<1>3. QED
    BY <1>2

LEMMA Greatest ==
    ASSUME NEW n \in Nat, NEW S \in SUBSET (0 .. n), S # {}
    PROVE  \E m \in S : \A y \in S : m >= y
<1> DEFINE T == {n - x : x \in S}
<1>1. \A x \in S : x \in Nat /\ n - x \in Nat
    OBVIOUS
<1>2. T \in SUBSET Nat /\ T # {} /\ \A y \in S : n - y \in T
    BY <1>1
<1>3. PICK m \in T : \A k \in T : m <= k
    BY <1>2, Least
<1>4. PICK x \in S : m = n - x
    BY <1>3
<1>5. \A y \in S : n - x <= n - y
    BY <1>2, <1>3, <1>4
<1>6. QED
    BY <1>1, <1>5

-----------------------------------------------------------------------------
(* Discovery, for any runs, workflows, overlap, delays and pages             *)

\* A listing starts no later than the mark it is reckoned from, less the overlap.
LEMMA DiscoverySinceBefore ==
    ASSUME Discovery!OverlapSuffices, NEW mark \in Nat
    PROVE  /\ Discovery!Since(mark) \in Int /\ Discovery!Since(mark) <= mark
           /\ Discovery!Since(mark) <= mark - Overlap \/ Discovery!Since(mark) <= 0
<1> DEFINE t == Discovery!Minus(mark, Overlap)
<1>1. Overlap \in Nat /\ Grain \in Nat \ {0}
    BY DEF Discovery!OverlapSuffices
<1>2. t \in Nat /\ t <= mark /\ (t = mark - Overlap \/ t = 0)
    BY <1>1 DEF Discovery!Minus
<1> HIDE DEF t
<1>3. t % Grain \in Nat
    BY <1>1, <1>2
<1>4. Discovery!Since(mark) = t - (t % Grain)
    BY DEF t, Discovery!Since, Discovery!RoundedDown
<1>5. QED
    BY <1>1, <1>2, <1>3, <1>4

\* GitHub, the clock and deliveries: what is missing still is to be found.
LEMMA DiscoveryGitHubSearched ==
    ASSUME Discovery!OverlapSuffices, Discovery!Searched, NEW r \in DiscoveredRuns,
           Discovery!CreateRun(r) \/ Discovery!IndexRun(r) \/ Discovery!Delivery(r)
    PROVE  Discovery!Searched'
<1>1. /\ IndexDelay \in Nat /\ Overlap \in Nat /\ watermark \in Nat /\ discoveryNow \in Nat \ {0}
      /\ since \in Int /\ begun \in Nat
    BY DEF Discovery!OverlapSuffices, Discovery!Searched, Discovery!TypeOK
<1>2. CASE Discovery!CreateRun(r)
    <2>1. created' = [created EXCEPT ![r] = discoveryNow] /\ created \in [DiscoveredRuns -> 0 .. discoveryNow]
        BY <1>2 DEF Discovery!CreateRun, Discovery!Searched, Discovery!TypeOK
    <2>2. Discovery!TypeOK'
        BY <1>2, <2>1 DEF Discovery!CreateRun, Discovery!Searched, Discovery!TypeOK, Discovery!cycleVars
    <2>3. Discovery!Shown'
        BY <1>1, <1>2, <2>1 DEF Discovery!CreateRun, Discovery!Searched, Discovery!TypeOK, Discovery!Shown
    <2>4. Discovery!Since(watermark) <= discoveryNow
        <3>1. Discovery!Since(watermark) \in Int /\ Discovery!Since(watermark) <= watermark /\ watermark <= discoveryNow
            BY <1>1, DiscoverySinceBefore DEF Discovery!Searched, Discovery!TypeOK
        <3> QED
            BY <1>1, <3>1
    <2>5. Discovery!NothingSkipped'
        BY <1>2, <2>1, <2>4
           DEF Discovery!CreateRun, Discovery!Searched, Discovery!NothingSkipped, Discovery!Since, Discovery!RoundedDown, Discovery!Minus
    <2>6. Discovery!Searching'
        BY <1>1, <1>2, <2>1
           DEF Discovery!CreateRun, Discovery!Searched, Discovery!TypeOK, Discovery!Searching, Discovery!Missing, Discovery!cycleVars
    <2> QED
        BY <2>2, <2>3, <2>5, <2>6 DEF Discovery!Searched
<1>3. CASE Discovery!IndexRun(r)
    BY <1>3 DEF Discovery!IndexRun, Discovery!Searched, Discovery!TypeOK, Discovery!Shown, Discovery!Searching, Discovery!Missing,
               Discovery!NothingSkipped, Discovery!cycleVars, Discovery!Since, Discovery!RoundedDown, Discovery!Minus
<1>4. CASE Discovery!Delivery(r)
    BY <1>4 DEF Discovery!Delivery, Discovery!Searched, Discovery!TypeOK, Discovery!Shown, Discovery!Searching, Discovery!Missing,
               Discovery!NothingSkipped, Discovery!cycleVars, Discovery!githubVars, Discovery!Since, Discovery!RoundedDown, Discovery!Minus
<1>5. QED
    BY <1>2, <1>3, <1>4

LEMMA DiscoveryTickSearched ==
    ASSUME Discovery!OverlapSuffices, Discovery!Searched, Discovery!Tick
    PROVE  Discovery!Searched'
<1>1. /\ IndexDelay \in Nat /\ ListingTime \in Nat /\ discoveryNow \in Nat \ {0} /\ begun \in Nat
      /\ discoveryNow' = discoveryNow + 1
      /\ UNCHANGED <<created, indexed, stored, watermark, listing, left, newest, since, begun, lost>>
    BY DEF Discovery!OverlapSuffices, Discovery!Searched, Discovery!TypeOK, Discovery!Tick, Discovery!githubVars, Discovery!cycleVars
<1>2. created \in [DiscoveredRuns -> 0 .. discoveryNow]
    BY DEF Discovery!Searched, Discovery!TypeOK
<1>3. Discovery!TypeOK'
    BY <1>1, <1>2 DEF Discovery!Searched, Discovery!TypeOK
<1>4. Discovery!Shown'
    BY <1>1, <1>2 DEF Discovery!Searched, Discovery!Shown, Discovery!Tick
<1>5. Discovery!Searching'
    BY <1>1 DEF Discovery!Searched, Discovery!Searching, Discovery!Missing, Discovery!Tick
<1>6. Discovery!NothingSkipped'
    BY <1>1 DEF Discovery!Searched, Discovery!NothingSkipped, Discovery!Since, Discovery!RoundedDown, Discovery!Minus
<1>7. QED
    BY <1>3, <1>4, <1>5, <1>6 DEF Discovery!Searched

\* A cycle begins where the watermark is, and on a first start gives up what is older.
LEMMA DiscoveryBeginSearched ==
    ASSUME Discovery!OverlapSuffices, Discovery!Searched, Discovery!BeginDiscovery
    PROVE  Discovery!Searched'
<1> DEFINE mark == IF watermark = Discovery!Never THEN Discovery!Minus(discoveryNow, Lookback) ELSE watermark
<1>1. /\ Lookback \in Nat /\ IndexDelay \in Nat /\ ListingTime \in Nat /\ watermark \in 0 .. discoveryNow
      /\ discoveryNow \in Nat \ {0} /\ created \in [DiscoveredRuns -> 0 .. discoveryNow]
    BY DEF Discovery!OverlapSuffices, Discovery!Searched, Discovery!TypeOK
<1>2. mark \in Nat /\ mark <= discoveryNow
    BY <1>1 DEF Discovery!Minus
<1>3. /\ since' = Discovery!Since(mark) /\ newest' = mark
      /\ lost' = IF watermark = Discovery!Never
                 THEN lost \union {r \in DiscoveredRuns : created[r] # Discovery!Never /\ created[r] < Discovery!Since(mark)}
                 ELSE lost
      /\ listing' = TRUE /\ begun' = discoveryNow /\ left' = Workflows
      /\ UNCHANGED <<discoveryNow, created, indexed, stored, watermark>>
    BY DEF Discovery!BeginDiscovery, Discovery!githubVars
<1>4. Discovery!Since(mark) \in Int /\ Discovery!Since(mark) <= mark
    BY <1>2, DiscoverySinceBefore
<1>5. watermark # Discovery!Never => mark = watermark
    OBVIOUS
<1> HIDE DEF mark
<1>6. Discovery!TypeOK'
    BY <1>1, <1>2, <1>3, <1>4 DEF Discovery!Searched, Discovery!TypeOK
<1>7. Discovery!Shown'
    BY <1>3 DEF Discovery!Searched, Discovery!Shown
<1>8. Discovery!NothingSkipped'
    BY <1>3 DEF Discovery!Searched, Discovery!NothingSkipped, Discovery!Since, Discovery!RoundedDown, Discovery!Minus
<1>9. ASSUME NEW r \in DiscoveredRuns, Discovery!Missing(r)'
      PROVE  created[r] >= since' /\ WorkflowOf[r] \in left'
    <2>1. Discovery!Missing(r)
        BY <1>3, <1>9 DEF Discovery!Missing
    <2>2. WorkflowOf[r] \in Workflows
        BY DEF Discovery!OverlapSuffices
    <2>3. CASE watermark = Discovery!Never
        BY <1>1, <1>3, <1>4, <1>9, <2>1, <2>2, <2>3 DEF Discovery!Missing
    <2>4. CASE watermark # Discovery!Never
        BY <1>3, <1>5, <2>1, <2>2, <2>4 DEF Discovery!Searched, Discovery!NothingSkipped, Discovery!Missing
    <2> QED
        BY <2>3, <2>4
<1>10. Discovery!Searching'
    BY <1>1, <1>2, <1>3, <1>4, <1>9 DEF Discovery!Searching
<1>11. QED
    BY <1>6, <1>7, <1>8, <1>10 DEF Discovery!Searched

\* A listing has what GitHub could show of its workflow, or was cut short of it.
LEMMA DiscoveryListSearched ==
    ASSUME Discovery!OverlapSuffices, Discovery!Searched, NEW w \in Workflows, Discovery!ListWorkflow(w)
    PROVE  Discovery!Searched'
<1> DEFINE seen(page) == {newest} \union {created[r] : r \in page}
<1>1. PICK page \in SUBSET Discovery!Listed(w) :
          /\ stored' = stored \union page
          /\ lost' = lost \union (Discovery!Found(w) \ page)
          /\ newest' = CHOOSE n \in seen(page) : \A m \in seen(page) : n >= m
    BY DEF Discovery!ListWorkflow
<1>2. /\ listing /\ w \in left /\ left' = left \ {w}
      /\ UNCHANGED <<discoveryNow, created, indexed, watermark, listing, since, begun>>
    BY DEF Discovery!ListWorkflow, Discovery!githubVars
<1>3. /\ discoveryNow \in Nat \ {0} /\ created \in [DiscoveredRuns -> 0 .. discoveryNow] /\ newest \in 0 .. discoveryNow
      /\ IndexDelay \in Nat /\ begun \in Nat /\ begun <= discoveryNow
    BY DEF Discovery!OverlapSuffices, Discovery!Searched, Discovery!TypeOK
<1>4. Discovery!Found(w) \subseteq DiscoveredRuns /\ page \subseteq Discovery!Found(w)
    BY DEF Discovery!Found, Discovery!Listed, Discovery!Searched, Discovery!TypeOK
<1>5. newest' \in 0 .. discoveryNow
    <2>1. seen(page) \in SUBSET (0 .. discoveryNow) /\ seen(page) # {}
        BY <1>3, <1>4
    <2>2. \E n \in seen(page) : \A m \in seen(page) : n >= m
        BY <1>3, <2>1, Greatest
    <2> HIDE DEF seen
    <2>3. newest' \in seen(page)
        BY <1>1, <2>2
    <2> QED
        BY <2>1, <2>3
<1>6. Discovery!TypeOK'
    BY <1>1, <1>2, <1>4, <1>5 DEF Discovery!Searched, Discovery!TypeOK
<1>7. Discovery!Shown'
    BY <1>2 DEF Discovery!Searched, Discovery!Shown
<1>8. Discovery!NothingSkipped'
    BY <1>1, <1>2 DEF Discovery!Searched, Discovery!NothingSkipped, Discovery!Since, Discovery!RoundedDown, Discovery!Minus
<1>9. ASSUME NEW r \in DiscoveredRuns, Discovery!Missing(r)', created[r] + IndexDelay < begun
      PROVE  WorkflowOf[r] # w
    <2>1. Discovery!Missing(r) /\ created[r] >= since
        BY <1>1, <1>2, <1>9 DEF Discovery!Missing, Discovery!Searched, Discovery!Searching
    <2>2. r \in indexed
        BY <1>3, <1>9, <2>1 DEF Discovery!Searched, Discovery!Shown, Discovery!Missing
    <2>3. r \notin Discovery!Found(w)
        BY <1>1, <1>9 DEF Discovery!Missing
    <2> QED
        BY <2>1, <2>2, <2>3 DEF Discovery!Found
<1>10. Discovery!Searching'
    BY <1>1, <1>2, <1>9 DEF Discovery!Searched, Discovery!Searching, Discovery!Missing
<1>11. QED
    BY <1>6, <1>7, <1>8, <1>10 DEF Discovery!Searched

\* The watermark is no later than the cycle's end: less the overlap, it is before
\* whatever GitHub did not show when the cycle began.
LEMMA DiscoveryAdvanceSearched ==
    ASSUME Discovery!OverlapSuffices, Discovery!Searched, Discovery!AdvanceWatermark
    PROVE  Discovery!Searched'
<1>1. /\ listing /\ left = {} /\ watermark' = newest /\ listing' = FALSE
      /\ UNCHANGED <<discoveryNow, created, indexed, stored, left, newest, since, begun, lost>>
    BY DEF Discovery!AdvanceWatermark, Discovery!MayAdvance, Discovery!githubVars
<1>2. /\ discoveryNow \in Nat \ {0} /\ created \in [DiscoveredRuns -> 0 .. discoveryNow] /\ newest \in 0 .. discoveryNow
      /\ IndexDelay \in Nat /\ ListingTime \in Nat /\ Overlap \in Nat /\ IndexDelay + ListingTime <= Overlap
      /\ begun \in Nat /\ discoveryNow <= begun + ListingTime
    BY <1>1 DEF Discovery!OverlapSuffices, Discovery!Searched, Discovery!TypeOK, Discovery!Searching
<1>3. Discovery!TypeOK' /\ Discovery!Shown' /\ Discovery!Searching'
    BY <1>1, <1>2 DEF Discovery!Searched, Discovery!TypeOK, Discovery!Shown, Discovery!Searching
<1>4. ASSUME NEW r \in DiscoveredRuns, Discovery!Missing(r)
      PROVE  created[r] >= Discovery!Since(newest)
    <2>1. ~(created[r] + IndexDelay < begun)
        BY <1>1, <1>4 DEF Discovery!Searched, Discovery!Searching
    <2>2. /\ Discovery!Since(newest) \in Int
          /\ Discovery!Since(newest) <= newest - Overlap \/ Discovery!Since(newest) <= 0
        BY <1>2, DiscoverySinceBefore
    <2> QED
        BY <1>2, <2>1, <2>2
<1>5. Discovery!NothingSkipped'
    BY <1>1, <1>4 DEF Discovery!NothingSkipped, Discovery!Missing, Discovery!Since, Discovery!RoundedDown, Discovery!Minus
<1>6. QED
    BY <1>3, <1>5 DEF Discovery!Searched

\* The invariant holds in every state the reconciler can reach.
THEOREM DiscoverySearchedCorrect == ASSUME Discovery!OverlapSuffices PROVE Discovery!Spec => []Discovery!Searched
<1>1. ASSUME Discovery!Init PROVE Discovery!Searched
    <2>1. Discovery!TypeOK
        <3>1. discoveryNow = 1 /\ 0 \in 0 .. discoveryNow
            BY <1>1 DEF Discovery!Init
        <3>2. created \in [DiscoveredRuns -> 0 .. discoveryNow]
            BY <1>1, <3>1 DEF Discovery!Init, Discovery!Never
        <3>3. listing \in BOOLEAN
            BY <1>1, Zenon DEF Discovery!Init
        <3>4. watermark \in 0 .. discoveryNow /\ newest \in 0 .. discoveryNow /\ begun \in 0 .. discoveryNow /\ since \in Int
            BY <1>1, <3>1 DEF Discovery!Init, Discovery!Never
        <3>5. indexed \subseteq DiscoveredRuns /\ stored \subseteq DiscoveredRuns /\ lost \subseteq DiscoveredRuns
              /\ left \subseteq Workflows
            BY <1>1, Zenon DEF Discovery!Init
        <3> QED
            BY <3>1, <3>2, <3>3, <3>4, <3>5 DEF Discovery!TypeOK
    <2>2. Discovery!Shown /\ Discovery!Searching /\ Discovery!NothingSkipped
        BY <1>1 DEF Discovery!Init, Discovery!Shown, Discovery!Searching, Discovery!NothingSkipped
    <2> QED
        BY <2>1, <2>2 DEF Discovery!Searched
<1>2. Discovery!Searched /\ [Discovery!Next]_(Discovery!discoveryVars) => Discovery!Searched'
    <2> SUFFICES ASSUME Discovery!Searched, [Discovery!Next]_(Discovery!discoveryVars) PROVE Discovery!Searched'
        OBVIOUS
    <2>1. CASE UNCHANGED Discovery!discoveryVars
        BY <2>1 DEF Discovery!discoveryVars, Discovery!githubVars, Discovery!cycleVars, Discovery!Searched, Discovery!TypeOK,
                    Discovery!Shown, Discovery!Searching, Discovery!Missing, Discovery!NothingSkipped, Discovery!Since,
                    Discovery!RoundedDown, Discovery!Minus
    <2>2. CASE Discovery!CycleEnds
        BY <2>2 DEF Discovery!CycleEnds, Discovery!githubVars, Discovery!Searched, Discovery!TypeOK,
                    Discovery!Shown, Discovery!Searching, Discovery!Missing, Discovery!NothingSkipped, Discovery!Since,
                    Discovery!RoundedDown, Discovery!Minus
    <2>3. QED
        BY <2>1, <2>2, DiscoveryGitHubSearched, DiscoveryTickSearched, DiscoveryBeginSearched, DiscoveryListSearched,
           DiscoveryAdvanceSearched DEF Discovery!Next
<1>3. QED
    BY <1>1, <1>2, PTL DEF Discovery!Spec

\* Runs of which no delivery came are found: whatever is not on file is listed by
\* every later cycle (_discover).
THEOREM DiscoveryNothingSkippedCorrect ==
    ASSUME Discovery!OverlapSuffices PROVE Discovery!Spec => []Discovery!NothingSkipped
<1>1. Discovery!Searched => Discovery!NothingSkipped
    BY DEF Discovery!Searched
<1>2. QED
    BY <1>1, DiscoverySearchedCorrect, PTL
-----------------------------------------------------------------------------
(* Turns, for any runs, costs and budgets                                    *)

LEMMA TurnsSizes ==
    \A S : Turns!IsFiniteSet(S) = IsFiniteSet(S) /\ Turns!Cardinality(S) = Cardinality(S)
BY Zenon DEF Turns!IsFiniteSet, IsFiniteSet, Turns!Cardinality, Cardinality

\* A queue has every due run, once.
LEMMA TurnsQueueOfAll ==
    ASSUME IsFiniteSet(DueRuns), Turns!TypeOK, NEW q \in Turns!Queues
    PROVE  /\ q \in Seq(DueRuns)
           /\ \A i, j \in DOMAIN q : q[i] = q[j] => i = j
           /\ \A r \in due : \E i \in DOMAIN q : q[i] = r
           /\ \A i \in DOMAIN q : q[i] \in due
<1> DEFINE n == Cardinality(due)
<1>1. IsFiniteSet(due) /\ n \in Nat /\ due \subseteq DueRuns
    BY FS_Subset, FS_CardinalityType DEF Turns!TypeOK
<1>2. q \in [1..n -> due] /\ \A i, j \in DOMAIN q : q[i] = q[j] => i = j
    BY TurnsSizes DEF Turns!Queues
<1>3. IsFiniteSet(1..n) /\ Cardinality(1..n) = n
    BY <1>1, FS_Interval
<1>4. q \in Injection(1..n, due)
    BY <1>2 DEF Injection, IsInjective
<1> HIDE DEF n
<1>5. Cardinality(due) = n
    BY DEF n
<1>6. q \in Surjection(1..n, due)
    BY <1>1, <1>3, <1>4, <1>5, FS_Injection
<1>7. \A r \in due : \E i \in DOMAIN q : q[i] = r
    BY <1>2, <1>6 DEF Surjection
<1>8. q \in Seq(DueRuns)
    BY <1>1, <1>2
<1>9. QED
    BY <1>2, <1>7, <1>8

\* A run becomes due, or is due no more: what was counted for it is forgotten.
LEMMA TurnsChangesTaken ==
    ASSUME Turns!Taken, NEW r \in DueRuns, Turns!Changes(r)
    PROVE  Turns!Taken'
<1>1. /\ overtaken' = [overtaken EXCEPT ![r] = [s \in DueRuns |-> 0]]
      /\ due' = IF r \in due THEN due \ {r} ELSE due \union {r}
      /\ UNCHANGED <<cycle, lastRefreshed, turnsQueue, refreshing>>
    BY DEF Turns!Changes
<1>2. Turns!TypeOK'
    BY <1>1 DEF Turns!Taken, Turns!TypeOK
<1>3. Turns!Waiting'
    BY <1>1 DEF Turns!Taken, Turns!Waiting, Turns!InTurn
<1>4. ASSUME NEW s \in DueRuns, NEW t \in DueRuns, s # t PROVE Turns!InOrder(s, t)'
    <2>1. Turns!InOrder(s, t) /\ overtaken \in [DueRuns -> [DueRuns -> Nat]]
        BY <1>4 DEF Turns!Taken, Turns!TypeOK
    <2>2. overtaken'[s][t] = IF s = r THEN 0 ELSE overtaken[s][t]
        BY <1>1, <2>1
    <2> QED
        BY <1>1, <2>1, <2>2 DEF Turns!InOrder, Turns!Queued
<1>5. QED
    BY <1>2, <1>3, <1>4 DEF Turns!Taken

\* A cycle queues all that is due, and its time is later than any try.
LEMMA TurnsBeginTaken ==
    ASSUME IsFiniteSet(DueRuns), Turns!Taken, Turns!BeginRefresh
    PROVE  Turns!Taken'
<1>1. /\ turnsQueue' \in Turns!Queues /\ Turns!InTurn(turnsQueue')
      /\ cycle' = cycle + 1 /\ refreshing' = TRUE
      /\ UNCHANGED <<due, lastRefreshed, overtaken>>
    BY DEF Turns!BeginRefresh
<1>2. /\ turnsQueue' \in Seq(DueRuns)
      /\ \A i, j \in DOMAIN turnsQueue' : turnsQueue'[i] = turnsQueue'[j] => i = j
      /\ \A r \in due : \E i \in DOMAIN turnsQueue' : turnsQueue'[i] = r
      /\ \A i \in DOMAIN turnsQueue' : turnsQueue'[i] \in due
    BY <1>1, TurnsQueueOfAll DEF Turns!Taken
<1>3. Turns!TypeOK'
    BY <1>1, <1>2 DEF Turns!Taken, Turns!TypeOK
<1>4. \A r \in DueRuns : lastRefreshed'[r] < cycle'
    BY <1>1 DEF Turns!Taken, Turns!TypeOK, Turns!Waiting
<1>5. Turns!InTurn(turnsQueue)'
    BY <1>1 DEF Turns!InTurn
<1>6. Turns!Waiting'
    <2>1. \A i \in DOMAIN turnsQueue' : turnsQueue'[i] \in DueRuns
        BY <1>2
    <2>2. \A r \in DueRuns : lastRefreshed'[r] <= cycle'
        BY <1>3, <1>4 DEF Turns!TypeOK
    <2> QED
        BY <1>1, <1>2, <1>4, <1>5, <2>1, <2>2 DEF Turns!Waiting
<1>7. ASSUME NEW s \in DueRuns, NEW t \in DueRuns, s # t PROVE Turns!InOrder(s, t)'
    <2>1. Turns!InOrder(s, t)
        BY <1>7 DEF Turns!Taken
    <2>2. ~Turns!Queued(s)' => overtaken[s][t] = 0
        BY <1>2, <2>1 DEF Turns!InOrder, Turns!Queued
    <2> QED
        BY <1>1, <2>1, <2>2 DEF Turns!InOrder
<1>8. QED
    BY <1>3, <1>6, <1>7 DEF Turns!Taken

\* Who is tried was not tried in this cycle; who waits behind was not either, and
\* was last tried no earlier.
LEMMA TurnsRefreshTaken ==
    ASSUME Turns!Taken, Turns!RefreshRun
    PROVE  Turns!Taken'
<1>0. turnsQueue # <<>> /\ turnsQueue \in Seq(DueRuns)
    BY DEF Turns!RefreshRun, Turns!Taken, Turns!TypeOK
<1> PICK r \in DueRuns : r = Head(turnsQueue)
    BY <1>0
<1> DEFINE count(s) == IF s = r THEN [t \in DueRuns |-> 0]
                         ELSE IF s \in due THEN [overtaken[s] EXCEPT ![r] = @ + 1] ELSE overtaken[s]
<1>1. /\ turnsQueue # <<>> /\ turnsQueue' = Tail(turnsQueue) /\ refreshing
      /\ lastRefreshed' = [lastRefreshed EXCEPT ![r] = cycle]
      /\ overtaken' = [s \in DueRuns |-> count(s)]
      /\ UNCHANGED <<cycle, due, refreshing>>
    BY DEF Turns!RefreshRun, Turns!Tried
<1>2. /\ cycle \in Nat /\ due \subseteq DueRuns /\ lastRefreshed \in [DueRuns -> Nat] /\ turnsQueue \in Seq(DueRuns)
      /\ overtaken \in [DueRuns -> [DueRuns -> Nat]]
    BY DEF Turns!Taken, Turns!TypeOK
<1>3. /\ r = turnsQueue[1] /\ 1 \in DOMAIN turnsQueue /\ turnsQueue' \in Seq(DueRuns)
      /\ \A i \in DOMAIN turnsQueue' : i + 1 \in DOMAIN turnsQueue /\ i # 0 /\ turnsQueue'[i] = turnsQueue[i + 1]
      /\ \A i \in DOMAIN turnsQueue : i # 1 => i - 1 \in DOMAIN turnsQueue' /\ turnsQueue'[i - 1] = turnsQueue[i]
      /\ DOMAIN turnsQueue' \subseteq Nat /\ DOMAIN turnsQueue \subseteq Nat
    <2>1. Len(turnsQueue) \in Nat \ {0} /\ DOMAIN turnsQueue = 1 .. Len(turnsQueue)
        BY <1>0
    <2>2. turnsQueue' \in Seq(DueRuns) /\ r = turnsQueue[1]
        BY <1>0, <1>1
    <2>3. DOMAIN turnsQueue' = 1 .. Len(turnsQueue) - 1
        BY <1>0, <1>1, <2>1
    <2>4. \A i \in DOMAIN turnsQueue' : turnsQueue'[i] = turnsQueue[i + 1]
        BY <1>0, <1>1, <2>1, <2>3
    <2>5. \A i \in DOMAIN turnsQueue : i # 1 => i - 1 \in DOMAIN turnsQueue' /\ (i - 1) + 1 = i
        BY <2>1, <2>3
    <2>6. \A i \in DOMAIN turnsQueue' : i + 1 \in DOMAIN turnsQueue /\ i # 0
        BY <2>1, <2>3
    <2> QED
        BY <2>1, <2>2, <2>3, <2>4, <2>5, <2>6
<1>4. \A i \in DOMAIN turnsQueue' : turnsQueue'[i] # r /\ lastRefreshed'[turnsQueue'[i]] = lastRefreshed[turnsQueue'[i]]
    <2>1. \A i \in DOMAIN turnsQueue' : turnsQueue'[i] # r
        BY <1>3 DEF Turns!Taken, Turns!Waiting
    <2>2. \A i \in DOMAIN turnsQueue' : turnsQueue'[i] \in DueRuns
        BY <1>3
    <2> QED
        BY <1>1, <1>2, <2>1, <2>2
<1>5. Turns!TypeOK'
    <2>1. ASSUME NEW s \in DueRuns PROVE count(s) \in [DueRuns -> Nat]
        <3>1. overtaken[s] \in [DueRuns -> Nat]
            BY <1>2
        <3>2. [overtaken[s] EXCEPT ![r] = @ + 1] \in [DueRuns -> Nat]
            BY <3>1
        <3> QED
            BY <3>1, <3>2
    <2> QED
        BY <1>1, <1>2, <1>3, <2>1 DEF Turns!Taken, Turns!TypeOK
<1>6. Turns!Waiting'
    <2>1. \A i, j \in DOMAIN turnsQueue' : turnsQueue'[i] = turnsQueue'[j] => i = j
        BY <1>3 DEF Turns!Taken, Turns!Waiting
    <2>2. \A i \in DOMAIN turnsQueue' : lastRefreshed'[turnsQueue'[i]] < cycle
        BY <1>3, <1>4 DEF Turns!Taken, Turns!Waiting
    <2>3. \A s \in DueRuns : lastRefreshed'[s] <= cycle
        BY <1>1, <1>2 DEF Turns!Taken, Turns!Waiting
    <2>4. Turns!InTurn(turnsQueue)'
        <3> SUFFICES ASSUME NEW i \in DOMAIN turnsQueue', NEW j \in DOMAIN turnsQueue', i < j
                     PROVE  lastRefreshed'[turnsQueue'[i]] <= lastRefreshed'[turnsQueue'[j]]
            BY DEF Turns!InTurn
        <3>1. i + 1 < j + 1 /\ i + 1 \in DOMAIN turnsQueue /\ j + 1 \in DOMAIN turnsQueue
            BY <1>3
        <3>2. lastRefreshed[turnsQueue[i + 1]] <= lastRefreshed[turnsQueue[j + 1]]
            BY <3>1 DEF Turns!Taken, Turns!Waiting, Turns!InTurn
        <3> QED
            BY <1>3, <1>4, <3>2
    <2> QED
        BY <1>1, <2>1, <2>2, <2>3, <2>4 DEF Turns!Waiting
<1>7. \A s \in DueRuns \ {r} : Turns!Queued(s) <=> Turns!Queued(s)'
    BY <1>3 DEF Turns!Queued
<1>8. Turns!Queued(r) /\ ~Turns!Queued(r)'
    <2>1. \E i \in DOMAIN turnsQueue : turnsQueue[i] = r
        BY <1>3
    <2>2. ~\E i \in DOMAIN turnsQueue' : turnsQueue'[i] = r
        BY <1>4
    <2> QED
        BY <2>1, <2>2 DEF Turns!Queued
<1>9. ASSUME NEW s \in DueRuns, NEW t \in DueRuns, s # t PROVE Turns!InOrder(s, t)'
    <2>1. Turns!InOrder(s, t) /\ overtaken[s][t] \in Nat /\ lastRefreshed[s] \in Nat /\ lastRefreshed[s] <= cycle
        BY <1>2, <1>9 DEF Turns!Taken, Turns!Waiting
    <2>2. overtaken'[s][t] = count(s)[t]
        BY <1>1
    <2>3. CASE s = r
        BY <1>1, <2>2, <2>3 DEF Turns!InOrder
    <2>4. CASE s # r /\ t # r
        <3>1. overtaken'[s][t] = overtaken[s][t] /\ lastRefreshed'[s] = lastRefreshed[s] /\ lastRefreshed'[t] = lastRefreshed[t]
            BY <1>1, <1>2, <2>2, <2>4
        <3> QED
            BY <1>1, <1>7, <2>1, <2>4, <3>1 DEF Turns!InOrder
    <2>5. CASE s # r /\ t = r /\ s \notin due
        <3>1. overtaken'[s][t] = 0
            BY <2>1, <2>2, <2>5 DEF Turns!InOrder
        <3> QED
            BY <3>1 DEF Turns!InOrder
    <2>6. CASE s # r /\ t = r /\ s \in due
        <3>1. overtaken'[s][t] = overtaken[s][t] + 1 /\ lastRefreshed'[s] = lastRefreshed[s] /\ lastRefreshed'[t] = cycle
            BY <1>1, <1>2, <2>2, <2>6
        <3>2. ASSUME overtaken[s][t] # 0
              PROVE  lastRefreshed[s] < cycle /\ lastRefreshed[t] <= lastRefreshed[s]
            <4>1. PICK i \in DOMAIN turnsQueue : turnsQueue[i] = s
                BY <1>8, <2>1, <2>6, <3>2 DEF Turns!InOrder, Turns!Queued
            <4>2. i # 1 /\ 1 < i
                BY <1>3, <2>6, <4>1
            <4>3. lastRefreshed[turnsQueue[1]] <= lastRefreshed[turnsQueue[i]]
                BY <1>3, <4>2 DEF Turns!Taken, Turns!Waiting, Turns!InTurn
            <4> QED
                BY <1>3, <2>6, <4>1, <4>3 DEF Turns!Taken, Turns!Waiting
        <3>3. overtaken[s][t] # 2
            <4> SUFFICES ASSUME overtaken[s][t] = 2 PROVE FALSE
                OBVIOUS
            <4>1. lastRefreshed[t] > lastRefreshed[s] /\ lastRefreshed[t] <= lastRefreshed[s]
                BY <2>1, <3>2 DEF Turns!InOrder
            <4> QED
                BY <1>2, <4>1
        <3>4. overtaken[s][t] \in {0, 1}
            BY <2>1, <3>3 DEF Turns!InOrder
        <3>5. overtaken'[s][t] <= 2 /\ overtaken'[s][t] # 0
            BY <3>1, <3>4
        <3>6. overtaken'[s][t] = 1 => lastRefreshed'[t] >= lastRefreshed'[s]
            BY <2>1, <3>1, <1>2
        <3>7. overtaken'[s][t] = 2 => lastRefreshed'[t] > lastRefreshed'[s]
            BY <3>1, <3>2, <3>4
        <3> QED
            BY <1>1, <1>8, <2>6, <3>5, <3>6, <3>7 DEF Turns!InOrder
    <2> QED
        BY <2>3, <2>4, <2>5, <2>6
<1>10. QED
    BY <1>5, <1>6, <1>9 DEF Turns!Taken

\* A cycle that ends, by itself or not, leaves nothing queued.
LEMMA TurnsEndTaken ==
    ASSUME Turns!Taken, turnsQueue' = <<>>, refreshing' = FALSE, UNCHANGED <<cycle, due, lastRefreshed, overtaken>>
    PROVE  Turns!Taken'
<1>1. Turns!TypeOK'
    <2>1. turnsQueue' \in Seq(DueRuns)
        OBVIOUS
    <2>2. refreshing' \in BOOLEAN
        BY Zenon
    <2> QED
        BY <2>1, <2>2 DEF Turns!Taken, Turns!TypeOK
<1>2. Turns!Waiting'
    BY DEF Turns!Taken, Turns!Waiting, Turns!InTurn
<1>3. ASSUME NEW s \in DueRuns, NEW t \in DueRuns, s # t PROVE Turns!InOrder(s, t)'
    BY <1>3 DEF Turns!Taken, Turns!InOrder, Turns!Queued
<1>4. QED
    BY <1>1, <1>2, <1>3 DEF Turns!Taken

LEMMA TurnsPausedTaken ==
    ASSUME Turns!Taken, ~refreshing, cycle' = cycle + 1, UNCHANGED <<due, lastRefreshed, turnsQueue, refreshing, overtaken>>
    PROVE  Turns!Taken'
<1>1. Turns!TypeOK'
    BY DEF Turns!Taken, Turns!TypeOK
<1>2. turnsQueue' = <<>> /\ \A r \in DueRuns : lastRefreshed'[r] <= cycle'
    BY DEF Turns!Taken, Turns!TypeOK, Turns!Waiting
<1>3. Turns!Waiting'
    BY <1>2 DEF Turns!Waiting, Turns!InTurn
<1>4. ASSUME NEW s \in DueRuns, NEW t \in DueRuns, s # t PROVE Turns!InOrder(s, t)'
    BY <1>4 DEF Turns!Taken, Turns!InOrder, Turns!Queued
<1>5. QED
    BY <1>1, <1>3, <1>4 DEF Turns!Taken

\* The invariant holds in every state the reconciler can reach.
THEOREM TurnsTakenCorrect == ASSUME IsFiniteSet(DueRuns) PROVE Turns!Spec => []Turns!Taken
<1>1. ASSUME Turns!Init PROVE Turns!Taken
    <2>1. /\ cycle = 0 /\ due = {} /\ turnsQueue = <<>> /\ refreshing = FALSE
          /\ lastRefreshed = [r \in DueRuns |-> 0] /\ overtaken = [r \in DueRuns |-> [s \in DueRuns |-> 0]]
        BY <1>1 DEF Turns!Init
    <2>2. refreshing \in BOOLEAN
        BY <2>1, Zenon
    <2>3. Turns!TypeOK
        BY <2>1, <2>2 DEF Turns!TypeOK
    <2>4. Turns!Waiting
        BY <2>1 DEF Turns!Waiting, Turns!InTurn
    <2>5. \A s, r \in DueRuns : Turns!InOrder(s, r)
        BY <2>1 DEF Turns!InOrder
    <2> QED
        BY <2>3, <2>4, <2>5 DEF Turns!Taken
<1>2. Turns!Taken /\ [Turns!Next]_(Turns!turnsVars) => Turns!Taken'
    <2> SUFFICES ASSUME Turns!Taken, [Turns!Next]_(Turns!turnsVars) PROVE Turns!Taken'
        OBVIOUS
    <2>1. CASE UNCHANGED Turns!turnsVars
        BY <2>1 DEF Turns!turnsVars, Turns!Taken, Turns!TypeOK, Turns!Waiting, Turns!InTurn, Turns!InOrder, Turns!Queued
    <2>2. CASE Turns!PausedCycle
        BY <2>2, TurnsPausedTaken DEF Turns!PausedCycle
    <2>3. CASE Turns!BudgetSpent \/ Turns!Throttle \/ Turns!RefreshEnds
        BY <2>3, TurnsEndTaken DEF Turns!BudgetSpent, Turns!Throttle, Turns!RefreshEnds
    <2> QED
        BY <2>1, <2>2, <2>3, TurnsChangesTaken, TurnsBeginTaken, TurnsRefreshTaken DEF Turns!Next
<1>3. QED
    BY <1>1, <1>2, PTL DEF Turns!Spec

\* No run is tried three times while another that is due waits, however cycles are
\* cut short and refreshes end (run_once, _refresh).
THEOREM TurnsTakeTurnsCorrect == ASSUME IsFiniteSet(DueRuns) PROVE Turns!Spec => []Turns!TakeTurns
<1>1. Turns!Taken => Turns!TakeTurns
    BY DEF Turns!Taken, Turns!InOrder, Turns!TakeTurns
<1>2. QED
    BY <1>1, TurnsTakenCorrect, PTL

-----------------------------------------------------------------------------
(* Retention, for any times that rows are kept, events redelivered and runs due *)

\* What a merge writes of a row: when a completed one finished stays.
LEMMA RetentionMerged ==
    ASSUME Retention!TypeOK, NEW row \in Retention!Row, NEW status \in {"active", "completed"},
           NEW at \in 0 .. clock
    PROVE  LET merged == Retention!Merged(row, status, at) IN
           /\ merged \in Retention!Row /\ merged.touched = clock /\ merged.status \in {"active", "completed"}
           /\ merged.status = "completed" <=> row.status = "completed" \/ status = "completed"
           /\ merged.finished = IF row.status = "completed" THEN row.finished
                                ELSE IF status = "completed" THEN at ELSE Retention!Never
<1>1. clock \in Nat /\ clock \in 0 .. clock /\ Retention!Never \in 0 .. clock
    BY DEF Retention!TypeOK, Retention!Never
<1>2. row.finished \in 0 .. clock
    BY DEF Retention!Row
<1>3. QED
    BY <1>1, <1>2 DEF Retention!Merged, Retention!Row, Retention!Statuses

\* What a step at one time keeps of the invariant, whatever rows it merges.
LEMMA RetentionRowsLater ==
    ASSUME NEW row \in Retention!Row, clock \in Nat, clock' = clock + 1
    PROVE  row \in Retention!Row'
BY DEF Retention!Row, Retention!Statuses

LEMMA RetentionHappenRemembered ==
    ASSUME Retention!KeptLongEnough, Retention!Remembered, NEW e \in Retention!Events, Retention!Happen(e)
    PROVE  Retention!Remembered'
<1>1. /\ happened[e] = Retention!Never /\ \A d \in Retention!Events : Retention!Order[d] < Retention!Order[e] => happened[d] # Retention!Never
      /\ happened' = [happened EXCEPT ![e] = clock]
      /\ UNCHANGED <<clock, run, job, ids, forgotten, unread>>
    BY DEF Retention!Happen
<1>2. clock \in Nat \ {0} /\ happened \in [Retention!Events -> 0 .. clock] /\ unread \in Nat /\ Redelivery \in Nat
    BY DEF Retention!Remembered, Retention!TypeOK, Retention!KeptLongEnough
<1>3. Retention!Row' = Retention!Row
    BY <1>1 DEF Retention!Row
<1>4. Retention!TypeOK'
    BY <1>1, <1>2, <1>3 DEF Retention!Remembered, Retention!TypeOK
<1>5. Retention!Ordered'
    BY <1>1, <1>2 DEF Retention!Remembered, Retention!Ordered, Retention!Never, Retention!Events, Retention!Order
<1>6. Retention!RunTrue' /\ Retention!ForgottenLate'
    BY <1>1, <1>2 DEF Retention!Remembered, Retention!RunTrue, Retention!ForgottenLate, Retention!Never, Retention!Events
<1>7. Retention!Unfinished'
    <2>1. happened'["job_completed"] = happened["job_completed"] \/ happened'["job_completed"] = clock
        BY <1>1, <1>2 DEF Retention!Events
    <2> QED
        BY <1>1, <1>2, <2>1 DEF Retention!Remembered, Retention!Unfinished
<1>8. QED
    BY <1>4, <1>5, <1>6, <1>7 DEF Retention!Remembered

\* What is forgotten was over so long ago that nothing of it is delivered any more.
LEMMA RetentionDeliverRemembered ==
    ASSUME Retention!KeptLongEnough, Retention!Remembered, NEW e \in Retention!Events, Retention!Deliver(e)
    PROVE  Retention!Remembered'
<1> DEFINE status == IF e = "run_completed" THEN "completed" ELSE "active"
<1>1. /\ happened[e] # Retention!Never /\ clock <= happened[e] + Redelivery
      /\ ids' = [ids EXCEPT ![e] = clock]
      /\ run' = Retention!Merged(run, status, happened[e])
      /\ job' = CASE e = "job_started" -> Retention!Merged(job, "active", Retention!Never)
                  [] e = "job_completed" -> Retention!Merged(job, "completed", happened[e])
                  [] OTHER -> job
      /\ UNCHANGED <<clock, happened, forgotten, unread>>
    BY DEF Retention!Deliver
<1>2. /\ clock \in Nat \ {0} /\ happened \in [Retention!Events -> 0 .. clock] /\ unread \in Nat
      /\ run \in Retention!Row /\ job \in Retention!Row /\ ids \in [Retention!Events -> 0 .. clock]
      /\ Redelivery \in Nat /\ Horizon \in Nat /\ RetentionTime \in Nat /\ Redelivery + Horizon <= RetentionTime
      /\ Retention!TypeOK
    BY DEF Retention!Remembered, Retention!TypeOK, Retention!KeptLongEnough
<1>3. Retention!Row' = Retention!Row /\ Retention!Never \in 0 .. clock /\ happened[e] \in 0 .. clock
    BY <1>1, <1>2 DEF Retention!Row, Retention!Never
<1>4. /\ run' \in Retention!Row /\ run'.touched = clock /\ run'.status \in {"active", "completed"}
      /\ run'.status = "completed" <=> run.status = "completed" \/ e = "run_completed"
      /\ run'.finished = IF run.status = "completed" THEN run.finished
                         ELSE IF e = "run_completed" THEN happened[e] ELSE Retention!Never
    <2>0. run.finished \in 0 .. clock /\ Retention!Never \in 0 .. clock /\ clock \in 0 .. clock
        BY <1>2 DEF Retention!Row, Retention!Never
    <2>1. CASE run.status = "completed"
        <3>1. run' = [status |-> "completed", finished |-> run.finished, touched |-> clock]
            BY <1>1, <2>1 DEF Retention!Merged
        <3> QED
            BY <2>0, <2>1, <3>1 DEF Retention!Row, Retention!Statuses
    <2>2. CASE run.status # "completed" /\ e = "run_completed"
        <3>1. run' = [status |-> "completed", finished |-> happened[e], touched |-> clock]
            BY <1>1, <2>2 DEF Retention!Merged
        <3> QED
            BY <1>3, <2>0, <2>2, <3>1 DEF Retention!Row, Retention!Statuses
    <2>3. CASE run.status # "completed" /\ ~(e = "run_completed")
        <3>1. run' = [status |-> "active", finished |-> Retention!Never, touched |-> clock]
            BY <1>1, <2>3 DEF Retention!Merged
        <3> QED
            BY <2>0, <2>3, <3>1 DEF Retention!Row, Retention!Statuses
    <2> QED
        BY <2>1, <2>2, <2>3
<1>5. /\ job' \in Retention!Row
      /\ job'.status = "active" => job.status = "active" \/ e = "job_started"
    <2>1. CASE e = "job_started"
        BY <1>1, <1>2, <1>3, <2>1, RetentionMerged
    <2>2. CASE e = "job_completed"
        BY <1>1, <1>2, <1>3, <2>2, RetentionMerged
    <2>3. CASE e \notin {"job_started", "job_completed"}
        BY <1>1, <1>2, <2>3
    <2> QED
        BY <2>1, <2>2, <2>3
<1>6. Retention!TypeOK'
    BY <1>1, <1>2, <1>3, <1>4, <1>5 DEF Retention!Remembered, Retention!TypeOK
<1>7. Retention!Ordered'
    BY <1>1 DEF Retention!Remembered, Retention!Ordered
<1>8. Retention!RunTrue'
    BY <1>1, <1>4 DEF Retention!Remembered, Retention!RunTrue
<1>9. ~forgotten
    <2> SUFFICES ASSUME forgotten PROVE FALSE
        OBVIOUS
    <2>1. happened["run_completed"] # Retention!Never /\ happened["run_completed"] + RetentionTime < clock
        BY DEF Retention!Remembered, Retention!ForgottenLate
    <2>2. happened[e] <= happened["run_completed"]
        BY <1>2, <2>1 DEF Retention!Remembered, Retention!Ordered, Retention!Events, Retention!Order
    <2>3. happened["run_completed"] \in Nat /\ happened[e] \in Nat
        BY <1>2 DEF Retention!Events
    <2> QED
        BY <1>1, <1>2, <2>1, <2>2, <2>3
<1>10. Retention!ForgottenLate'
    BY <1>1, <1>9 DEF Retention!ForgottenLate
<1>11. Retention!Unfinished'
    <2> SUFFICES ASSUME job'.status = "active", unread <= Horizon
                 PROVE  /\ run'.status # "none" /\ clock <= unread + run'.touched
                        /\ happened["job_completed"] # Retention!Never =>
                              clock <= unread + happened["job_completed"] + Redelivery
        BY <1>1 DEF Retention!Unfinished
    <2>1. happened["job_completed"] \in Nat /\ happened["job_started"] \in Nat
        BY <1>2 DEF Retention!Events
    <2>2. happened["job_completed"] # Retention!Never => happened["job_started"] <= happened["job_completed"]
        BY <1>2 DEF Retention!Remembered, Retention!Ordered, Retention!Events, Retention!Order
    <2>3. CASE job.status = "active"
        BY <1>2, <1>4, <2>1, <2>3 DEF Retention!Remembered, Retention!Unfinished
    <2>4. CASE e = "job_started"
        BY <1>1, <1>2, <1>4, <2>1, <2>2, <2>4
    <2> QED
        BY <1>5, <2>3, <2>4
<1>12. QED
    BY <1>6, <1>7, <1>8, <1>10, <1>11 DEF Retention!Remembered

\* A reading finds the run, and its job, as they are.
LEMMA RetentionReconcileRemembered ==
    ASSUME Retention!KeptLongEnough, Retention!Remembered, Retention!Reconcile
    PROVE  Retention!Remembered'
<1> DEFINE over == happened["run_completed"] # Retention!Never
           done == happened["job_completed"] # Retention!Never
<1>1. /\ run.status # "none"
      /\ run' = Retention!Merged(run, IF over THEN "completed" ELSE "active", happened["run_completed"])
      /\ job' = IF happened["job_started"] = Retention!Never THEN job
                ELSE Retention!Merged(job, IF done THEN "completed" ELSE "active", happened["job_completed"])
      /\ unread' = 0
      /\ UNCHANGED <<clock, happened, ids, forgotten>>
    BY DEF Retention!Reconcile, Retention!Due
<1>2. /\ clock \in Nat \ {0} /\ happened \in [Retention!Events -> 0 .. clock]
      /\ run \in Retention!Row /\ job \in Retention!Row /\ Retention!TypeOK
    BY DEF Retention!Remembered, Retention!TypeOK
<1>3. /\ happened["run_completed"] \in 0 .. clock /\ happened["job_completed"] \in 0 .. clock
      /\ happened["job_started"] \in 0 .. clock
    BY <1>2 DEF Retention!Events
<1>4. /\ run' \in Retention!Row /\ run'.touched = clock /\ run'.status \in {"active", "completed"}
      /\ run'.status = "completed" <=> run.status = "completed" \/ over
      /\ run'.finished = IF run.status = "completed" THEN run.finished
                         ELSE IF over THEN happened["run_completed"] ELSE Retention!Never
    <2>0. run.finished \in 0 .. clock /\ Retention!Never \in 0 .. clock /\ clock \in 0 .. clock
        BY <1>2 DEF Retention!Row, Retention!Never
    <2>1. CASE run.status = "completed"
        <3>1. run' = [status |-> "completed", finished |-> run.finished, touched |-> clock]
            BY <1>1, <2>1 DEF Retention!Merged
        <3> QED
            BY <2>0, <2>1, <3>1 DEF Retention!Row, Retention!Statuses
    <2>2. CASE run.status # "completed" /\ over
        <3>1. run' = [status |-> "completed", finished |-> happened["run_completed"], touched |-> clock]
            BY <1>1, <2>2 DEF Retention!Merged
        <3> QED
            BY <1>3, <2>0, <2>2, <3>1 DEF Retention!Row, Retention!Statuses
    <2>3. CASE run.status # "completed" /\ ~(over)
        <3>1. run' = [status |-> "active", finished |-> Retention!Never, touched |-> clock]
            BY <1>1, <2>3 DEF Retention!Merged
        <3> QED
            BY <2>0, <2>3, <3>1 DEF Retention!Row, Retention!Statuses
    <2> QED
        BY <2>1, <2>2, <2>3
<1>5. job' \in Retention!Row /\ (job'.status = "active" => ~done)
    <2>1. CASE happened["job_started"] = Retention!Never
        <3>1. ~done
            BY <2>1 DEF Retention!Remembered, Retention!Ordered, Retention!Events, Retention!Order
        <3> QED
            BY <1>1, <1>2, <2>1, <3>1
    <2>2. CASE happened["job_started"] # Retention!Never
        BY <1>1, <1>2, <1>3, <2>2, RetentionMerged
    <2> QED
        BY <2>1, <2>2
<1>6. Retention!TypeOK'
    BY <1>1, <1>2, <1>4, <1>5 DEF Retention!Remembered, Retention!TypeOK, Retention!Row
<1>7. Retention!Ordered'
    BY <1>1 DEF Retention!Remembered, Retention!Ordered
<1>8. Retention!RunTrue'
    BY <1>1, <1>4 DEF Retention!Remembered, Retention!RunTrue
<1>9. Retention!ForgottenLate'
    BY <1>1, <1>4 DEF Retention!Remembered, Retention!ForgottenLate
<1>10. Retention!Unfinished'
    BY <1>1, <1>2, <1>4, <1>5 DEF Retention!Unfinished
<1>11. QED
    BY <1>6, <1>7, <1>8, <1>9, <1>10 DEF Retention!Remembered

LEMMA RetentionDiscoverRemembered ==
    ASSUME Retention!KeptLongEnough, Retention!Remembered, Retention!Discover
    PROVE  Retention!Remembered'
<1> DEFINE over == happened["run_completed"] # Retention!Never
<1>1. /\ run' = Retention!Merged(run, IF over THEN "completed" ELSE "active", happened["run_completed"])
      /\ UNCHANGED <<clock, happened, job, ids, forgotten, unread>>
    BY DEF Retention!Discover
<1>2. /\ clock \in Nat \ {0} /\ happened \in [Retention!Events -> 0 .. clock] /\ unread \in Nat
      /\ run \in Retention!Row /\ job \in Retention!Row /\ Retention!TypeOK
    BY DEF Retention!Remembered, Retention!TypeOK
<1>3. happened["run_completed"] \in 0 .. clock
    BY <1>2 DEF Retention!Events
<1>4. /\ run' \in Retention!Row /\ run'.touched = clock /\ run'.status \in {"active", "completed"}
      /\ run'.status = "completed" <=> run.status = "completed" \/ over
      /\ run'.finished = IF run.status = "completed" THEN run.finished
                         ELSE IF over THEN happened["run_completed"] ELSE Retention!Never
    <2>0. run.finished \in 0 .. clock /\ Retention!Never \in 0 .. clock /\ clock \in 0 .. clock
        BY <1>2 DEF Retention!Row, Retention!Never
    <2>1. CASE run.status = "completed"
        <3>1. run' = [status |-> "completed", finished |-> run.finished, touched |-> clock]
            BY <1>1, <2>1 DEF Retention!Merged
        <3> QED
            BY <2>0, <2>1, <3>1 DEF Retention!Row, Retention!Statuses
    <2>2. CASE run.status # "completed" /\ over
        <3>1. run' = [status |-> "completed", finished |-> happened["run_completed"], touched |-> clock]
            BY <1>1, <2>2 DEF Retention!Merged
        <3> QED
            BY <1>3, <2>0, <2>2, <3>1 DEF Retention!Row, Retention!Statuses
    <2>3. CASE run.status # "completed" /\ ~(over)
        <3>1. run' = [status |-> "active", finished |-> Retention!Never, touched |-> clock]
            BY <1>1, <2>3 DEF Retention!Merged
        <3> QED
            BY <2>0, <2>3, <3>1 DEF Retention!Row, Retention!Statuses
    <2> QED
        BY <2>1, <2>2, <2>3
<1>5. Retention!TypeOK'
    BY <1>1, <1>2, <1>4 DEF Retention!Remembered, Retention!TypeOK, Retention!Row
<1>6. Retention!Ordered'
    BY <1>1 DEF Retention!Remembered, Retention!Ordered
<1>7. Retention!RunTrue'
    BY <1>1, <1>4 DEF Retention!Remembered, Retention!RunTrue
<1>8. Retention!ForgottenLate'
    BY <1>1, <1>4 DEF Retention!Remembered, Retention!ForgottenLate
<1>9. Retention!Unfinished'
    BY <1>1, <1>2, <1>4 DEF Retention!Remembered, Retention!Unfinished
<1>10. QED
    BY <1>5, <1>6, <1>7, <1>8, <1>9 DEF Retention!Remembered

\* A run that goes has left its job, if that is still active, unread for a whole horizon.
LEMMA RetentionPruneRemembered ==
    ASSUME Retention!KeptLongEnough, Retention!Remembered, Retention!Prune
    PROVE  Retention!Remembered'
<1>1. /\ run' = IF Retention!Expired(run.finished) THEN Retention!NoRow ELSE run
      /\ job' = IF Retention!Expired(job.finished) THEN Retention!NoRow ELSE job
      /\ ids' = [e \in Retention!Events |-> IF Retention!Expired(ids[e]) THEN Retention!Never ELSE ids[e]]
      /\ forgotten' = (forgotten \/ Retention!Expired(run.finished))
      /\ UNCHANGED <<clock, happened, unread>>
    BY DEF Retention!Prune
<1>2. /\ clock \in Nat \ {0} /\ happened \in [Retention!Events -> 0 .. clock] /\ unread \in Nat
      /\ run \in Retention!Row /\ job \in Retention!Row /\ ids \in [Retention!Events -> 0 .. clock]
      /\ Redelivery \in Nat /\ Horizon \in Nat /\ RetentionTime \in Nat /\ Redelivery + Horizon <= RetentionTime
    BY DEF Retention!Remembered, Retention!TypeOK, Retention!KeptLongEnough
<1>3. Retention!NoRow \in Retention!Row /\ Retention!Never \in 0 .. clock
    BY <1>2 DEF Retention!NoRow, Retention!Row, Retention!Statuses, Retention!Never
<1>4. Retention!TypeOK'
    <2>1. run' \in Retention!Row /\ job' \in Retention!Row /\ Retention!Row' = Retention!Row
        BY <1>1, <1>2, <1>3 DEF Retention!Row
    <2>2. ids' \in [Retention!Events -> 0 .. clock]
        BY <1>1, <1>2, <1>3
    <2>3. forgotten' \in BOOLEAN
        BY <1>1, Zenon DEF Retention!Remembered, Retention!TypeOK
    <2> QED
        BY <1>1, <2>1, <2>2, <2>3 DEF Retention!Remembered, Retention!TypeOK
<1>5. Retention!Ordered'
    BY <1>1 DEF Retention!Remembered, Retention!Ordered
<1>6. Retention!NoRow.status = "none" /\ Retention!NoRow.finished = Retention!Never
    BY DEF Retention!NoRow
<1>7. Retention!RunTrue'
    BY <1>1, <1>6 DEF Retention!Remembered, Retention!RunTrue
<1>8. ASSUME Retention!Expired(run.finished)
      PROVE  /\ happened["run_completed"] # Retention!Never
             /\ happened["run_completed"] + RetentionTime < clock
    BY <1>8 DEF Retention!Expired, Retention!Remembered, Retention!RunTrue
<1>9. Retention!ForgottenLate'
    BY <1>1, <1>6, <1>8 DEF Retention!Remembered, Retention!ForgottenLate
<1>10. Retention!Unfinished'
    <2> SUFFICES ASSUME job'.status = "active", unread <= Horizon PROVE Retention!Unfinished'
        BY <1>1 DEF Retention!Unfinished
    <2>1. job' = job
        BY <1>1, <1>6
    <2>2. ~Retention!Expired(run.finished)
        <3> SUFFICES ASSUME Retention!Expired(run.finished) PROVE FALSE
            OBVIOUS
        <3>1. /\ happened["job_completed"] # Retention!Never
              /\ happened["job_completed"] <= happened["run_completed"]
            BY <1>8 DEF Retention!Remembered, Retention!Ordered, Retention!Events, Retention!Order
        <3>2. clock <= unread + happened["job_completed"] + Redelivery
            BY <2>1, <3>1 DEF Retention!Remembered, Retention!Unfinished
        <3>3. happened["run_completed"] \in Nat /\ happened["job_completed"] \in Nat
            BY <1>2 DEF Retention!Events
        <3> QED
            BY <1>2, <1>8, <3>1, <3>2, <3>3
    <2> QED
        BY <1>1, <2>1, <2>2 DEF Retention!Remembered, Retention!Unfinished
<1>11. QED
    BY <1>4, <1>5, <1>7, <1>9, <1>10 DEF Retention!Remembered

\* While an active job's run is due, every tick it is not read counts.
LEMMA RetentionTickRemembered ==
    ASSUME Retention!KeptLongEnough, Retention!Remembered, Retention!Tick
    PROVE  Retention!Remembered'
<1>1. /\ clock' = clock + 1
      /\ unread' = IF Retention!Due /\ unread <= Horizon THEN unread + 1 ELSE unread
      /\ UNCHANGED <<happened, run, job, ids, forgotten>>
    BY DEF Retention!Tick
<1>2. /\ clock \in Nat \ {0} /\ happened \in [Retention!Events -> 0 .. clock] /\ unread \in Nat
      /\ run \in Retention!Row /\ job \in Retention!Row /\ ids \in [Retention!Events -> 0 .. clock]
      /\ Redelivery \in Nat /\ Horizon \in Nat /\ RetentionTime \in Nat
    BY DEF Retention!Remembered, Retention!TypeOK, Retention!KeptLongEnough
<1>3. Retention!TypeOK'
    <2>1. run' \in Retention!Row' /\ job' \in Retention!Row'
        BY <1>1, <1>2, RetentionRowsLater
    <2>2. happened' \in [Retention!Events -> 0 .. clock'] /\ ids' \in [Retention!Events -> 0 .. clock']
        BY <1>1, <1>2
    <2>3. unread' \in Nat /\ clock' \in Nat \ {0}
        BY <1>1, <1>2
    <2> QED
        BY <1>1, <2>1, <2>2, <2>3 DEF Retention!Remembered, Retention!TypeOK
<1>4. Retention!Ordered' /\ Retention!RunTrue'
    BY <1>1 DEF Retention!Remembered, Retention!Ordered, Retention!RunTrue
<1>5. Retention!ForgottenLate'
    <2>1. happened["run_completed"] \in Nat
        BY <1>2 DEF Retention!Events
    <2> QED
        BY <1>1, <1>2, <2>1 DEF Retention!Remembered, Retention!ForgottenLate
<1>6. Retention!Unfinished'
    <2> SUFFICES ASSUME job.status = "active", unread' <= Horizon PROVE Retention!Unfinished'
        BY <1>1 DEF Retention!Unfinished
    <2>1. unread <= Horizon
        BY <1>1, <1>2
    <2>2. /\ run.status # "none" /\ clock <= unread + run.touched
          /\ happened["job_completed"] # Retention!Never => clock <= unread + happened["job_completed"] + Redelivery
        BY <2>1 DEF Retention!Remembered, Retention!Unfinished
    <2>3. run.touched \in Nat /\ happened["job_completed"] \in Nat
        BY <1>2 DEF Retention!Row, Retention!Events
    <2>4. Retention!Due
        BY <1>2, <2>1, <2>2, <2>3 DEF Retention!Due
    <2>5. unread' = unread + 1
        BY <1>1, <2>1, <2>4
    <2> QED
        BY <1>1, <1>2, <2>2, <2>3, <2>5 DEF Retention!Unfinished
<1>7. QED
    BY <1>3, <1>4, <1>5, <1>6 DEF Retention!Remembered

\* The invariant holds in every state the store can reach.
THEOREM RetentionRememberedCorrect == ASSUME Retention!KeptLongEnough PROVE Retention!Spec => []Retention!Remembered
<1>1. ASSUME Retention!Init PROVE Retention!Remembered
    <2>1. /\ clock = 1 /\ happened = [e \in Retention!Events |-> Retention!Never]
          /\ run = Retention!NoRow /\ job = Retention!NoRow /\ ids = [e \in Retention!Events |-> Retention!Never]
          /\ forgotten = FALSE /\ unread = 0
        BY <1>1 DEF Retention!Init
    <2>2. forgotten \in BOOLEAN /\ ~forgotten
        BY <2>1, Zenon
    <2>3. Retention!Never \in 0 .. clock /\ clock \in Nat \ {0}
        BY <2>1 DEF Retention!Never
    <2>4. Retention!NoRow \in Retention!Row /\ Retention!NoRow.status = "none" /\ Retention!NoRow.finished = Retention!Never
        BY <2>3 DEF Retention!NoRow, Retention!Row, Retention!Statuses
    <2>5. Retention!TypeOK
        BY <2>1, <2>2, <2>3, <2>4 DEF Retention!TypeOK
    <2>6. Retention!Ordered
        BY <2>1 DEF Retention!Ordered
    <2>7. Retention!RunTrue /\ Retention!ForgottenLate /\ Retention!Unfinished
        BY <2>1, <2>2, <2>4 DEF Retention!RunTrue, Retention!ForgottenLate, Retention!Unfinished
    <2> QED
        BY <2>5, <2>6, <2>7 DEF Retention!Remembered
<1>2. Retention!Remembered /\ [Retention!Next]_(Retention!retentionVars) => Retention!Remembered'
    <2> SUFFICES ASSUME Retention!Remembered, [Retention!Next]_(Retention!retentionVars) PROVE Retention!Remembered'
        OBVIOUS
    <2>1. CASE UNCHANGED Retention!retentionVars
        BY <2>1 DEF Retention!retentionVars, Retention!Remembered, Retention!TypeOK, Retention!Row, Retention!Ordered,
                    Retention!RunTrue, Retention!ForgottenLate, Retention!Unfinished
    <2> QED
        BY <2>1, RetentionHappenRemembered, RetentionDeliverRemembered, RetentionReconcileRemembered,
           RetentionDiscoverRemembered, RetentionPruneRemembered, RetentionTickRemembered DEF Retention!Next
<1>3. QED
    BY <1>1, <1>2, PTL DEF Retention!Spec

\* A run that was over and forgotten is never active again, and its job only if the
\* run was not read for a whole horizon (prune, apply_delivery, runs_needing_reconcile).
THEOREM RetentionForgottenForGoodCorrect ==
    ASSUME Retention!KeptLongEnough PROVE Retention!Spec => []Retention!ForgottenForGood
<1>1. ASSUME Retention!Remembered PROVE Retention!ForgottenForGood
    <2> SUFFICES ASSUME forgotten, job.status = "active", ~(unread > Horizon) PROVE FALSE
        BY <1>1 DEF Retention!ForgottenForGood, Retention!Remembered, Retention!ForgottenLate
    <2>1. /\ clock \in Nat /\ happened \in [Retention!Events -> 0 .. clock] /\ unread \in Nat
          /\ Redelivery \in Nat /\ Horizon \in Nat /\ RetentionTime \in Nat /\ Redelivery + Horizon <= RetentionTime
        BY <1>1 DEF Retention!Remembered, Retention!TypeOK, Retention!KeptLongEnough
    <2>2. happened["run_completed"] # Retention!Never /\ happened["run_completed"] + RetentionTime < clock
        BY <1>1 DEF Retention!Remembered, Retention!ForgottenLate
    <2>3. /\ happened["job_completed"] # Retention!Never
          /\ happened["job_completed"] <= happened["run_completed"]
        BY <1>1, <2>2 DEF Retention!Remembered, Retention!Ordered, Retention!Events, Retention!Order
    <2>4. clock <= unread + happened["job_completed"] + Redelivery
        BY <1>1, <2>1, <2>3 DEF Retention!Remembered, Retention!Unfinished
    <2>5. happened["run_completed"] \in Nat /\ happened["job_completed"] \in Nat
        BY <2>1 DEF Retention!Events
    <2> QED
        BY <2>1, <2>2, <2>3, <2>4, <2>5
<1>2. QED
    BY <1>1, RetentionRememberedCorrect, PTL
-----------------------------------------------------------------------------
(* Scrapes, for any number of them and of changes                            *)

LEMMA ScrapeSizes ==
    \A S : Scrape!IsFiniteSet(S) = IsFiniteSet(S) /\ Scrape!Cardinality(S) = Cardinality(S)
BY Zenon DEF Scrape!IsFiniteSet, IsFiniteSet, Scrape!Cardinality, Cardinality

\* A step of one scrape that leaves the loop alone and starts no render.
LEMMA ScrapeNoRender ==
    ASSUME Scrape!Rendered, NEW s \in Scrapes, NEW at \in Scrape!Stages \ {"rendering"},
           NEW shows \in 0 .. changes, Scrape!To(s, at, shows),
           UNCHANGED <<changes, worker, rendering, loop, early>>,
           body' \in 0 .. changes, fresh' \in BOOLEAN, requested' \in BOOLEAN,
           early \/ /\ loop # Scrape!NoBody => loop >= body'
                    /\ \A t \in Scrape!RequestThreads \ {s} : scrape[t].shows >= body'
    PROVE  Scrape!Rendered'
<1>1. scrape \in [Scrapes -> [at : Scrape!Stages, shows : 0 .. changes]]
    BY DEF Scrape!Rendered, Scrape!TypeOK
<1>2. scrape' = [scrape EXCEPT ![s] = [at |-> at, shows |-> shows]]
    BY DEF Scrape!To
<1>3. Scrape!TypeOK'
    BY <1>1, <1>2 DEF Scrape!Rendered, Scrape!TypeOK
<1>4. \A t \in Scrapes : scrape'[t] = IF t = s THEN [at |-> at, shows |-> shows] ELSE scrape[t]
    BY <1>1, <1>2
<1>5. Scrape!RequestThreads' = Scrape!RequestThreads \ {s}
    BY <1>4 DEF Scrape!RequestThreads
<1>6. Scrape!Alone'
    BY <1>5 DEF Scrape!Rendered, Scrape!Alone
<1>7. Scrape!Newer'
    BY <1>4, <1>5 DEF Scrape!Newer, Scrape!RequestThreads
<1>8. QED
    BY <1>3, <1>6, <1>7 DEF Scrape!Rendered

LEMMA ScrapeOfScrapeRendered ==
    ASSUME Scrape!Rendered, NEW s \in Scrapes, Scrape!OfScrape(s)
    PROVE  Scrape!Rendered'
<1>1. /\ scrape \in [Scrapes -> [at : Scrape!Stages, shows : 0 .. changes]]
      /\ changes \in Nat \ {0} /\ body \in 0 .. changes /\ loop \in 0 .. changes
      /\ fresh \in BOOLEAN /\ worker \in BOOLEAN /\ requested \in BOOLEAN
      /\ rendering \in BOOLEAN /\ early \in BOOLEAN
    BY DEF Scrape!Rendered, Scrape!TypeOK
<1>2. scrape[s].shows \in 0 .. changes /\ Scrape!NoBody \in 0 .. changes
    BY <1>1 DEF Scrape!NoBody
<1>3. {"served", "waiting", "new"} \in SUBSET (Scrape!Stages \ {"rendering"})
    BY DEF Scrape!Stages
<1>4. early \/ /\ loop # Scrape!NoBody => loop >= body
               /\ \A t \in Scrape!RequestThreads \ {s} : scrape[t].shows >= body
    BY DEF Scrape!Rendered, Scrape!Newer
<1>5. CASE Scrape!ServeFresh(s)
    <2>1. Scrape!To(s, "served", body) /\ UNCHANGED <<changes, body, fresh, worker, requested, rendering, loop, early>>
        BY <1>5 DEF Scrape!ServeFresh
    <2> QED
        BY <1>1, <1>3, <1>4, <2>1, ScrapeNoRender
<1>6. CASE Scrape!RenderOnRequest(s)
    <2>1. /\ ~worker /\ Scrape!RequestThreads = {}
          /\ scrape' = [scrape EXCEPT ![s] = [at |-> "rendering", shows |-> changes]]
          /\ UNCHANGED <<changes, body, fresh, worker, requested, rendering, loop, early>>
        BY <1>6 DEF Scrape!RenderOnRequest, Scrape!OnRequest, Scrape!To
    <2>2. Scrape!TypeOK'
        BY <1>1, <2>1 DEF Scrape!TypeOK, Scrape!Stages
    <2>3. \A t \in Scrapes : scrape'[t] = IF t = s THEN [at |-> "rendering", shows |-> changes] ELSE scrape[t]
        BY <1>1, <2>1
    <2>4. Scrape!RequestThreads' = {s}
        BY <2>1, <2>3 DEF Scrape!RequestThreads
    <2>5. Scrape!Alone'
        BY <2>1, <2>4 DEF Scrape!Rendered, Scrape!Alone
    <2>6. scrape'[s].shows >= body'
        BY <1>1, <2>1, <2>3
    <2>7. Scrape!Newer'
        BY <2>1, <2>4, <2>6 DEF Scrape!Rendered, Scrape!Newer
    <2> QED
        BY <2>2, <2>5, <2>7 DEF Scrape!Rendered
<1>7. CASE Scrape!RequestRendered(s)
    <2>1. /\ s \in Scrape!RequestThreads
          /\ body' = scrape[s].shows /\ fresh' = TRUE /\ Scrape!To(s, "served", scrape[s].shows)
          /\ UNCHANGED <<changes, worker, requested, rendering, loop, early>>
        BY <1>7 DEF Scrape!RequestRendered, Scrape!RequestThreads
    <2>2. \A t \in Scrape!RequestThreads : t = s
        BY <2>1 DEF Scrape!Rendered, Scrape!Alone
    <2>3. early \/ loop = Scrape!NoBody
        BY <2>1 DEF Scrape!Rendered, Scrape!Alone
    <2>4. fresh' \in BOOLEAN
        BY <2>1, Zenon
    <2> QED
        BY <1>1, <1>2, <1>3, <2>1, <2>2, <2>3, <2>4, ScrapeNoRender
<1>8. CASE Scrape!RequestFails(s)
    <2>1. /\ Scrape!To(s, "served", Scrape!NoBody)
          /\ UNCHANGED <<changes, body, fresh, worker, requested, rendering, loop, early>>
        BY <1>8 DEF Scrape!RequestFails
    <2> QED
        BY <1>1, <1>2, <1>3, <1>4, <2>1, ScrapeNoRender
<1>9. CASE Scrape!Ask(s)
    <2>1. /\ requested' = (requested \/ ~rendering) /\ Scrape!To(s, "waiting", Scrape!NoBody)
          /\ UNCHANGED <<changes, body, fresh, worker, rendering, loop, early>>
        BY <1>9 DEF Scrape!Ask, Scrape!MustAsk
    <2>2. requested' \in BOOLEAN
        BY <2>1, Zenon
    <2> QED
        BY <1>1, <1>2, <1>3, <1>4, <2>1, <2>2, ScrapeNoRender
<1>10. CASE Scrape!Wake(s) \/ Scrape!WaitEnds(s)
    <2>1. Scrape!To(s, "served", body) /\ UNCHANGED <<changes, body, fresh, worker, requested, rendering, loop, early>>
        BY <1>10 DEF Scrape!Wake, Scrape!WaitEnds
    <2> QED
        BY <1>1, <1>3, <1>4, <2>1, ScrapeNoRender
<1>11. CASE Scrape!Leave(s)
    <2>1. /\ Scrape!To(s, "new", Scrape!NoBody)
          /\ UNCHANGED <<changes, body, fresh, worker, requested, rendering, loop, early>>
        BY <1>11 DEF Scrape!Leave
    <2> QED
        BY <1>1, <1>2, <1>3, <1>4, <2>1, ScrapeNoRender
<1>12. QED
    BY <1>5, <1>6, <1>7, <1>8, <1>9, <1>10, <1>11 DEF Scrape!OfScrape

\* A loop that publishes or fails wakes who waits, and starts no request's render.
LEMMA ScrapeNotified ==
    ASSUME Scrape!Rendered, Scrape!Notify, UNCHANGED changes
    PROVE  /\ scrape' \in [Scrapes -> [at : Scrape!Stages, shows : 0 .. changes]]
           /\ Scrape!RequestThreads' = Scrape!RequestThreads
           /\ \A s \in Scrapes : scrape'[s].shows = scrape[s].shows
<1>1. scrape \in [Scrapes -> [at : Scrape!Stages, shows : 0 .. changes]]
    BY DEF Scrape!Rendered, Scrape!TypeOK
<1>2. \A s \in Scrapes : [scrape[s] EXCEPT !.at = "woken"] = [at |-> "woken", shows |-> scrape[s].shows]
    BY <1>1
<1>3. scrape' = [s \in Scrapes |-> IF scrape[s].at = "waiting"
                                   THEN [at |-> "woken", shows |-> scrape[s].shows] ELSE scrape[s]]
    BY <1>2 DEF Scrape!Notify
<1>4. QED
    BY <1>1, <1>3 DEF Scrape!RequestThreads, Scrape!Stages

LEMMA ScrapeLoopRendered ==
    ASSUME Scrape!Rendered,
           Scrape!LoopStarts \/ Scrape!LoopTakes \/ Scrape!LoopPublishes \/ Scrape!LoopFails
    PROVE  Scrape!Rendered'
<1>1. /\ changes \in Nat \ {0} /\ body \in 0 .. changes /\ loop \in 0 .. changes
      /\ fresh \in BOOLEAN /\ worker \in BOOLEAN /\ requested \in BOOLEAN
      /\ rendering \in BOOLEAN /\ early \in BOOLEAN
      /\ Scrape!NoBody \in 0 .. changes
    BY DEF Scrape!Rendered, Scrape!TypeOK, Scrape!NoBody
<1>2. TRUE \in BOOLEAN /\ FALSE \in BOOLEAN
    BY Zenon
<1>3. CASE Scrape!LoopStarts
    <2>1. /\ ~worker /\ worker' = TRUE /\ early' = (Scrape!RequestThreads # {})
          /\ UNCHANGED <<changes, body, fresh, requested, rendering, loop, scrape>>
        BY <1>3 DEF Scrape!LoopStarts
    <2>2. worker' \in BOOLEAN /\ early' \in BOOLEAN
        BY <2>1, Zenon
    <2>3. Scrape!TypeOK'
        BY <2>1, <2>2 DEF Scrape!Rendered, Scrape!TypeOK
    <2>4. Scrape!RequestThreads' = Scrape!RequestThreads
        BY <2>1 DEF Scrape!RequestThreads
    <2>5. Scrape!Alone'
        BY <2>1, <2>4 DEF Scrape!Rendered, Scrape!Alone
    <2>6. Scrape!Newer'
        BY <2>1, <2>4 DEF Scrape!Rendered, Scrape!Alone, Scrape!Newer
    <2> QED
        BY <2>3, <2>5, <2>6 DEF Scrape!Rendered
<1>4. CASE Scrape!LoopTakes
    <2>1. /\ worker /\ requested' = FALSE /\ rendering' = TRUE /\ loop' = changes
          /\ UNCHANGED <<changes, body, fresh, worker, scrape, early>>
        BY <1>4 DEF Scrape!LoopTakes
    <2>2. requested' \in BOOLEAN /\ rendering' \in BOOLEAN
        BY <1>2, <2>1, Zenon
    <2>3. Scrape!TypeOK'
        BY <1>1, <2>1, <2>2 DEF Scrape!Rendered, Scrape!TypeOK
    <2>4. Scrape!RequestThreads' = Scrape!RequestThreads
        BY <2>1 DEF Scrape!RequestThreads
    <2>5. Scrape!Alone' /\ Scrape!Newer'
        BY <1>1, <2>1, <2>4 DEF Scrape!Rendered, Scrape!Alone, Scrape!Newer
    <2> QED
        BY <2>3, <2>5 DEF Scrape!Rendered
<1>5. CASE Scrape!LoopPublishes
    <2>1. /\ loop # Scrape!NoBody /\ body' = loop /\ fresh' = TRUE /\ rendering' = FALSE
          /\ loop' = Scrape!NoBody /\ Scrape!Notify
          /\ UNCHANGED <<changes, worker, requested, early>>
        BY <1>5 DEF Scrape!LoopPublishes
    <2>2. fresh' \in BOOLEAN /\ rendering' \in BOOLEAN
        BY <1>2, <2>1, Zenon
    <2>3. Scrape!TypeOK'
        BY <1>1, <2>1, <2>2, ScrapeNotified DEF Scrape!TypeOK
    <2>4. Scrape!RequestThreads' = Scrape!RequestThreads
        BY <2>1, ScrapeNotified
    <2>5. early \/ Scrape!RequestThreads = {}
        BY <2>1 DEF Scrape!Rendered, Scrape!Alone
    <2>6. Scrape!Alone' /\ Scrape!Newer'
        BY <2>1, <2>4, <2>5 DEF Scrape!Rendered, Scrape!Alone, Scrape!Newer
    <2> QED
        BY <2>3, <2>6 DEF Scrape!Rendered
<1>6. CASE Scrape!LoopFails
    <2>1. /\ rendering' = FALSE /\ loop' = Scrape!NoBody /\ Scrape!Notify
          /\ UNCHANGED <<changes, body, fresh, worker, requested, early>>
        BY <1>6 DEF Scrape!LoopFails, Scrape!RenderingAfterFailure
    <2>2. rendering' \in BOOLEAN
        BY <1>2, <2>1, Zenon
    <2>3. Scrape!TypeOK'
        BY <1>1, <2>1, <2>2, ScrapeNotified DEF Scrape!TypeOK
    <2>4. /\ Scrape!RequestThreads' = Scrape!RequestThreads
          /\ \A s \in Scrape!RequestThreads : scrape'[s].shows = scrape[s].shows
        BY <2>1, ScrapeNotified DEF Scrape!RequestThreads
    <2>5. Scrape!Alone' /\ Scrape!Newer'
        BY <2>1, <2>4 DEF Scrape!Rendered, Scrape!Alone, Scrape!Newer
    <2> QED
        BY <2>3, <2>5 DEF Scrape!Rendered
<1>7. QED
    BY <1>3, <1>4, <1>5, <1>6

LEMMA ScrapeNextRendered ==
    ASSUME Scrape!Rendered, [Scrape!Next]_(Scrape!scrapesVars)
    PROVE  Scrape!Rendered'
<1>1. CASE Scrape!StoreChanges
    <2>1. /\ changes' = changes + 1
          /\ UNCHANGED <<body, fresh, worker, requested, rendering, loop, scrape, early>>
        BY <1>1 DEF Scrape!StoreChanges
    <2>2. changes' \in Nat \ {0} /\ 0 .. changes \in SUBSET (0 .. changes')
        BY <2>1 DEF Scrape!Rendered, Scrape!TypeOK
    <2>3. scrape' \in [Scrapes -> [at : Scrape!Stages, shows : 0 .. changes']]
        BY <2>1, <2>2 DEF Scrape!Rendered, Scrape!TypeOK
    <2>4. Scrape!TypeOK'
        BY <2>1, <2>2, <2>3 DEF Scrape!Rendered, Scrape!TypeOK
    <2> QED
        BY <2>1, <2>4 DEF Scrape!Rendered, Scrape!Alone, Scrape!Newer, Scrape!RequestThreads
<1>2. CASE Scrape!BodyAges
    <2>1. fresh' = FALSE /\ UNCHANGED <<changes, body, worker, requested, rendering, loop, scrape, early>>
        BY <1>2 DEF Scrape!BodyAges
    <2>2. fresh' \in BOOLEAN
        BY <2>1, Zenon
    <2> QED
        BY <2>1, <2>2 DEF Scrape!Rendered, Scrape!TypeOK, Scrape!Alone, Scrape!Newer, Scrape!RequestThreads
<1>3. CASE UNCHANGED Scrape!scrapesVars
    BY <1>3 DEF Scrape!scrapesVars, Scrape!Rendered, Scrape!TypeOK, Scrape!Alone, Scrape!Newer,
                Scrape!RequestThreads
<1>4. QED
    BY <1>1, <1>2, <1>3, ScrapeOfScrapeRendered, ScrapeLoopRendered DEF Scrape!Next

\* Requests and the loop render in turn, and nothing older than what is served
\* (server.py, handle_metrics and render_loop).
THEOREM ScrapeRenderedCorrect == Scrape!SafetySpec => []Scrape!Rendered
<1>1. ASSUME Scrape!Init PROVE Scrape!Rendered
    <2>1. /\ changes = 1 /\ body = Scrape!NoBody /\ fresh = FALSE /\ worker = FALSE /\ requested = FALSE
          /\ rendering = FALSE /\ loop = Scrape!NoBody /\ early = FALSE
          /\ scrape = [s \in Scrapes |-> [at |-> "new", shows |-> Scrape!NoBody]]
        BY <1>1 DEF Scrape!Init
    <2>2. /\ fresh \in BOOLEAN /\ worker \in BOOLEAN /\ requested \in BOOLEAN
          /\ rendering \in BOOLEAN /\ early \in BOOLEAN
        BY <2>1, Zenon
    <2>3. Scrape!RequestThreads = {}
        BY <2>1 DEF Scrape!RequestThreads
    <2>4. Scrape!TypeOK
        BY <2>1, <2>2 DEF Scrape!TypeOK, Scrape!NoBody, Scrape!Stages
    <2> QED
        BY <2>1, <2>3, <2>4 DEF Scrape!Rendered, Scrape!Alone, Scrape!Newer
<1>2. QED
    BY <1>1, ScrapeNextRendered, PTL DEF Scrape!SafetySpec

\* At most one request renders, and then the loop does not.
LEMMA ScrapeOneRender ==
    ASSUME Scrape!Rendered', Scrape!RequestThreads' = {} \/ loop' = Scrape!NoBody
    PROVE  Scrape!Renders' <= 1
<1>1. CASE Scrape!RequestThreads' = {}
    BY <1>1, FS_EmptySet, ScrapeSizes DEF Scrape!Renders
<1>2. CASE Scrape!RequestThreads' # {} /\ loop' = Scrape!NoBody
    <2>1. PICK s : s \in Scrape!RequestThreads'
        BY <1>2
    <2>2. \A t \in Scrape!RequestThreads' : t = s
        BY <2>1 DEF Scrape!Rendered, Scrape!Alone
    <2>3. Scrape!RequestThreads' = {s}
        BY <2>1, <2>2
    <2>4. Scrape!Cardinality({s}) = 1
        BY FS_Singleton, ScrapeSizes
    <2>5. Scrape!Cardinality(Scrape!RequestThreads') = 1
        BY <2>3, <2>4
    <2> QED
        BY <1>2, <2>5 DEF Scrape!Renders
<1>3. QED
    BY <1>1, <1>2

\* One render at a time, each body no older than the one it replaces; unless a
\* scrape rendered as the loop started (server.py, handle_metrics, render_loop).
THEOREM ScrapeOneRenderInOrderCorrect == Scrape!SafetySpec => Scrape!OneRenderInOrder
<1>1. ASSUME Scrape!Rendered, Scrape!Rendered', [Scrape!Next]_(Scrape!scrapesVars), ~early,
             ~(UNCHANGED Scrape!scrapesVars)
      PROVE  Scrape!Renders' <= 1 /\ body' >= body
    <2>1. body \in Nat /\ changes \in Nat
        BY <1>1 DEF Scrape!Rendered, Scrape!TypeOK
    <2>2. body' >= body
        <3>1. CASE \E s \in Scrapes : Scrape!RequestRendered(s)
            <4>1. PICK s \in Scrapes : scrape[s].at = "rendering" /\ body' = scrape[s].shows
                BY <3>1 DEF Scrape!RequestRendered
            <4> QED
                BY <1>1, <4>1 DEF Scrape!Rendered, Scrape!Newer, Scrape!RequestThreads
        <3>2. CASE Scrape!LoopPublishes
            BY <1>1, <3>2 DEF Scrape!Rendered, Scrape!Newer, Scrape!LoopPublishes
        <3>3. CASE ~(\E s \in Scrapes : Scrape!RequestRendered(s)) /\ ~Scrape!LoopPublishes
            <4>1. body' = body
                BY <1>1, <3>3
                   DEF Scrape!Next, Scrape!OfScrape, Scrape!StoreChanges, Scrape!BodyAges, Scrape!ServeFresh,
                       Scrape!RenderOnRequest, Scrape!RequestFails, Scrape!Ask, Scrape!Wake, Scrape!WaitEnds,
                       Scrape!Leave, Scrape!LoopStarts, Scrape!LoopTakes, Scrape!LoopFails
            <4> QED
                BY <2>1, <4>1
        <3> QED
            BY <3>1, <3>2, <3>3
    <2>3. Scrape!RequestThreads' = {} \/ loop' = Scrape!NoBody
        <3>1. CASE early'
            <4>1. UNCHANGED <<worker, loop>> \/ (~worker /\ UNCHANGED loop)
                BY <1>1, <3>1
                   DEF Scrape!Next, Scrape!OfScrape, Scrape!StoreChanges, Scrape!BodyAges, Scrape!ServeFresh,
                       Scrape!RenderOnRequest, Scrape!RequestRendered, Scrape!RequestFails, Scrape!Ask,
                       Scrape!Wake, Scrape!WaitEnds, Scrape!Leave, Scrape!LoopStarts, Scrape!LoopTakes,
                       Scrape!LoopPublishes, Scrape!LoopFails
            <4>2. ~worker /\ UNCHANGED loop
                BY <1>1, <3>1, <4>1
                   DEF Scrape!Next, Scrape!OfScrape, Scrape!StoreChanges, Scrape!BodyAges, Scrape!ServeFresh,
                       Scrape!RenderOnRequest, Scrape!RequestRendered, Scrape!RequestFails, Scrape!Ask,
                       Scrape!Wake, Scrape!WaitEnds, Scrape!Leave, Scrape!LoopStarts, Scrape!LoopTakes,
                       Scrape!LoopPublishes, Scrape!LoopFails
            <4> QED
                BY <1>1, <4>2 DEF Scrape!Rendered, Scrape!Alone
        <3>2. CASE ~early'
            BY <1>1, <3>2 DEF Scrape!Rendered, Scrape!Alone
        <3> QED
            BY <3>1, <3>2
    <2>4. Scrape!Renders' <= 1
        BY <1>1, <2>3, ScrapeOneRender
    <2> QED
        BY <2>2, <2>4
<1>2. (Scrape!Rendered /\ Scrape!Rendered' /\ [Scrape!Next]_(Scrape!scrapesVars))
          => [early \/ (Scrape!Renders' <= 1 /\ body' >= body)]_(Scrape!scrapesVars)
    BY <1>1
<1>3. QED
    BY <1>2, ScrapeRenderedCorrect, PTL DEF Scrape!SafetySpec, Scrape!OneRenderInOrder
-----------------------------------------------------------------------------
(* The deployment, for any workloads, what they consume and how they reload *)

\* A process that starts has read everything there is, its template included.
LEMMA DeployStarted ==
    ASSUME Deployment!ChartAssumption, NEW w \in Deployment!Names,
           NEW cfg \in [Deployment!Things -> Nat], NEW template \in Nat
    PROVE  /\ Deployment!Started(w, cfg, template) \in [Deployment!Labels -> Nat]
           /\ Deployment!Started(w, cfg, template).template = template
           /\ \A t \in Consumes[w] \intersect Deployment!Things : Deployment!Started(w, cfg, template)[t] = cfg[t]
BY DEF Deployment!Started, Deployment!ChartAssumption, Deployment!Labels

\* A release is of all configs and templates, and is not taken for none.
LEMMA DeployReleased ==
    ASSUME Deployment!ChartAssumption
    PROVE  \A r \in [Configs \union Deployment!Names -> Nat] : r # <<>>
<1>1. PICK w : w \in Deployment!Names
    BY DEF Deployment!ChartAssumption
<1>2. DOMAIN <<>> = {}
    OBVIOUS
<1>3. QED
    BY <1>1, <1>2

\* What a start of some workloads leaves in each process.
LEMMA DeployStarts ==
    ASSUME Deployment!ChartAssumption, Deployment!TypeOK, Deployment!TypeOK',
           NEW ws, NEW template \in [Configs \union Deployment!Names -> Nat], Deployment!Starts(ws, template)
    PROVE  \A w \in Deployment!Names :
              /\ w \in ws => /\ running'[w].template = template[w]
                             /\ \A t \in Consumes[w] \intersect Deployment!Things : running'[w][t] = cluster'[t]
                             /\ startedAfter'[w] = Secrets
              /\ w \notin ws => running'[w] = running[w] /\ startedAfter'[w] = startedAfter[w]
<1>1. TAKE w \in Deployment!Names
<1>2. template[w] \in Nat /\ cluster' \in [Deployment!Things -> Nat]
    BY DEF Deployment!TypeOK
<1>3. QED
    BY <1>2, DeployStarted DEF Deployment!Starts

\* A start keeps what is running of its types.
LEMMA DeployStartsTyped ==
    ASSUME Deployment!ChartAssumption, Deployment!TypeOK, cluster' \in [Deployment!Things -> Nat],
           NEW ws, NEW template \in [Configs \union Deployment!Names -> Nat], Deployment!Starts(ws, template)
    PROVE  /\ running' \in [Deployment!Names -> [Deployment!Labels -> Nat]]
           /\ startedAfter' \in [Deployment!Names -> SUBSET Secrets]
<1>1. ASSUME NEW w \in Deployment!Names
      PROVE  Deployment!Started(w, cluster', template[w]) \in [Deployment!Labels -> Nat]
    <2>1. template[w] \in Nat
        OBVIOUS
    <2> QED
        BY <2>1, DeployStarted
<1>2. running' \in [Deployment!Names -> [Deployment!Labels -> Nat]]
    BY <1>1 DEF Deployment!Starts, Deployment!TypeOK
<1>3. startedAfter' \in [Deployment!Names -> SUBSET Secrets]
    BY DEF Deployment!Starts, Deployment!TypeOK
<1>4. QED
    BY <1>2, <1>3

\* What helm leaves in the cluster has its types.
LEMMA DeployInstalledTyped ==
    ASSUME Deployment!ChartAssumption, Deployment!TypeOK
    PROVE  Deployment!Applied \in [Deployment!Things -> Nat]
BY DEF Deployment!Applied, Deployment!TypeOK, Deployment!Things

\* Every step keeps the types.
LEMMA DeployTyped ==
    ASSUME Deployment!ChartAssumption, Deployment!Settled, Deployment!Next
    PROVE  Deployment!TypeOK'
<1>1. Deployment!TypeOK /\ (release = <<>> => broken = {} /\ deployPhase \notin {"converging", "verifying"})
    BY DEF Deployment!Settled
<1> USE DEF Deployment!TypeOK
<1>2. CASE Deployment!Edit
    <2>1. CASE \E t \in Configs \union Deployment!Names : chart' = [chart EXCEPT ![t] = @ + 1]
        BY <1>1, <1>2, <2>1 DEF Deployment!Edit
    <2>2. CASE \E w \in Deployment!Names : chart[w] > 1 /\ chart' = [chart EXCEPT ![w] = @ - 1]
        <3>1. PICK w \in Deployment!Names : chart[w] > 1 /\ chart' = [chart EXCEPT ![w] = @ - 1]
            BY <2>2
        <3>2. chart[w] - 1 \in Nat
            BY <1>1, <3>1
        <3>3. chart' \in [Configs \union Deployment!Names -> Nat]
            BY <1>1, <3>1, <3>2
        <3> QED
            BY <1>1, <1>2, <3>3 DEF Deployment!Edit
    <2> QED
        BY <1>2, <2>1, <2>2 DEF Deployment!Edit
<1>3. CASE Deployment!Rotate
    BY <1>1, <1>3 DEF Deployment!Rotate, Deployment!Things
<1>4. ASSUME NEW w \in Deployment!Names, Deployment!KubeletSyncs(w)
      PROVE  Deployment!TypeOK'
    BY <1>1, <1>4 DEF Deployment!KubeletSyncs
<1>5. ASSUME NEW w \in Deployment!Names, Deployment!Heals(w)
      PROVE  Deployment!TypeOK'
    <2>1. release \in [Configs \union Deployment!Names -> Nat] /\ cluster' \in [Deployment!Things -> Nat]
        BY <1>1, <1>5 DEF Deployment!Heals
    <2>2. Deployment!Starts({w}, release)
        BY <1>5 DEF Deployment!Heals
    <2> QED
        BY <1>1, <1>5, <2>1, <2>2, DeployStartsTyped DEF Deployment!Heals
<1>6. CASE Deployment!BeginDeploy
    BY <1>1, <1>6 DEF Deployment!BeginDeploy
<1>7. CASE Deployment!Refuse
    BY <1>1, <1>7 DEF Deployment!Refuse
<1>8. CASE Deployment!HelmUpgrade
    <2>1. Deployment!Starts(Deployment!Rolls, chart) /\ cluster' = Deployment!Applied
        BY <1>8 DEF Deployment!HelmUpgrade
    <2> QED
        BY <1>1, <1>8, <2>1, DeployStartsTyped, DeployInstalledTyped DEF Deployment!HelmUpgrade
<1>9. CASE Deployment!HelmUpgradeFails
    <2>1. PICK up : Deployment!Starts(up, chart)
        BY <1>9 DEF Deployment!HelmUpgradeFails
    <2>2. cluster' = Deployment!Applied
        BY <1>9 DEF Deployment!HelmUpgradeFails
    <2> QED
        BY <1>1, <1>9, <2>1, <2>2, DeployStartsTyped, DeployInstalledTyped DEF Deployment!HelmUpgradeFails
<1>10. CASE Deployment!SkipRestart
    BY <1>1, <1>10 DEF Deployment!SkipRestart
<1>11. CASE Deployment!Reload
    <2>1. ASSUME NEW w \in Deployment!Names
          PROVE  [t \in DOMAIN running[w] |-> IF t \in Deployment!ConfigsOf(w) THEN cluster[t] ELSE running[w][t]]
                    \in [Deployment!Labels -> Nat]
        BY <1>1 DEF Deployment!ConfigsOf, Deployment!Things
    <2>2. running' \in [Deployment!Names -> [Deployment!Labels -> Nat]]
        BY <1>1, <1>11, <2>1 DEF Deployment!Reload
    <2> QED
        BY <1>1, <1>11, <2>2 DEF Deployment!Reload
<1>12. CASE Deployment!Restart
    <2>1. release \in [Configs \union Deployment!Names -> Nat] /\ cluster' \in [Deployment!Things -> Nat]
        BY <1>1, <1>12 DEF Deployment!Restart, Deployment!Converging
    <2>2. Deployment!Starts({Deployment!Next1}, release)
        BY <1>12 DEF Deployment!Restart
    <2> QED
        BY <1>1, <1>12, <2>1, <2>2, DeployStartsTyped DEF Deployment!Restart
<1>13. CASE Deployment!RestartFails
    BY <1>1, <1>13 DEF Deployment!RestartFails
<1>14. CASE Deployment!Converged
    BY <1>1, <1>14 DEF Deployment!Converged
<1>15. CASE Deployment!Verify
    BY <1>1, <1>15 DEF Deployment!Verify
<1>16. QED
    BY <1>2, <1>3, <1>4, <1>5, <1>6, <1>7, <1>8, <1>9, <1>10, <1>11, <1>12, <1>13, <1>14, <1>15 DEF Deployment!Next

\* Nothing but what is asked for changes between deploys.
LEMMA DeployWorldSettled ==
    ASSUME Deployment!ChartAssumption, Deployment!Settled, Deployment!TypeOK',
           \/ Deployment!Edit \/ Deployment!Rotate
           \/ \E w \in Deployment!Names : Deployment!KubeletSyncs(w)
           \/ Deployment!Refuse
    PROVE  Deployment!Settled'
<1> USE DEF Deployment!Settled, Deployment!PlannedOfRelease, Deployment!RestingCurrent, Deployment!ReadWhatItCould,
            Deployment!UpToDate, Deployment!SecretsOf, Deployment!ConfigsOf
<1>1. CASE Deployment!Edit
    BY <1>1 DEF Deployment!Edit, Deployment!ConvergingCurrent
<1>2. CASE Deployment!Rotate
    <2>1. /\ deployPhase = "idle" /\ UNCHANGED <<release, running, deployPhase, broken, informed>>
          /\ \A t \in Configs : cluster'[t] = cluster[t]
          /\ \A w \in Deployment!Names : startedAfter'[w] \subseteq startedAfter[w]
          /\ \A w \in Deployment!Names : \A t \in startedAfter'[w] : cluster'[t] = cluster[t]
        BY <1>2 DEF Deployment!Rotate, Deployment!TypeOK, Deployment!Things, Deployment!ChartAssumption
    <2>2. Deployment!RestingCurrent'
        BY <2>1
    <2> QED
        BY <2>1, <2>2 DEF Deployment!ConvergingCurrent
<1>3. CASE \E w \in Deployment!Names : Deployment!KubeletSyncs(w)
    <2>1. UNCHANGED <<chart, release, cluster, running, startedAfter, deployPhase, deployFlags, plan, deployQueue, broken,
                      result, informed, mayGoBack>>
          /\ deployPhase # "planned"
        BY <1>3 DEF Deployment!KubeletSyncs
    <2>2. Deployment!ConvergingCurrent'
        BY <2>1 DEF Deployment!ConvergingCurrent, Deployment!Restarted, Deployment!SecretsCurrent
    <2> QED
        BY <2>1, <2>2
<1>4. CASE Deployment!Refuse
    BY <1>4 DEF Deployment!Refuse, Deployment!ConvergingCurrent
<1>5. QED
    BY <1>1, <1>2, <1>3, <1>4

\* A process that starts on the release reads all there is.
LEMMA DeployStartsCurrent ==
    ASSUME Deployment!ChartAssumption, Deployment!TypeOK, Deployment!TypeOK',
           NEW ws, release' \in [Configs \union Deployment!Names -> Nat], Deployment!Starts(ws, release')
    PROVE  \A w \in Deployment!Names \intersect ws :
              Deployment!UpToDate(w)' /\ Deployment!SecretsCurrent(w)' /\ Deployment!ReadWhatItCould(w)'
<1>1. TAKE w \in Deployment!Names \intersect ws
<1>2. /\ running'[w].template = release'[w]
      /\ \A t \in Consumes[w] \intersect Deployment!Things : running'[w][t] = cluster'[t]
    BY DeployStarts
<1>3. QED
    BY <1>2 DEF Deployment!UpToDate, Deployment!SecretsCurrent, Deployment!ReadWhatItCould, Deployment!SecretsOf,
                Deployment!ConfigsOf, Deployment!Things

\* A workload that comes back on its own starts on the release.
LEMMA DeployHealsSettled ==
    ASSUME Deployment!ChartAssumption, Deployment!Settled, Deployment!TypeOK', NEW h \in Deployment!Names,
           Deployment!Heals(h)
    PROVE  Deployment!Settled'
<1>1. /\ deployPhase = "idle" /\ Deployment!Starts({h}, release) /\ broken # {}
      /\ UNCHANGED <<chart, release, cluster, deployPhase, informed>>
    BY DEF Deployment!Heals
<1>2. release # <<>> /\ release \in [Configs \union Deployment!Names -> Nat] /\ Deployment!TypeOK
    BY <1>1 DEF Deployment!Settled, Deployment!TypeOK
<1>3. Deployment!ReadWhatItCould(h)'
    BY <1>1, <1>2, DeployStartsCurrent
<1>4. \A w \in Deployment!Names \ {h} : running'[w] = running[w] /\ startedAfter'[w] = startedAfter[w]
    BY <1>1, <1>2, DeployStarts
<1>5. Deployment!RestingCurrent'
    BY <1>1, <1>3, <1>4 DEF Deployment!Settled, Deployment!RestingCurrent, Deployment!ReadWhatItCould, Deployment!UpToDate
<1>6. QED
    BY <1>1, <1>2, <1>5 DEF Deployment!Settled, Deployment!PlannedOfRelease, Deployment!ConvergingCurrent

\* A deploy plans against the release its upgrade will find.
LEMMA DeployBeginSettled ==
    ASSUME Deployment!ChartAssumption, Deployment!Settled, Deployment!TypeOK', Deployment!BeginDeploy
    PROVE  Deployment!Settled'
<1>1. /\ deployPhase = "idle" /\ deployPhase' = "planned"
      /\ UNCHANGED <<chart, release, cluster, running, startedAfter, broken>>
    BY DEF Deployment!BeginDeploy
<1>2. Deployment!RestingCurrent'
    <2>1. informed' => informed
        BY DEF Deployment!BeginDeploy
    <2>2. \A w \in Deployment!Names : Deployment!ReadWhatItCould(w)' <=> Deployment!ReadWhatItCould(w)
        BY <1>1 DEF Deployment!ReadWhatItCould, Deployment!UpToDate, Deployment!SecretsOf, Deployment!ConfigsOf
    <2> QED
        BY <1>1, <2>1, <2>2 DEF Deployment!Settled, Deployment!RestingCurrent
<1>3. Deployment!PlannedOfRelease'
    <2>1. CASE release # <<>> /\ plan' = Deployment!Planned(release)
        <3>1. Deployment!Planned(release)' = Deployment!Planned(release)
            BY <1>1 DEF Deployment!Planned, Deployment!Rolled, Deployment!Changed, Deployment!ChangedConfigs,
                        Deployment!StaleSecrets, Deployment!MovedBack, Deployment!SecretsOf, Deployment!ConfigsOf,
                        Deployment!Handled
        <3> QED
            BY <1>1, <2>1, <3>1 DEF Deployment!BeginDeploy, Deployment!PlannedOfRelease
    <2>2. CASE release = <<>>
        BY <1>1, <2>2 DEF Deployment!PlannedOfRelease
    <2>3. CASE ~informed' /\ mayGoBack'
        BY <2>3 DEF Deployment!PlannedOfRelease
    <2> QED
        BY <2>1, <2>2, <2>3 DEF Deployment!BeginDeploy
<1>4. QED
    BY <1>1, <1>2, <1>3 DEF Deployment!Settled, Deployment!ConvergingCurrent

\* helm upgrade: what did not roll ran the release, and runs it still unless a config
\* of it changed, and then the plan says so.
LEMMA DeployUpgradeLeaves ==
    ASSUME Deployment!ChartAssumption, Deployment!Settled, Deployment!TypeOK', Deployment!HelmUpgrade,
           informed, release # <<>>, NEW w \in Deployment!Names \ Deployment!Rolls
    PROVE  /\ running'[w] = running[w] /\ running[w].template = release'[w]
           /\ w \notin plan.stale => Deployment!SecretsCurrent(w)'
           /\ w \notin plan.stale \union plan.restart \union plan.reload => Deployment!UpToDate(w)'
<1>1. /\ deployPhase = "planned" /\ release' = chart /\ cluster' = Deployment!Applied
      /\ Deployment!Starts(Deployment!Rolls, chart) /\ UNCHANGED <<chart, plan>>
    BY DEF Deployment!HelmUpgrade
<1>2. /\ Deployment!TypeOK /\ plan = Deployment!Planned(release) /\ Deployment!ReadWhatItCould(w)
      /\ \A c \in Configs : cluster[c] = release[c]
    BY <1>1 DEF Deployment!Settled, Deployment!PlannedOfRelease, Deployment!RestingCurrent
<1>3. chart \in [Configs \union Deployment!Names -> Nat]
    BY <1>2 DEF Deployment!TypeOK
<1>4. running'[w] = running[w] /\ startedAfter'[w] = startedAfter[w]
    BY <1>1, <1>2, <1>3, DeployStarts
<1>5. chart[w] = release[w] /\ w \notin Deployment!Rolled(release)
    BY DEF Deployment!Rolls, Deployment!FirstInstall, Deployment!Rolled, Deployment!Changed
<1>6. running[w].template = release'[w]
    BY <1>1, <1>2, <1>5 DEF Deployment!ReadWhatItCould, Deployment!UpToDate
<1>7. w \notin plan.stale => Deployment!SecretsCurrent(w)'
    <2>1. plan.stale = Deployment!StaleSecrets(Deployment!Rolled(release))
        BY <1>2 DEF Deployment!Planned
    <2>2. w \notin plan.stale => Deployment!SecretsOf(w) \subseteq startedAfter[w]
        BY <1>5, <2>1 DEF Deployment!StaleSecrets
    <2>3. \A s \in Secrets : cluster'[s] = cluster[s]
        BY <1>1 DEF Deployment!Applied, Deployment!ChartAssumption, Deployment!Things
    <2> QED
        BY <1>2, <1>4, <2>2, <2>3 DEF Deployment!ReadWhatItCould, Deployment!SecretsCurrent, Deployment!SecretsOf
<1>8. ASSUME w \notin plan.stale \union plan.restart \union plan.reload
      PROVE  Deployment!UpToDate(w)'
    <2>1. SUFFICES ASSUME NEW c \in Deployment!ConfigsOf(w), Applying[c] # "auto"
                   PROVE  running[w][c] = cluster'[c]
        BY <1>4, <1>6 DEF Deployment!UpToDate, Deployment!ConfigsOf
    <2>2. c \in Configs /\ cluster'[c] = chart[c] /\ running[w][c] = cluster[c] /\ cluster[c] = release[c]
        BY <1>1, <1>2, <2>1
           DEF Deployment!ConfigsOf, Deployment!Applied, Deployment!Things, Deployment!ReadWhatItCould, Deployment!UpToDate
    <2>3. Applying[c] \in {"reload", "restart"}
        BY <2>1, <2>2 DEF Deployment!ChartAssumption
    <2>4. CASE chart[c] # release[c]
        <3>1. c \in Deployment!ChangedConfigs(release, w)
            BY <2>1, <2>2, <2>4 DEF Deployment!ChangedConfigs, Deployment!Changed
        <3>2. Deployment!Handled(w, c) \in {"reload", "restart"}
            BY <2>3 DEF Deployment!Handled
        <3>3. w \in plan.restart \union plan.reload
            BY <1>2, <1>5, <3>1, <3>2 DEF Deployment!Planned
        <3> QED
            BY <1>8, <3>3
    <2> QED
        BY <2>2, <2>4
<1>9. QED
    BY <1>4, <1>6, <1>7, <1>8

\* helm upgrade leaves what it did not roll to the plan.
LEMMA DeployUpgradeSettled ==
    ASSUME Deployment!ChartAssumption, Deployment!Settled, Deployment!TypeOK', Deployment!HelmUpgrade
    PROVE  Deployment!Settled'
<1>1. /\ deployPhase = "planned" /\ release' = chart /\ cluster' = Deployment!Applied
      /\ Deployment!Starts(Deployment!Rolls, chart) /\ UNCHANGED <<chart, deployFlags, plan, informed>>
      /\ deployPhase' = IF deployFlags.noRestart THEN "verifying" ELSE "converging"
      /\ deployQueue' = IF deployFlags.noRestart THEN {} ELSE Deployment!Actions
    BY DEF Deployment!HelmUpgrade
<1>2. Deployment!TypeOK /\ chart \in [Configs \union Deployment!Names -> Nat]
    BY DEF Deployment!Settled, Deployment!TypeOK
<1>3. release' # <<>>
    BY <1>1, <1>2, DeployReleased
<1>4. \A c \in Configs : cluster'[c] = release'[c]
    BY <1>1 DEF Deployment!Applied, Deployment!Things
<1>5. Deployment!ConvergingCurrent'
    <2>1. SUFFICES ASSUME informed \/ deployFlags.restartAll, ~deployFlags.noRestart, NEW w \in Deployment!Names
                   PROVE  IF w \in deployQueue'
                          THEN Deployment!Restarted(w)' \/ (running'[w].template = release'[w] /\ Deployment!SecretsCurrent(w)')
                          ELSE Deployment!UpToDate(w)' /\ Deployment!SecretsCurrent(w)'
        BY <1>1 DEF Deployment!ConvergingCurrent
    <2>2. deployQueue' = Deployment!Actions /\ (Deployment!Restarted(w)' <=> Deployment!Restarted(w))
        BY <1>1, <2>1 DEF Deployment!Restarted
    <2>3. CASE deployFlags.restartAll
        BY <2>2, <2>3 DEF Deployment!Actions, Deployment!Restarted
    <2>4. CASE w \in Deployment!Rolls
        <3>1. Deployment!UpToDate(w)' /\ Deployment!SecretsCurrent(w)'
            BY <1>1, <1>2, <2>4, DeployStartsCurrent
        <3> QED
            BY <3>1 DEF Deployment!UpToDate
    <2>5. CASE ~deployFlags.restartAll /\ w \notin Deployment!Rolls
        <3>1. informed /\ release # <<>>
            BY <2>1, <2>5 DEF Deployment!Rolls, Deployment!FirstInstall
        <3>2. /\ running'[w].template = release'[w]
              /\ w \notin plan.stale => Deployment!SecretsCurrent(w)'
              /\ w \notin plan.stale \union plan.restart \union plan.reload => Deployment!UpToDate(w)'
            BY <2>5, <3>1, DeployUpgradeLeaves
        <3> QED
            BY <2>2, <2>5, <3>2 DEF Deployment!Actions, Deployment!Restarted
    <2> QED
        BY <2>3, <2>4, <2>5
<1>6. QED
    BY <1>1, <1>3, <1>4, <1>5 DEF Deployment!Settled, Deployment!PlannedOfRelease, Deployment!RestingCurrent

\* A failed upgrade leaves the release as it was.
LEMMA DeployUpgradeFailsSettled ==
    ASSUME Deployment!ChartAssumption, Deployment!Settled, Deployment!TypeOK', Deployment!HelmUpgradeFails
    PROVE  Deployment!Settled'
<1>1. chart \in [Configs \union Deployment!Names -> Nat] /\ release' = chart
    BY DEF Deployment!HelmUpgradeFails, Deployment!Settled, Deployment!TypeOK
<1>2. release' # <<>>
    BY <1>1, DeployReleased
<1>3. \A c \in Configs : cluster'[c] = release'[c]
    BY <1>1 DEF Deployment!HelmUpgradeFails, Deployment!Applied, Deployment!Things
<1>4. deployPhase' = "idle" /\ ~informed'
    BY DEF Deployment!HelmUpgradeFails
<1>5. QED
    BY <1>2, <1>3, <1>4
       DEF Deployment!Settled, Deployment!PlannedOfRelease, Deployment!RestingCurrent, Deployment!ConvergingCurrent

\* One workload at a time is brought up to date, and those that are stay so.
LEMMA DeployConvergeSettled ==
    ASSUME Deployment!ChartAssumption, Deployment!Settled, Deployment!TypeOK',
           Deployment!SkipRestart \/ Deployment!Reload \/ Deployment!Restart
    PROVE  Deployment!Settled'
<1>0. PICK n : n = Deployment!Next1
    OBVIOUS
<1>1. /\ deployPhase = "converging" /\ deployQueue' = deployQueue \ {n}
      /\ UNCHANGED <<chart, release, cluster, deployPhase, deployFlags, plan, result, informed>>
    BY <1>0 DEF Deployment!SkipRestart, Deployment!Reload, Deployment!Restart, Deployment!Converging
<1>2. Deployment!TypeOK /\ release # <<>> /\ release \in [Configs \union Deployment!Names -> Nat]
    BY <1>1 DEF Deployment!Settled, Deployment!TypeOK
<1>3. \A w \in Deployment!Names : Deployment!Restarted(w)' <=> Deployment!Restarted(w)
    BY <1>1 DEF Deployment!Restarted
<1>4. ASSUME NEW w \in Deployment!Names, w # n
      PROVE  running'[w] = running[w]
    <2>1. CASE Deployment!SkipRestart
        BY <2>1 DEF Deployment!SkipRestart
    <2>2. CASE Deployment!Reload
        BY <1>0, <1>2, <1>4, <2>2 DEF Deployment!Reload, Deployment!TypeOK
    <2>3. CASE Deployment!Restart
        <3>1. Deployment!Starts({n}, release)
            BY <1>0, <2>3 DEF Deployment!Restart
        <3>2. w \notin {n}
            BY <1>4
        <3>3. w \notin {n} => running'[w] = running[w]
            BY <1>2, <1>4, <3>1, DeployStarts, Zenon
        <3> QED
            BY <3>2, <3>3
    <2> QED
        BY <2>1, <2>2, <2>3
<1>5. ASSUME n \in Deployment!Names, deployFlags.skip = {},
             Deployment!Restarted(n) \/ (running[n].template = release[n] /\ Deployment!SecretsCurrent(n))
      PROVE  Deployment!UpToDate(n)' /\ Deployment!SecretsCurrent(n)'
    <2>1. CASE Deployment!SkipRestart
        BY <1>5, <2>1 DEF Deployment!SkipRestart
    <2>2. CASE Deployment!Reload
        <3>1. /\ n \in mounted /\ ~Deployment!Restarted(n)
              /\ running' = [running EXCEPT ![n] =
                    [t \in DOMAIN running[n] |-> IF t \in Deployment!ConfigsOf(n) THEN cluster[t] ELSE running[n][t]]]
            BY <1>0, <2>2 DEF Deployment!Reload, Deployment!Synced
        <3>2. \A t \in Deployment!Labels :
                 running'[n][t] = IF t \in Deployment!ConfigsOf(n) THEN cluster[t] ELSE running[n][t]
            BY <1>2, <1>5, <3>1 DEF Deployment!TypeOK
        <3>3. "template" \notin Deployment!ConfigsOf(n) /\ Deployment!SecretsOf(n) \intersect Deployment!ConfigsOf(n) = {}
            BY DEF Deployment!ChartAssumption, Deployment!ConfigsOf, Deployment!SecretsOf, Deployment!Things
        <3>4. Deployment!ConfigsOf(n) \union Deployment!SecretsOf(n) \union {"template"} \subseteq Deployment!Labels
            BY DEF Deployment!Labels, Deployment!ConfigsOf, Deployment!SecretsOf, Deployment!Things
        <3>5. running[n].template = release[n] /\ Deployment!SecretsCurrent(n)
            BY <1>5, <3>1
        <3>6. running'[n].template = release'[n]
            BY <1>1, <3>2, <3>3, <3>4, <3>5
        <3>7. \A c \in Deployment!ConfigsOf(n) : running'[n][c] = cluster'[c]
            BY <1>1, <3>2, <3>4
        <3>8. \A c \in Deployment!SecretsOf(n) : running'[n][c] = cluster'[c]
            BY <1>1, <3>2, <3>3, <3>4, <3>5 DEF Deployment!SecretsCurrent
        <3> QED
            BY <3>6, <3>7, <3>8 DEF Deployment!UpToDate, Deployment!SecretsCurrent, Deployment!ConfigsOf, Deployment!SecretsOf
    <2>3. CASE Deployment!Restart
        <3>1. Deployment!Starts({n}, release')
            BY <1>0, <1>1, <2>3 DEF Deployment!Restart
        <3>2. release' \in [Configs \union Deployment!Names -> Nat]
            BY <1>1, <1>2
        <3> QED
            BY <1>2, <1>5, <3>1, <3>2, DeployStartsCurrent
    <2> QED
        BY <2>1, <2>2, <2>3
<1>6. Deployment!ConvergingCurrent'
    <2>1. SUFFICES ASSUME result # "failed", informed \/ deployFlags.restartAll, deployFlags.skip = {},
                          ~deployFlags.noRestart, NEW w \in Deployment!Names
                   PROVE  IF w \in deployQueue'
                          THEN Deployment!Restarted(w)' \/ (running'[w].template = release'[w] /\ Deployment!SecretsCurrent(w)')
                          ELSE Deployment!UpToDate(w)' /\ Deployment!SecretsCurrent(w)'
        BY <1>1 DEF Deployment!ConvergingCurrent
    <2>2. IF w \in deployQueue THEN Deployment!Restarted(w) \/ (running[w].template = release[w] /\ Deployment!SecretsCurrent(w))
          ELSE Deployment!UpToDate(w) /\ Deployment!SecretsCurrent(w)
        BY <1>1, <2>1 DEF Deployment!Settled, Deployment!ConvergingCurrent
    <2>3. CASE w # n
        <3>1. running'[w] = running[w]
            BY <1>4, <2>3
        <3>2. /\ Deployment!SecretsCurrent(w)' <=> Deployment!SecretsCurrent(w)
              /\ Deployment!UpToDate(w)' <=> Deployment!UpToDate(w)
            BY <1>1, <3>1 DEF Deployment!SecretsCurrent, Deployment!UpToDate, Deployment!SecretsOf, Deployment!ConfigsOf
        <3> QED
            BY <1>1, <1>3, <2>2, <2>3, <3>1, <3>2
    <2>4. CASE w = n
        <3>1. Deployment!Restarted(n) \/ (running[n].template = release[n] /\ Deployment!SecretsCurrent(n))
            BY <2>2, <2>4 DEF Deployment!UpToDate
        <3>2. Deployment!UpToDate(n)' /\ Deployment!SecretsCurrent(n)'
            BY <1>5, <2>1, <2>4, <3>1
        <3> QED
            BY <1>1, <2>4, <3>2
    <2> QED
        BY <2>3, <2>4
<1>7. QED
    BY <1>1, <1>2, <1>6 DEF Deployment!Settled, Deployment!PlannedOfRelease, Deployment!RestingCurrent

\* A deploy that ends in success has every workload up to date.
LEMMA DeployEndSettled ==
    ASSUME Deployment!Settled, Deployment!TypeOK',
           Deployment!RestartFails \/ Deployment!Converged \/ Deployment!Verify
    PROVE  Deployment!Settled'
<1>1. UNCHANGED <<chart, release, cluster, running, startedAfter, deployFlags, plan>> /\ release # <<>>
    BY DEF Deployment!RestartFails, Deployment!Converged, Deployment!Verify, Deployment!Converging, Deployment!Settled
<1>2. \A w \in Deployment!Names :
         /\ Deployment!SecretsCurrent(w)' <=> Deployment!SecretsCurrent(w)
         /\ Deployment!UpToDate(w)' <=> Deployment!UpToDate(w)
         /\ Deployment!UpToDate(w) /\ Deployment!SecretsCurrent(w) => Deployment!ReadWhatItCould(w)'
    BY <1>1 DEF Deployment!SecretsCurrent, Deployment!UpToDate, Deployment!SecretsOf, Deployment!ConfigsOf,
                Deployment!ReadWhatItCould
<1>3. CASE Deployment!RestartFails
    BY <1>1, <1>3
       DEF Deployment!RestartFails, Deployment!Settled, Deployment!PlannedOfRelease, Deployment!RestingCurrent,
           Deployment!ConvergingCurrent
<1>4. CASE Deployment!Converged
    <2>1. Deployment!ConvergingCurrent'
        BY <1>1, <1>2, <1>4
           DEF Deployment!Converged, Deployment!Settled, Deployment!ConvergingCurrent
    <2> QED
        BY <1>1, <1>4, <2>1
           DEF Deployment!Converged, Deployment!Settled, Deployment!PlannedOfRelease, Deployment!RestingCurrent
<1>5. CASE Deployment!Verify
    <2>1. Deployment!RestingCurrent'
        <3>1. SUFFICES ASSUME informed', NEW w \in Deployment!Names
                       PROVE  Deployment!ReadWhatItCould(w)'
            BY DEF Deployment!RestingCurrent
        <3>2. /\ result # "failed" /\ (informed \/ deployFlags.restartAll) /\ deployFlags.skip = {}
              /\ ~deployFlags.noRestart /\ deployPhase = "verifying"
            BY <1>5, <3>1 DEF Deployment!Verify
        <3>3. Deployment!UpToDate(w) /\ Deployment!SecretsCurrent(w)
            BY <3>2 DEF Deployment!Settled, Deployment!ConvergingCurrent
        <3> QED
            BY <1>2, <3>3
    <2> QED
        BY <1>1, <1>5, <2>1
           DEF Deployment!Verify, Deployment!Settled, Deployment!PlannedOfRelease, Deployment!ConvergingCurrent
<1>6. QED
    BY <1>3, <1>4, <1>5

\* Nothing is released at first.
LEMMA DeployInitSettled ==
    ASSUME Deployment!ChartAssumption, Deployment!Init
    PROVE  Deployment!Settled
<1>1. ASSUME NEW w \in Deployment!Names
      PROVE  /\ Deployment!Started(w, [t \in Deployment!Things |-> 0], 0) \in [Deployment!Labels -> Nat]
             /\ Deployment!Started(w, [t \in Deployment!Things |-> 0], 0).template = 0
    BY DeployStarted
<1>2. Deployment!TypeOK
    BY <1>1 DEF Deployment!Init, Deployment!TypeOK
<1>3. QED
    BY <1>1, <1>2
       DEF Deployment!Init, Deployment!Settled, Deployment!PlannedOfRelease, Deployment!RestingCurrent,
           Deployment!ConvergingCurrent

\* Plans are of the release, and workloads run it, whatever is deployed and in what order.
LEMMA DeploySettledCorrect ==
    ASSUME Deployment!ChartAssumption
    PROVE  Deployment!Spec => []Deployment!Settled
<1>1. Deployment!Init => Deployment!Settled
    BY DeployInitSettled
<1>2. ASSUME Deployment!Settled, [Deployment!Next]_(Deployment!deployVars)
      PROVE  Deployment!Settled'
    <2>1. CASE UNCHANGED Deployment!deployVars
        <3>1. UNCHANGED <<chart, release, cluster, running, startedAfter, deployPhase, deployFlags, plan, deployQueue,
                          broken, result, informed, mayGoBack>>
            BY <2>1 DEF Deployment!deployVars
        <3>2. Deployment!TypeOK' /\ Deployment!RestingCurrent'
            BY <1>2, <3>1 DEF Deployment!Settled, Deployment!TypeOK, Deployment!RestingCurrent, Deployment!ReadWhatItCould,
                              Deployment!UpToDate, Deployment!SecretsOf, Deployment!ConfigsOf
        <3>3. Deployment!Planned(release)' = Deployment!Planned(release)
            BY <3>1 DEF Deployment!Planned, Deployment!Rolled, Deployment!Changed, Deployment!ChangedConfigs,
                        Deployment!StaleSecrets, Deployment!MovedBack, Deployment!SecretsOf, Deployment!ConfigsOf,
                        Deployment!Handled
        <3>4. Deployment!PlannedOfRelease'
            BY <1>2, <3>1, <3>3 DEF Deployment!Settled, Deployment!PlannedOfRelease
        <3>5. Deployment!ConvergingCurrent'
            BY <1>2, <3>1 DEF Deployment!Settled, Deployment!ConvergingCurrent, Deployment!UpToDate,
                              Deployment!SecretsCurrent, Deployment!Restarted, Deployment!SecretsOf, Deployment!ConfigsOf
        <3> QED
            BY <1>2, <3>1, <3>2, <3>4, <3>5 DEF Deployment!Settled
    <2>2. CASE Deployment!Next
        <3>1. Deployment!TypeOK'
            BY <1>2, <2>2, DeployTyped
        <3> QED
            BY <1>2, <2>2, <3>1, DeployWorldSettled, DeployHealsSettled, DeployBeginSettled, DeployUpgradeSettled,
               DeployUpgradeFailsSettled, DeployConvergeSettled, DeployEndSettled
               DEF Deployment!Next
    <2> QED
        BY <1>2, <2>1, <2>2
<1>3. QED
    BY <1>1, <1>2, PTL DEF Deployment!Spec

\* A process runs the template it did, or that of the release it starts on.
LEMMA DeployTemplates ==
    ASSUME Deployment!ChartAssumption, Deployment!Settled, Deployment!TypeOK', Deployment!Next,
           NEW w \in Deployment!Names
    PROVE  \/ running'[w].template = running[w].template
           \/ release' # <<>> /\ running'[w].template = release'[w]
<1>1. Deployment!TypeOK /\ (release = <<>> => broken = {} /\ deployPhase \notin {"converging", "verifying"})
    BY DEF Deployment!Settled
<1>2. ASSUME NEW ws, Deployment!Starts(ws, release'), release' \in [Configs \union Deployment!Names -> Nat]
      PROVE  \/ running'[w].template = running[w].template
             \/ release' # <<>> /\ running'[w].template = release'[w]
    BY <1>1, <1>2, DeployStarts, DeployReleased
<1>3. CASE \E h \in Deployment!Names : Deployment!Heals(h)
    <2>1. PICK h \in Deployment!Names : Deployment!Heals(h)
        BY <1>3
    <2>2. Deployment!Starts({h}, release') /\ release' \in [Configs \union Deployment!Names -> Nat]
        BY <1>1, <2>1 DEF Deployment!Heals, Deployment!TypeOK
    <2> QED
        BY <1>2, <2>2
<1>4. CASE Deployment!HelmUpgrade \/ Deployment!HelmUpgradeFails
    <2>1. PICK up : Deployment!Starts(up, chart)
        BY <1>4 DEF Deployment!HelmUpgrade, Deployment!HelmUpgradeFails
    <2>2. release' = chart /\ release' \in [Configs \union Deployment!Names -> Nat]
        BY <1>1, <1>4 DEF Deployment!HelmUpgrade, Deployment!HelmUpgradeFails, Deployment!TypeOK
    <2> QED
        BY <1>2, <2>1, <2>2
<1>5. CASE Deployment!Restart
    <2>1. PICK up : Deployment!Starts(up, release)
        BY <1>5 DEF Deployment!Restart
    <2>2. release' = release /\ release' \in [Configs \union Deployment!Names -> Nat]
        BY <1>1, <1>5 DEF Deployment!Restart, Deployment!Converging, Deployment!TypeOK
    <2> QED
        BY <1>2, <2>1, <2>2
<1>6. CASE Deployment!Reload
    <2>1. "template" \notin Deployment!ConfigsOf(Deployment!Next1) /\ "template" \in Deployment!Labels
        BY DEF Deployment!ChartAssumption, Deployment!ConfigsOf, Deployment!Things, Deployment!Labels
    <2>2. PICK n : n = Deployment!Next1
        OBVIOUS
    <2>3. \/ running' = running
          \/ running' = [running EXCEPT ![n] =
                [t \in DOMAIN running[n] |-> IF t \in Deployment!ConfigsOf(n) THEN cluster[t] ELSE running[n][t]]]
        BY <1>6, <2>2 DEF Deployment!Reload
    <2>4. CASE w = n
        BY <1>1, <2>1, <2>2, <2>3, <2>4 DEF Deployment!TypeOK
    <2>5. CASE w # n
        BY <1>1, <2>3, <2>5 DEF Deployment!TypeOK
    <2> QED
        BY <2>4, <2>5
<1>7. CASE UNCHANGED running
    BY <1>7
<1>8. QED
    BY <1>3, <1>4, <1>5, <1>6, <1>7
       DEF Deployment!Next, Deployment!Edit, Deployment!Rotate, Deployment!KubeletSyncs, Deployment!BeginDeploy,
           Deployment!Refuse, Deployment!SkipRestart, Deployment!RestartFails, Deployment!Converged, Deployment!Verify

\* The guard on the pins: unless told it may, a deploy releases no older template.
LEMMA DeployReleaseForward ==
    ASSUME Deployment!ChartAssumption, Deployment!Settled, Deployment!TypeOK', Deployment!Next, ~mayGoBack,
           release # <<>>
    PROVE  release' # <<>> /\ \A w \in Deployment!Names : release[w] <= release'[w]
<1>1. Deployment!TypeOK /\ release \in [Configs \union Deployment!Names -> Nat]
    BY DEF Deployment!Settled, Deployment!TypeOK
<1>2. CASE UNCHANGED release
    BY <1>1, <1>2
<1>3. CASE Deployment!HelmUpgrade \/ Deployment!HelmUpgradeFails
    <2>1. release' = chart /\ deployPhase = "planned" /\ ~Deployment!Blocked
        BY <1>3 DEF Deployment!HelmUpgrade, Deployment!HelmUpgradeFails
    <2>2. plan = Deployment!Planned(release) /\ ~deployFlags.rollback
        BY <2>1 DEF Deployment!Settled, Deployment!PlannedOfRelease
    <2>3. plan.back = {}
        BY <2>1, <2>2 DEF Deployment!Blocked
    <2>4. Deployment!MovedBack(release) = {}
        BY <2>2, <2>3 DEF Deployment!Planned
    <2>5. chart \in [Configs \union Deployment!Names -> Nat] /\ chart # <<>>
        BY <1>1, DeployReleased DEF Deployment!TypeOK
    <2>6. \A w \in Deployment!Names : ~(chart[w] < release[w])
        BY <2>4 DEF Deployment!MovedBack
    <2> QED
        BY <1>1, <2>1, <2>5, <2>6
<1>4. QED
    BY <1>2, <1>3
       DEF Deployment!Next, Deployment!Edit, Deployment!Rotate, Deployment!KubeletSyncs, Deployment!Heals,
           Deployment!BeginDeploy, Deployment!Refuse, Deployment!SkipRestart, Deployment!Reload, Deployment!Restart,
           Deployment!RestartFails, Deployment!Converged, Deployment!Verify

\* No step runs older code than was running, or newer than is released.
LEMMA DeployForward ==
    ASSUME Deployment!ChartAssumption, Deployment!Settled, Deployment!Settled', Deployment!NoNewerThanRelease,
           Deployment!Next, ~mayGoBack, NEW w \in Deployment!Names
    PROVE  /\ running'[w].template >= running[w].template
           /\ release' # <<>> => running'[w].template <= release'[w]
<1>1. Deployment!TypeOK /\ Deployment!TypeOK'
    BY DEF Deployment!Settled
<1>2. running[w].template \in Nat /\ running'[w].template \in Nat
    BY <1>1 DEF Deployment!TypeOK, Deployment!Labels
<1>3. release' # <<>> => release'[w] \in Nat
    BY <1>1 DEF Deployment!TypeOK
<1>4. release # <<>> => release[w] \in Nat
    BY <1>1 DEF Deployment!TypeOK
<1>5. \/ running'[w].template = running[w].template
      \/ release' # <<>> /\ running'[w].template = release'[w]
    BY <1>1, DeployTemplates
<1>6. CASE release = <<>>
    <2>1. running[w].template = 0
        BY <1>6 DEF Deployment!Settled
    <2> QED
        BY <1>2, <1>3, <1>5, <2>1
<1>7. CASE release # <<>>
    <2>1. release' # <<>> /\ release[w] <= release'[w]
        BY <1>1, <1>7, DeployReleaseForward
    <2>2. running[w].template <= release[w]
        BY <1>7 DEF Deployment!NoNewerThanRelease
    <2> QED
        BY <1>2, <1>3, <1>4, <1>5, <1>7, <2>1, <2>2
<1>8. QED
    BY <1>6, <1>7

\* No process runs newer code than the release while none may go back.
LEMMA DeployNoNewerCorrect ==
    ASSUME Deployment!ChartAssumption
    PROVE  Deployment!Spec => [](Deployment!Settled /\ Deployment!NoNewerThanRelease)
<1>1. Deployment!Init => Deployment!NoNewerThanRelease
    BY DEF Deployment!Init, Deployment!NoNewerThanRelease
<1>2. ASSUME Deployment!Settled, Deployment!Settled', Deployment!NoNewerThanRelease,
             [Deployment!Next]_(Deployment!deployVars)
      PROVE  Deployment!NoNewerThanRelease'
    <2>1. CASE UNCHANGED Deployment!deployVars
        BY <1>2, <2>1 DEF Deployment!deployVars, Deployment!NoNewerThanRelease
    <2>2. CASE Deployment!Next /\ mayGoBack
        <3>1. mayGoBack'
            BY <2>2
               DEF Deployment!Next, Deployment!Edit, Deployment!Rotate, Deployment!KubeletSyncs, Deployment!Heals,
                   Deployment!BeginDeploy, Deployment!Refuse, Deployment!HelmUpgrade, Deployment!HelmUpgradeFails,
                   Deployment!SkipRestart, Deployment!Reload, Deployment!Restart, Deployment!RestartFails,
                   Deployment!Converged, Deployment!Verify
        <3> QED
            BY <3>1 DEF Deployment!NoNewerThanRelease
    <2>3. CASE Deployment!Next /\ ~mayGoBack
        BY <1>2, <2>3, DeployForward DEF Deployment!NoNewerThanRelease
    <2> QED
        BY <1>2, <2>1, <2>2, <2>3
<1>3. QED
    BY <1>1, <1>2, DeploySettledCorrect, PTL DEF Deployment!Spec

\* A deploy that exits with success leaves every workload on what is deployed, as long as
\* none failed, went without a manifest or left pods alone (deploy.py, build_plan, converge).
THEOREM DeploySuccessIsCurrentCorrect ==
    ASSUME Deployment!ChartAssumption
    PROVE  Deployment!Spec => Deployment!SuccessIsCurrent
<1>1. ASSUME Deployment!Settled, [Deployment!Next]_(Deployment!deployVars), Deployment!Verify, result' = "ok", informed',
             NEW w \in Deployment!Names
      PROVE  Deployment!UpToDate(w) /\ Deployment!SecretsCurrent(w)
    <2>1. /\ result # "failed" /\ (informed \/ deployFlags.restartAll) /\ deployFlags.skip = {}
          /\ ~deployFlags.noRestart /\ deployPhase = "verifying"
        BY <1>1 DEF Deployment!Verify
    <2> QED
        BY <1>1, <2>1 DEF Deployment!Settled, Deployment!ConvergingCurrent
<1>2. (Deployment!Settled /\ [Deployment!Next]_(Deployment!deployVars))
          => [Deployment!Verify /\ result' = "ok" /\ informed' =>
                 \A w \in Deployment!Names : Deployment!UpToDate(w) /\ \A s \in Deployment!SecretsOf(w) : running[w][s] = cluster[s]
             ]_(Deployment!deployVars)
    BY <1>1 DEF Deployment!SecretsCurrent
<1>3. QED
    BY <1>2, DeploySettledCorrect, PTL DEF Deployment!Spec, Deployment!SuccessIsCurrent

\* No process goes back to older code, whatever fails, unless a deploy was told it may or
\* could not read the live manifest (deploy.py, source_move_blockers).
THEOREM DeployCodeNeverBackCorrect ==
    ASSUME Deployment!ChartAssumption
    PROVE  Deployment!Spec => Deployment!CodeNeverBack
<1>1. ASSUME Deployment!Settled, Deployment!Settled', Deployment!NoNewerThanRelease, Deployment!Next, ~mayGoBack,
             NEW w \in Deployment!Names
      PROVE  ~(running'[w].template < running[w].template)
    <2>1. running'[w].template >= running[w].template
        BY <1>1, DeployForward
    <2>2. running'[w].template \in Nat /\ running[w].template \in Nat
        BY <1>1 DEF Deployment!Settled, Deployment!TypeOK, Deployment!Labels
    <2> QED
        BY <2>1, <2>2
<1>2. (Deployment!Settled /\ Deployment!Settled' /\ Deployment!NoNewerThanRelease
            /\ [Deployment!Next]_(Deployment!deployVars))
          => [\A w \in Deployment!Names : running'[w].template < running[w].template => mayGoBack]_(Deployment!deployVars)
    BY <1>1
<1>3. QED
    BY <1>2, DeployNoNewerCorrect, PTL DEF Deployment!Spec, Deployment!CodeNeverBack

-----------------------------------------------------------------------------
(* The publisher, for any traces, window, limit and age of pruning          *)

\* What a step leaves of the raw traces.
LEMMA PublishStep ==
    ASSUME Publish!PrunedOnceSynced, Publish!Next
    PROVE  /\ Publish!PrunedOnceSynced'
           /\ staging.raw \union bucket.raw \subseteq staging'.raw \union bucket'.raw
<1> USE DEF Publish!PrunedOnceSynced
<1>1. CASE UNCHANGED <<staging, bucket>> /\ publishPhase' # "pruning"
    BY <1>1
<1>2. CASE UNCHANGED <<staging, bucket, publishPhase>>
    BY <1>2
<1>3. ASSUME NEW t \in Traces, Publish!Fetch(t)
      PROVE  /\ Publish!PrunedOnceSynced'
             /\ staging.raw \union bucket.raw \subseteq staging'.raw \union bucket'.raw
    <2>1. /\ staging' = [staging EXCEPT !.raw = @ \union {t}, !.rows = staging'.rows]
          /\ publishPhase' = "fetching" /\ UNCHANGED bucket
        BY <1>3 DEF Publish!Fetch
    <2> QED
        BY <2>1
<1>4. CASE Publish!CloseRows
    <2>1. /\ staging' = [staging EXCEPT !.rows = staging'.rows]
          /\ publishPhase' = "rolling" /\ UNCHANGED bucket
        BY <1>4 DEF Publish!CloseRows
    <2> QED
        BY <2>1
<1>5. CASE Publish!WriteRollups
    <2>1. /\ staging' = [staging EXCEPT !.rolls = staging'.rolls]
          /\ publishPhase' = "syncing" /\ UNCHANGED bucket
        BY <1>5 DEF Publish!WriteRollups
    <2> QED
        BY <2>1
<1>6. CASE Publish!Sync
    <2>1. bucket' = [raw |-> bucket.raw \union staging.raw, rows |-> bucket'.rows, rolls |-> bucket'.rolls] /\ UNCHANGED staging
        BY <1>6 DEF Publish!Sync, Publish!Uploaded
    <2> QED
        BY <2>1
<1>7. CASE Publish!SyncFails
    <2>0. PICK days \in SUBSET Publish!Days, raw \in SUBSET staging.raw : bucket' = Publish!Uploaded(days, raw)
        BY <1>7 DEF Publish!SyncFails
    <2>1. bucket' = [raw |-> bucket.raw \union raw, rows |-> bucket'.rows, rolls |-> bucket'.rolls]
        BY <2>0 DEF Publish!Uploaded
    <2>2. UNCHANGED staging /\ publishPhase' = "idle"
        BY <1>7 DEF Publish!SyncFails, Publish!AfterSync
    <2> QED
        BY <2>1, <2>2
<1>8. CASE Publish!Prune
    <2>1. /\ staging' = [staging EXCEPT !.raw = {t \in @ : ~Publish!Prunable(t)}]
          /\ publishPhase = "pruning" /\ publishPhase' = "idle" /\ UNCHANGED bucket
        BY <1>8 DEF Publish!Prune
    <2> QED
        BY <2>1
<1>9. QED
    BY <1>1, <1>2, <1>3, <1>4, <1>5, <1>6, <1>7, <1>8
       DEF Publish!Next, Publish!Tick, Publish!BeginCycle, Publish!SearchFails, Publish!FetchFails, Publish!Killed

\* No raw trace is lost to a failed sync, a kill or the pruning (publish/main.py, run_cycle).
THEOREM PublishTracesKeptCorrect == Publish!Spec => Publish!TracesKept
<1>1. Publish!Init => Publish!PrunedOnceSynced
    BY DEF Publish!Init, Publish!PrunedOnceSynced, Publish!Mirror
<1>2. Publish!PrunedOnceSynced /\ [Publish!Next]_(Publish!publishVars) => Publish!PrunedOnceSynced'
    <2>1. ASSUME Publish!PrunedOnceSynced, UNCHANGED Publish!publishVars
          PROVE  Publish!PrunedOnceSynced'
        BY <2>1 DEF Publish!publishVars, Publish!PrunedOnceSynced
    <2> QED
        BY <2>1, PublishStep
<1>3. Publish!PrunedOnceSynced /\ [Publish!Next]_(Publish!publishVars)
         => [staging.raw \union bucket.raw \subseteq staging'.raw \union bucket'.raw]_(Publish!publishVars)
    BY PublishStep
<1>4. QED
    BY <1>1, <1>2, <1>3, PTL DEF Publish!Spec, Publish!TracesKept

-----------------------------------------------------------------------------
(* The page of Mergeability-in-CI, for any jobs, pull requests and checks   *)

\* A finite set of numbers has a greatest.
LEMMA FiniteGreatest ==
    ASSUME NEW S \in SUBSET Nat, IsFiniteSet(S), S # {}
    PROVE  \E m \in S : \A y \in S : y <= m
<1>1. PICK f \in Bijection(1 .. Cardinality(S), S) : TRUE
    BY FS_CardinalityType DEF ExistsBijection
<1> DEFINE n == Cardinality(S)
           HasGreatest(m) == \E j \in 1 .. m : \A i \in 1 .. m : f[i] <= f[j]
           Short == {m \in 1 .. n : ~HasGreatest(m)}
<1>2. n \in Nat
    BY FS_CardinalityType
<1>9. \A x, y, z \in Nat : (x <= y \/ y <= x) /\ (x <= y /\ y <= z => x <= z)
    OBVIOUS
<1>3. \A i \in 1 .. n : f[i] \in S /\ f[i] \in Nat
    BY <1>1 DEF Bijection, Injection, Surjection
<1>4. \A x \in S : \E i \in 1 .. n : f[i] = x
    BY <1>1 DEF Bijection, Surjection
<1> HIDE DEF n
<1>5. Short = {}
    <2>1. SUFFICES ASSUME Short # {}
                   PROVE  FALSE
        OBVIOUS
    <2>2. PICK m \in Short : \A y \in Short : m <= y
        <3>1. Short \in SUBSET Nat
            OBVIOUS
        <3> HIDE DEF Short
        <3> QED
            BY <2>1, <3>1, Least
    <2>3. m \in 1 .. n /\ ~HasGreatest(m)
        OBVIOUS
    <2>4. CASE m = 1
        BY <1>3, <2>3, <2>4
    <2>5. CASE m # 1
        <3>1. m - 1 \in 1 .. n /\ m - 1 < m
            BY <1>2, <2>3, <2>5
        <3>2. HasGreatest(m - 1)
            BY <2>2, <3>1
        <3>3. PICK j \in 1 .. m - 1 : \A i \in 1 .. m - 1 : f[i] <= f[j]
            BY <3>2
        <3>4. \A i \in 1 .. m : i = m \/ i \in 1 .. m - 1
            BY <2>3
        <3>9. j \in 1 .. n /\ j \in 1 .. m /\ m \in 1 .. m
            BY <1>2, <2>3, <3>1
        <3>5. f[m] \in Nat /\ f[j] \in Nat /\ j \in 1 .. m /\ m \in 1 .. m
            BY <1>3, <2>3, <3>9
        <3>6. CASE f[m] <= f[j]
            BY <2>3, <3>3, <3>4, <3>5, <3>6
        <3>7. CASE f[j] <= f[m]
            <4>1. \A i \in 1 .. m - 1 : f[i] \in Nat
                BY <1>2, <1>3, <2>3
            <4>3. ASSUME NEW i \in 1 .. m - 1
                  PROVE  f[i] <= f[m]
                <5>1. f[i] <= f[j] /\ f[i] \in Nat
                    BY <3>3, <4>1
                <5> QED
                    BY <1>9, <3>5, <3>7, <5>1, Zenon
            <4>2. \A i \in 1 .. m : f[i] <= f[m]
                <5>1. f[m] <= f[m]
                    BY <1>9, <3>5, Zenon
                <5>2. ASSUME NEW i \in 1 .. m
                      PROVE  f[i] <= f[m]
                    <6>1. CASE i = m
                        BY <5>1, <6>1, Zenon
                    <6>2. CASE i \in 1 .. m - 1
                        BY <4>3, <6>2
                    <6> QED
                        BY <3>4, <6>1, <6>2
                <5> QED
                    BY <5>2
            <4> QED
                BY <2>3, <3>5, <4>2
        <3> QED
            <4>1. f[m] <= f[j] \/ f[j] <= f[m]
                BY <1>9, <3>5, Zenon
            <4> QED
                BY <3>6, <3>7, <4>1
    <2> QED
        BY <2>4, <2>5
<1>6. n # 0
    <2>1. PICK x \in S : TRUE
        OBVIOUS
    <2>2. PICK i \in 1 .. n : f[i] = x
        BY <1>4
    <2> QED
        BY <1>2, <2>2
<1>7. HasGreatest(n)
    <2>1. n \in 1 .. n
        BY <1>2, <1>6
    <2> QED
        BY <1>5, <2>1
<1>8. QED
    BY <1>3, <1>4, <1>7

\* Finite sets and their sizes are the same in the instance.
LEMMA MicSizes ==
    \A S : Mic!IsFiniteSet(S) = IsFiniteSet(S) /\ Mic!Cardinality(S) = Cardinality(S)
BY Zenon DEF Mic!IsFiniteSet, IsFiniteSet, Mic!Cardinality, Cardinality

\* The entries of a page, run after run.
LEMMA MicLatest ==
    ASSUME Mic!StartsAssumption, NEW order \in Mic!Orders
    PROVE  \E met :
              /\ met[0] = Mic!FirstRows /\ Mic!Latest(order) = met[Mic!Cardinality(MicRuns)]
              /\ \A n \in 1 .. Mic!Cardinality(MicRuns) : met[n] = Mic!Noted(met[n - 1], order[n])
<1> DEFINE N == Mic!Cardinality(MicRuns)
           Meets(met, m) == met = [n \in 0 .. m |-> IF n = 0 THEN Mic!FirstRows ELSE Mic!Noted(met[n - 1], order[n])]
           Stuck == {m \in 0 .. N : ~(\E met : Meets(met, m))}
<1>1. N \in Nat
    BY FS_CardinalityType, MicSizes DEF Mic!StartsAssumption
<1>2. Stuck = {}
    <2>1. SUFFICES ASSUME Stuck # {}
                   PROVE  FALSE
        OBVIOUS
    <2>2. PICK m \in Stuck : \A y \in Stuck : m <= y
        <3>1. Stuck \in SUBSET Nat
            BY <1>1
        <3> HIDE DEF Stuck
        <3> QED
            BY <2>1, <3>1, Least
    <2>3. m \in 0 .. N /\ ~(\E met : Meets(met, m))
        OBVIOUS
    <2>4. CASE m = 0
        <3> DEFINE met == [n \in 0 .. 0 |-> Mic!FirstRows]
        <3>1. Meets(met, 0)
            OBVIOUS
        <3> QED
            BY <2>3, <2>4, <3>1
    <2>5. CASE m # 0
        <3>1. m - 1 \in 0 .. N /\ m - 1 < m /\ m \in Nat
            BY <1>1, <2>3, <2>5
        <3>2. PICK met : Meets(met, m - 1)
            BY <2>2, <3>1
        <3> DEFINE more == [n \in 0 .. m |-> IF n < m THEN met[n] ELSE Mic!Noted(met[m - 1], order[m])]
        <3>3. ASSUME NEW n \in 0 .. m
              PROVE  more[n] = IF n = 0 THEN Mic!FirstRows ELSE Mic!Noted(more[n - 1], order[n])
            <4>1. CASE n < m
                <5>1. n \in 0 .. m - 1 /\ more[n] = met[n] /\ (n # 0 => n - 1 \in 0 .. m /\ more[n - 1] = met[n - 1])
                    BY <3>1, <4>1
                <5>2. met[n] = IF n = 0 THEN Mic!FirstRows ELSE Mic!Noted(met[n - 1], order[n])
                    BY <3>2, <5>1
                <5> QED
                    BY <5>1, <5>2
            <4>2. CASE n = m
                <5>1. more[m] = Mic!Noted(met[m - 1], order[m]) /\ m - 1 \in 0 .. m /\ more[m - 1] = met[m - 1]
                    BY <3>1, <4>2
                <5> QED
                    BY <2>5, <4>2, <5>1
            <4> QED
                BY <3>1, <4>1, <4>2
        <3>4. more = [n \in 0 .. m |-> more[n]]
            OBVIOUS
        <3> HIDE DEF more
        <3>5. Meets(more, m)
            BY <3>3, <3>4
        <3> QED
            BY <2>3, <3>5
    <2> QED
        BY <2>4, <2>5
<1>3. \E met : Meets(met, N)
    BY <1>1, <1>2
<1> DEFINE met == CHOOSE met : Meets(met, N)
<1>4. Meets(met, N)
    BY <1>3
<1>5. Mic!Latest(order) = met[N]
    BY Zenon DEF Mic!Latest
<1> HIDE DEF met
<1>6. /\ met[0] = Mic!FirstRows
      /\ \A n \in 1 .. N : met[n] = Mic!Noted(met[n - 1], order[n])
    BY <1>1, <1>4
<1>7. QED
    BY <1>5, <1>6

\* The first entry of a case is none, or its newest listed failure.
LEMMA MicFirst ==
    ASSUME Mic!StartsAssumption, NEW k \in Mic!Keys
    PROVE  \/ Mic!FirstRows[k] = [run |-> 0, status |-> "none"]
           \/ \E r \in MicRuns : /\ Mic!FirstRows[k] = [run |-> r, status |-> "fail"]
                                 /\ <<r, k[1]>> \in micIndex /\ PrOf[r] = k[2]
<1> DEFINE failed == {r \in MicRuns : <<r, k[1]>> \in micIndex /\ PrOf[r] = k[2]}
           latest == CHOOSE r \in failed : \A q \in failed : q <= r
<1>1. Mic!FirstRows[k] = IF failed = {} THEN [run |-> 0, status |-> "none"] ELSE [run |-> latest, status |-> "fail"]
    BY DEF Mic!FirstRows
<1>2. ASSUME failed # {}
      PROVE  latest \in failed
    <2>1. failed \in SUBSET Nat /\ IsFiniteSet(failed)
        BY FS_Subset, MicSizes DEF Mic!StartsAssumption
    <2>2. \E m \in failed : \A q \in failed : q <= m
        BY <1>2, <2>1, FiniteGreatest
    <2> QED
        BY <2>2
<1> HIDE DEF latest
<1>3. QED
    BY <1>1, <1>2

\* Whatever the order, the last entry of a case is no older than any record of it.
LEMMA MicNewest ==
    ASSUME Mic!StartsAssumption, NEW order \in Mic!Orders, NEW k \in Mic!Keys
    PROVE  /\ \A r \in MicRuns : Mic!Says(r, k) # "nothing" => r <= Mic!Latest(order)[k].run
           /\ \/ Mic!Latest(order)[k] = Mic!FirstRows[k]
              \/ \E r \in MicRuns : /\ Mic!Latest(order)[k] = [run |-> r, status |-> Mic!Says(r, k)]
                                    /\ Mic!Says(r, k) # "nothing"
<1> DEFINE N == Mic!Cardinality(MicRuns)
<1>1. PICK met :
         /\ met[0] = Mic!FirstRows /\ Mic!Latest(order) = met[N]
         /\ \A n \in 1 .. N : met[n] = Mic!Noted(met[n - 1], order[n])
    BY MicLatest
<1>2. N \in Nat
    BY FS_CardinalityType, MicSizes DEF Mic!StartsAssumption
<1>3. \A n \in 1 .. N : order[n] \in MicRuns
    BY DEF Mic!Orders
<1>4. \A r \in MicRuns : r \in Nat \ {0} /\ \E n \in 1 .. N : order[n] = r
    BY DEF Mic!Orders, Mic!StartsAssumption
<1> HIDE DEF N
<1> DEFINE Of(e) == \/ e = Mic!FirstRows[k]
                    \/ \E r \in MicRuns : e = [run |-> r, status |-> Mic!Says(r, k)] /\ Mic!Says(r, k) # "nothing"
           Ahead(n) == /\ \A m \in 1 .. n : Mic!Says(order[m], k) # "nothing" => order[m] <= met[n][k].run
                       /\ Of(met[n][k])
           Behind == {n \in 0 .. N : ~Ahead(n)}
<1>5. \A e : Of(e) => e.run \in Nat
    <2>1. Mic!FirstRows[k].run \in Nat
        <3>1. CASE Mic!FirstRows[k] = [run |-> 0, status |-> "none"]
            BY <3>1
        <3>2. CASE \E r \in MicRuns : Mic!FirstRows[k] = [run |-> r, status |-> "fail"]
            BY <1>4, <3>2
        <3> QED
            BY <3>1, <3>2, MicFirst
    <2>2. \A r \in MicRuns : [run |-> r, status |-> Mic!Says(r, k)].run \in Nat
        BY <1>4
    <2> QED
        BY <2>1, <2>2
<1>6. Behind = {}
    <2>1. SUFFICES ASSUME Behind # {}
                   PROVE  FALSE
        OBVIOUS
    <2>2. PICK n \in Behind : \A y \in Behind : n <= y
        <3>1. Behind \in SUBSET Nat
            BY <1>2
        <3> HIDE DEF Behind
        <3> QED
            BY <2>1, <3>1, Least
    <2>3. n \in 0 .. N /\ ~Ahead(n)
        OBVIOUS
    <2>4. CASE n = 0
        <3>1. 1 .. 0 = {}
            OBVIOUS
        <3> QED
            BY <1>1, <2>3, <2>4, <3>1
    <2>5. CASE n # 0
        <3>1. n - 1 \in 0 .. N /\ n - 1 < n /\ n \in 1 .. N
            BY <1>2, <2>3, <2>5
        <3>2. Ahead(n - 1)
            BY <2>2, <3>1
        <3> DEFINE r == order[n]
                   old == met[n - 1][k]
        <3>3. met[n][k] = IF Mic!Says(r, k) # "nothing" /\ r > old.run
                          THEN [run |-> r, status |-> Mic!Says(r, k)] ELSE old
            <4>1. \A latest, q : Mic!Noted(latest, q)[k] =
                     IF Mic!Says(q, k) # "nothing" /\ q > latest[k].run
                     THEN [run |-> q, status |-> Mic!Says(q, k)] ELSE latest[k]
                BY DEF Mic!Noted, Mic!Newer
            <4>2. met[n] = Mic!Noted(met[n - 1], order[n])
                BY <1>1, <3>1
            <4> QED
                BY <4>1, <4>2
        <3>4. r \in MicRuns /\ r \in Nat /\ Of(old) /\ old.run \in Nat
            BY <1>3, <1>4, <1>5, <3>1, <3>2
        <3>5. \A m \in 1 .. n - 1 : Mic!Says(order[m], k) # "nothing" => order[m] <= old.run
            BY <3>2
        <3>6. \A m \in 1 .. n : m = n \/ m \in 1 .. n - 1
            BY <3>1
        <3>7. \A m \in 1 .. n - 1 : order[m] \in Nat
            <4>1. \A m \in 1 .. n - 1 : m \in 1 .. N
                BY <1>2, <3>1
            <4> QED
                BY <1>3, <1>4, <4>1
        <3> HIDE DEF r, old, Of
        <3>8. CASE Mic!Says(r, k) # "nothing" /\ r > old.run
            <4>1. met[n][k].run = r /\ met[n][k] = [run |-> r, status |-> Mic!Says(r, k)]
                BY <3>3, <3>8
            <4>2. Of(met[n][k])
                BY <3>4, <3>8, <4>1 DEF Of
            <4>3. ASSUME NEW m \in 1 .. n, Mic!Says(order[m], k) # "nothing"
                  PROVE  order[m] <= r
                <5>1. CASE m = n
                    BY <3>4, <5>1 DEF r
                <5>2. CASE m \in 1 .. n - 1
                    <6>1. order[m] \in Nat /\ order[m] <= old.run
                        BY <3>5, <3>7, <4>3, <5>2
                    <6> QED
                        BY <3>4, <3>8, <6>1
                <5> QED
                    BY <3>6, <5>1, <5>2
            <4> QED
                BY <2>3, <4>1, <4>2, <4>3
        <3>9. CASE ~(Mic!Says(r, k) # "nothing" /\ r > old.run)
            <4>1. met[n][k] = old
                BY <3>3, <3>9
            <4>2. ASSUME NEW m \in 1 .. n, Mic!Says(order[m], k) # "nothing"
                  PROVE  order[m] <= old.run
                <5>1. CASE m = n
                    <6>1. ~(r > old.run)
                        BY <3>9, <4>2, <5>1 DEF r
                    <6>2. r <= old.run
                        BY <3>4, <6>1
                    <6> QED
                        BY <5>1, <6>2 DEF r
                <5>2. CASE m \in 1 .. n - 1
                    BY <3>5, <4>2, <5>2
                <5> QED
                    BY <3>6, <5>1, <5>2
            <4> QED
                BY <2>3, <3>4, <4>1, <4>2
        <3> QED
            BY <3>8, <3>9
    <2> QED
        BY <2>4, <2>5
<1>7. Ahead(N)
    BY <1>2, <1>6
<1>8. QED
    BY <1>1, <1>4, <1>7

\* A setup never passes, and a job whose setup did not fail ran every check.
LEMMA MicOutcomes ==
    ASSUME Mic!StartsAssumption, NEW of \in Mic!Outcomes \union {Mic!NotRun.of}
    PROVE  /\ of \in [Mic!Items -> {"pass", "fail", "absent"}] /\ of["setup"] # "pass"
           /\ of["setup"] # "absent" \/ of = Mic!NotRun.of \/ \A c \in Checks : of[c] # "absent"
BY DEF Mic!Outcomes, Mic!NotRun, Mic!Items, Mic!StartsAssumption

\* Jobs, their spans, the rows stored and the series published only add to what a build
\* and a page rest on.
LEMMA MicAdded ==
    ASSUME Mic!StartsAssumption, Mic!Recorded, Mic!TypeOK', UNCHANGED <<micPc, micIndex, micTotals, micLoaded, micPage>>,
           \A r \in MicRuns :
              /\ micArrived[r] # {} => micOutcome'[r] = micOutcome[r]
              /\ micArrived[r] \subseteq micArrived'[r] /\ micArrived'[r] \subseteq Mic!Present(r)'
              /\ \/ micPublished'[r] = micPublished[r]
                 \/ micArrived'[r] # {} /\ micPublished'[r] # "no" /\ micPublished[r] # "totals"
              /\ \A i \in Mic!Items :
                    /\ (micMain'[r][i] # "none" => i \in micArrived'[r]) /\ (micMain'[r][i] = "full" => micOutcome'[r].emits)
                    /\ (mic'[r][i] # "none" => i \in micArrived'[r]) /\ (mic'[r][i] = "full" => micOutcome'[r].emits)
                    /\ mic[r][i] = "full" => mic'[r][i] = "full"
    PROVE  Mic!Recorded'
<1>1. /\ Mic!TypeOK /\ Mic!RecordsTrue /\ Mic!FoundTrue
      /\ \A k \in DOMAIN micPage : micPage[k].status = "pass" => Mic!ClearedOnFile(k) /\ Mic!ClearedFound(k)
    BY DEF Mic!Recorded
<1>2. ASSUME NEW r \in MicRuns
      PROVE  /\ micPublished[r] # "no" => micArrived[r] # {} /\ micOutcome'[r] = micOutcome[r]
             /\ micPublished[r] # "no" => micPublished'[r] # "no"
             /\ micPublished[r] = "totals" => micPublished'[r] = "totals"
             /\ micPublished'[r] # "no" => micArrived'[r] # {}
    BY <1>1 DEF Mic!RecordsTrue
<1>3. ASSUME NEW r \in MicRuns, NEW i \in Mic!Items
      PROVE  /\ micLoaded'[r][i] # "none" => i \in micArrived'[r]
             /\ micLoaded'[r][i] = "full" => micOutcome'[r].emits /\ mic'[r][i] = "full"
    BY <1>1 DEF Mic!RecordsTrue, Mic!RowTrue
<1>4. Mic!RecordsTrue'
    BY <1>2, <1>3 DEF Mic!RecordsTrue, Mic!RowTrue
<1>5. Mic!FailureIndex \subseteq Mic!FailureIndex' /\ Mic!RunTotals \subseteq Mic!RunTotals'
    <2>1. ASSUME NEW f \in Mic!FailureIndex
          PROVE  f \in Mic!FailureIndex'
        <3>1. /\ f[1] \in MicRuns /\ f[2] \in Mic!Items /\ micPublished[f[1]] # "no" /\ f[2] \in micArrived[f[1]]
              /\ micOutcome[f[1]].of[f[2]] = "fail" /\ f \in MicRuns \X Mic!Items
            BY DEF Mic!FailureIndex, Mic!Fails
        <3>2. micOutcome'[f[1]].of[f[2]] = "fail" /\ micPublished'[f[1]] # "no" /\ f[2] \in micArrived'[f[1]]
            BY <1>2, <3>1
        <3> QED
            BY <3>1, <3>2 DEF Mic!FailureIndex, Mic!Fails
    <2>2. Mic!RunTotals \subseteq Mic!RunTotals'
        BY <1>2 DEF Mic!RunTotals
    <2> QED
        BY <2>1, <2>2
<1>6. Mic!FoundTrue'
    BY <1>1, <1>5 DEF Mic!FoundTrue, Mic!Nothing
<1>7. ASSUME NEW k \in DOMAIN micPage, micPage[k].status = "pass"
      PROVE  Mic!ClearedOnFile(k)' /\ Mic!ClearedFound(k)'
    <2>1. Mic!ClearedOnFile(k) /\ Mic!ClearedFound(k)
        BY <1>1, <1>7
    <2>2. PICK r : r = micPage[k].run
        OBVIOUS
    <2>3. r \in MicRuns /\ micPublished[r] # "no"
        BY <2>1, <2>2 DEF Mic!ClearedOnFile, Mic!FailureIndex
    <2>4. micOutcome'[r] = micOutcome[r]
        BY <1>2, <2>3
    <2>5. Mic!Clearing(k)' = Mic!Clearing(k) /\ Mic!Clearing(k) \subseteq Mic!Items
        BY <2>1, <2>2, <2>4 DEF Mic!Clearing, Mic!Present, Mic!ClearedOnFile
    <2>6. Mic!ClearedOnFile(k)'
        BY <1>2, <1>5, <2>1, <2>2, <2>3, <2>4, <2>5 DEF Mic!ClearedOnFile
    <2>7. Mic!ClearedFound(k)'
        BY <2>1, <2>5 DEF Mic!ClearedFound, Mic!Listed
    <2> QED
        BY <2>6, <2>7
<1>8. QED
    BY <1>4, <1>6, <1>7 DEF Mic!Recorded

\* The jobs, their spans and the metrics change nothing a page rests on.
LEMMA MicJobsRecorded ==
    ASSUME Mic!StartsAssumption, Mic!Recorded, NEW q \in MicRuns,
           \/ Mic!JobRuns(q) \/ Mic!Publish(q) \/ Mic!MissExpires(q) \/ Mic!PrCloses(PrOf[q])
           \/ \E i \in Mic!Items : Mic!SpanArrives(q, i)
    PROVE  Mic!Recorded'
<1>1. Mic!TypeOK /\ Mic!RecordsTrue /\ UNCHANGED <<micMain, mic, micPc, micIndex, micTotals, micLoaded, micPage>>
    BY DEF Mic!Recorded, Mic!JobRuns, Mic!Publish, Mic!MissExpires, Mic!PrCloses, Mic!SpanArrives, Mic!storeVars,
           Mic!buildVars
<1>2. ASSUME NEW r \in MicRuns
      PROVE  /\ micArrived[r] \subseteq Mic!Present(r)
             /\ \A i \in Mic!Items :
                   /\ (micMain[r][i] # "none" => i \in micArrived[r]) /\ (micMain[r][i] = "full" => micOutcome[r].emits)
                   /\ (mic[r][i] # "none" => i \in micArrived[r]) /\ (mic[r][i] = "full" => micOutcome[r].emits)
             /\ micPublished[r] # "no" => micArrived[r] # {}
    BY <1>1 DEF Mic!RecordsTrue, Mic!RowTrue
<1>3. CASE Mic!JobRuns(q)
    <2>1. PICK emits \in {TRUE} \union {q \notin Older}, of \in Mic!Outcomes :
             micOutcome' = [micOutcome EXCEPT ![q] = [emits |-> emits, of |-> of]]
        BY <1>3 DEF Mic!JobRuns
    <2>2. emits \in BOOLEAN
        BY <2>1, Zenon
    <2>3. UNCHANGED <<micArrived, micPublished>> /\ micOutcome[q] = Mic!NotRun
        BY <1>3 DEF Mic!JobRuns
    <2>4. Mic!TypeOK'
        BY <1>1, <2>1, <2>2, <2>3 DEF Mic!TypeOK
    <2>5. micArrived[q] = {}
        BY <1>2, <2>3 DEF Mic!Present, Mic!NotRun
    <2>6. \A r \in MicRuns : r # q => micOutcome'[r] = micOutcome[r]
        BY <1>1, <2>1 DEF Mic!TypeOK
    <2>7. \A r \in MicRuns : r # q => Mic!Present(r)' = Mic!Present(r)
        BY <2>6 DEF Mic!Present
    <2>8. \A i \in Mic!Items : micMain[q][i] = "none" /\ mic[q][i] = "none"
        BY <1>2, <2>5
    <2> QED
        BY <1>1, <1>2, <2>3, <2>4, <2>5, <2>6, <2>7, <2>8, MicAdded
<1>4. CASE Mic!Publish(q)
    <2>1. /\ UNCHANGED <<micOutcome, micArrived>> /\ micArrived[q] # {}
          /\ \/ micPublished[q] = "no" /\ micPublished' = [micPublished EXCEPT ![q] = "failures"]
             \/ micPublished[q] = "failures" /\ micPublished' = [micPublished EXCEPT ![q] = "totals"]
        BY <1>4 DEF Mic!Publish
    <2>2. Mic!TypeOK'
        BY <1>1, <2>1 DEF Mic!TypeOK
    <2>3. \A r \in MicRuns :
             \/ micPublished'[r] = micPublished[r]
             \/ micArrived'[r] # {} /\ micPublished'[r] # "no" /\ micPublished[r] # "totals"
        BY <1>1, <2>1 DEF Mic!TypeOK
    <2>4. \A r \in MicRuns : Mic!Present(r)' = Mic!Present(r)
        BY <2>1 DEF Mic!Present
    <2> QED
        BY <1>1, <1>2, <2>1, <2>2, <2>3, <2>4, MicAdded
<1>5. CASE Mic!MissExpires(q) \/ Mic!PrCloses(PrOf[q])
    <2>1. UNCHANGED <<micOutcome, micArrived, micPublished>>
        BY <1>5 DEF Mic!MissExpires, Mic!PrCloses
    <2>2. Mic!TypeOK'
        BY <1>1, <2>1 DEF Mic!TypeOK
    <2>4. \A r \in MicRuns : Mic!Present(r)' = Mic!Present(r)
        BY <2>1 DEF Mic!Present
    <2> QED
        BY <1>1, <1>2, <2>1, <2>2, <2>4, MicAdded
<1>6. ASSUME NEW i \in Mic!Items, Mic!SpanArrives(q, i)
      PROVE  Mic!Recorded'
    <2>1. /\ i \in Mic!Present(q) /\ UNCHANGED <<micOutcome, micPublished>>
          /\ micArrived' = [micArrived EXCEPT ![q] = @ \union {i}]
        BY <1>6 DEF Mic!SpanArrives
    <2>2. Mic!TypeOK'
        BY <1>1, <2>1 DEF Mic!TypeOK
    <2>3. \A r \in MicRuns : micArrived'[r] = micArrived[r] \/ (r = q /\ micArrived'[r] = micArrived[r] \union {i})
        BY <1>1, <2>1 DEF Mic!TypeOK
    <2>4. \A r \in MicRuns : Mic!Present(r)' = Mic!Present(r)
        BY <2>1 DEF Mic!Present
    <2>5. \A r \in MicRuns : micArrived[r] \subseteq micArrived'[r] /\ micArrived'[r] \subseteq Mic!Present(r)'
        BY <1>2, <2>1, <2>3, <2>4
    <2> QED
        BY <1>1, <1>2, <2>1, <2>2, <2>5, MicAdded
<1>7. QED
    BY <1>3, <1>4, <1>5, <1>6

\* What is on file stays whole (WithDetail).
LEMMA MicDetail ==
    ASSUME NEW old \in {"none", "bare", "full"}, NEW row \in {"none", "bare", "full"}
    PROVE  /\ Mic!WithDetail(old, row) \in {"none", "bare", "full"}
           /\ Mic!WithDetail(old, row) = "full" <=> (old = "full" \/ row = "full")
           /\ Mic!WithDetail(old, row) # "none" => old # "none" \/ row # "none"
BY DEF Mic!WithDetail

\* Rows are stored of spans that arrived, and none loses its detail.
LEMMA MicPersistRecorded ==
    ASSUME Mic!StartsAssumption, Mic!Recorded, NEW q \in MicRuns, Mic!PersistRows(q)
    PROVE  Mic!Recorded'
<1>1. Mic!TypeOK /\ Mic!RecordsTrue
    BY DEF Mic!Recorded
<1>2. PICK shaped \in {"bare"} \union IF micOutcome[q].emits THEN {"full"} ELSE {} :
         LET rows == [i \in Mic!Items |-> IF i \in micArrived[q] THEN shaped ELSE micMain[q][i]] IN
         /\ micMain' = [micMain EXCEPT ![q] = rows]
         /\ IF rows # micMain[q] \/ mic[q] = Mic!Nothing THEN mic' = Mic!PersistedMic(rows, q) ELSE UNCHANGED mic
         /\ UNCHANGED <<micOutcome, micClosed, micArrived, micPublished, micMisses, micPc, micIndex, micTotals, micLoaded,
                        micPage>>
    BY DEF Mic!PersistRows, Mic!buildVars
<1> DEFINE rows == [i \in Mic!Items |-> IF i \in micArrived[q] THEN shaped ELSE micMain[q][i]]
<1>3. shaped \in {"bare", "full"} /\ (shaped = "full" => micOutcome[q].emits)
    BY <1>2
<1>4. \A r \in MicRuns : \A i \in Mic!Items :
         /\ (micMain[r][i] # "none" => i \in micArrived[r]) /\ (micMain[r][i] = "full" => micOutcome[r].emits)
         /\ (mic[r][i] # "none" => i \in micArrived[r]) /\ (mic[r][i] = "full" => micOutcome[r].emits)
         /\ micMain[r][i] \in {"none", "bare", "full"} /\ mic[r][i] \in {"none", "bare", "full"}
    BY <1>1 DEF Mic!RecordsTrue, Mic!RowTrue, Mic!TypeOK, Mic!Details
<1>5. \A i \in Mic!Items :
         /\ rows[i] \in {"none", "bare", "full"} /\ (rows[i] # "none" => i \in micArrived[q])
         /\ rows[i] = "full" => micOutcome[q].emits
    BY <1>3, <1>4
<1>6. rows \in [Mic!Items -> {"none", "bare", "full"}]
    BY <1>5
<1>7. micMain' = [micMain EXCEPT ![q] = rows] /\ (mic' = Mic!PersistedMic(rows, q) \/ mic' = mic)
    BY <1>2
<1> HIDE DEF rows
<1>8. ASSUME NEW i \in Mic!Items
      PROVE  /\ Mic!WithDetail(mic[q][i], rows[i]) \in {"none", "bare", "full"}
             /\ Mic!WithDetail(mic[q][i], rows[i]) # "none" => i \in micArrived[q]
             /\ Mic!WithDetail(mic[q][i], rows[i]) = "full" => micOutcome[q].emits
             /\ mic[q][i] = "full" => Mic!WithDetail(mic[q][i], rows[i]) = "full"
    BY <1>4, <1>5, MicDetail
<1>9. micMain' \in Mic!Details /\ \A r \in MicRuns : \A i \in Mic!Items :
         micMain'[r][i] = IF r = q THEN rows[i] ELSE micMain[r][i]
    BY <1>1, <1>6, <1>7 DEF Mic!TypeOK, Mic!Details
<1>10. mic' \in Mic!Details /\ \A r \in MicRuns : \A i \in Mic!Items :
         mic'[r][i] = mic[r][i] \/ (r = q /\ mic'[r][i] = Mic!WithDetail(mic[q][i], rows[i]))
    <2>1. mic \in [MicRuns -> [Mic!Items -> {"none", "bare", "full"}]]
        BY <1>1 DEF Mic!TypeOK, Mic!Details
    <2>2. CASE mic' = mic
        BY <2>1, <2>2 DEF Mic!Details
    <2>3. CASE mic' = Mic!PersistedMic(rows, q)
        <3> DEFINE row == [i \in Mic!Items |-> Mic!WithDetail(mic[q][i], rows[i])]
        <3>1. row \in [Mic!Items -> {"none", "bare", "full"}]
            BY <1>8
        <3>2. mic' = [mic EXCEPT ![q] = row]
            BY <2>3 DEF Mic!PersistedMic
        <3>3. \A i \in Mic!Items : row[i] = Mic!WithDetail(mic[q][i], rows[i])
            OBVIOUS
        <3> HIDE DEF row
        <3>4. \A r \in MicRuns : mic'[r] = IF r = q THEN row ELSE mic[r]
            BY <2>1, <3>2
        <3> QED
            BY <2>1, <3>1, <3>2, <3>3, <3>4 DEF Mic!Details
    <2> QED
        BY <1>7, <2>2, <2>3
<1>11. Mic!TypeOK'
    BY <1>1, <1>2, <1>9, <1>10 DEF Mic!TypeOK
<1>12. \A r \in MicRuns : micArrived'[r] \subseteq Mic!Present(r)'
    BY <1>1, <1>2 DEF Mic!RecordsTrue, Mic!Present
<1>13. \A r \in MicRuns : \A i \in Mic!Items :
          /\ (micMain'[r][i] # "none" => i \in micArrived'[r]) /\ (micMain'[r][i] = "full" => micOutcome'[r].emits)
          /\ (mic'[r][i] # "none" => i \in micArrived'[r]) /\ (mic'[r][i] = "full" => micOutcome'[r].emits)
          /\ mic[r][i] = "full" => mic'[r][i] = "full"
    BY <1>2, <1>4, <1>5, <1>8, <1>9, <1>10
<1>14. UNCHANGED <<micOutcome, micArrived, micPublished, micPc, micIndex, micTotals, micLoaded, micPage>>
    BY <1>2
<1>15. QED
    BY <1>11, <1>12, <1>13, <1>14, MicAdded

\* A query finds what cleared a case whenever it finds the case.
LEMMA MicQueryRecorded ==
    ASSUME Mic!StartsAssumption, Mic!Recorded, NEW known \in BOOLEAN, Mic!Query(known)
    PROVE  Mic!Recorded'
<1>1. /\ micPc = "idle" /\ micPc' = "load" /\ micTotals' = Mic!RunTotals
      /\ micIndex' = {f \in Mic!FailureIndex : f[1] \in Mic!Kept(known)}
      /\ UNCHANGED <<micOutcome, micClosed, micArrived, micMain, mic, micPublished, micLoaded, micPage>>
    BY DEF Mic!Query, Mic!storeVars
<1>2. Mic!TypeOK /\ Mic!RecordsTrue /\ Mic!FoundTrue
    BY DEF Mic!Recorded
<1>3. Mic!TypeOK' /\ Mic!RecordsTrue'
    BY <1>1, <1>2 DEF Mic!TypeOK, Mic!RecordsTrue, Mic!RowTrue, Mic!Present, Mic!FailureIndex, Mic!RunTotals
<1>4. Mic!FailureIndex' = Mic!FailureIndex /\ Mic!RunTotals' = Mic!RunTotals
    BY <1>1 DEF Mic!FailureIndex, Mic!RunTotals, Mic!Fails
<1>5. \A r \in MicRuns : \A i \in Mic!Items : <<r, i>> \in Mic!FailureIndex /\ r \in Mic!Kept(known) => <<r, i>> \in micIndex'
    BY <1>1
<1>6. Mic!FoundTrue'
    <2>1. micIndex' \subseteq Mic!FailureIndex' /\ micTotals' \subseteq Mic!RunTotals'
        BY <1>1, <1>4
    <2>2. \A r \in MicRuns : micLoaded'[r] = Mic!Nothing
        BY <1>1, <1>2 DEF Mic!FoundTrue
    <2> QED
        BY <2>1, <2>2 DEF Mic!FoundTrue, Mic!Nothing
<1>7. ASSUME NEW k \in DOMAIN micPage, micPage[k].status = "pass"
      PROVE  Mic!ClearedOnFile(k)' /\ Mic!ClearedFound(k)'
    <2>1. Mic!ClearedOnFile(k)
        BY <1>7 DEF Mic!Recorded
    <2>2. Mic!ClearedOnFile(k)'
        BY <1>1, <1>4, <2>1 DEF Mic!ClearedOnFile, Mic!Clearing, Mic!Present
    <2>3. PICK r : r = micPage[k].run
        OBVIOUS
    <2>4. ASSUME k \in Mic!Listed'
          PROVE  r \in micTotals' \/ (k[1] # "setup" /\ \E i \in Mic!Items : <<r, i>> \in micIndex')
        <3>1. PICK f \in micIndex' : k = <<f[2], PrOf[f[1]]>>
            BY <2>4 DEF Mic!Listed, Mic!KeyOf
        <3>2. f[1] \in Mic!Kept(known) /\ PrOf[r] = PrOf[f[1]] /\ r \in MicRuns
            BY <1>1, <2>1, <2>3, <3>1 DEF Mic!ClearedOnFile
        <3>3. r \in Mic!Kept(known)
            BY <3>2 DEF Mic!Kept
        <3>4. micPublished[r] = "totals" \/ (k[1] # "setup" /\ \E i \in Mic!Items : <<r, i>> \in Mic!FailureIndex)
            BY <2>1, <2>3 DEF Mic!ClearedOnFile
        <3> QED
            BY <1>1, <1>5, <3>2, <3>3, <3>4 DEF Mic!RunTotals
    <2>5. Mic!ClearedFound(k)'
        BY <1>1, <2>3, <2>4 DEF Mic!ClearedFound
    <2> QED
        BY <2>2, <2>5
<1>8. QED
    BY <1>1, <1>3, <1>6, <1>7 DEF Mic!Recorded

\* The rows a build reads of what it found are those on file.
LEMMA MicLoadRecorded ==
    ASSUME Mic!StartsAssumption, Mic!Recorded, Mic!LoadRows
    PROVE  Mic!Recorded'
<1>1. /\ micPc = "load" /\ micPc' = "recover"
      /\ micLoaded' = [r \in MicRuns |-> IF r \in micTotals \/ \E i \in Mic!Items : <<r, i>> \in micIndex
                                         THEN mic[r] ELSE Mic!Nothing]
      /\ UNCHANGED <<micOutcome, micClosed, micArrived, micMain, mic, micPublished, micIndex, micTotals, micPage>>
    BY DEF Mic!LoadRows, Mic!storeVars
<1>2. Mic!TypeOK /\ Mic!RecordsTrue /\ Mic!FoundTrue
    BY DEF Mic!Recorded
<1>3. Mic!Nothing \in [Mic!Items -> {"none", "bare", "full"}] /\ \A i \in Mic!Items : Mic!Nothing[i] = "none"
    BY DEF Mic!Nothing
<1>4. micLoaded' \in Mic!Details
    BY <1>1, <1>2, <1>3 DEF Mic!TypeOK, Mic!Details
<1>5. Mic!TypeOK'
    BY <1>1, <1>2, <1>4 DEF Mic!TypeOK
<1>6. \A r \in MicRuns : micLoaded'[r] = mic[r] \/ micLoaded'[r] = Mic!Nothing
    BY <1>1
<1>7. \A r \in MicRuns : \A i \in Mic!Items : micLoaded'[r][i] = mic[r][i] \/ micLoaded'[r][i] = "none"
    BY <1>3, <1>6
<1>8. Mic!RecordsTrue'
    <2>1. ASSUME NEW r \in MicRuns
          PROVE  Mic!Present(r)' = Mic!Present(r)
        BY <1>1 DEF Mic!Present
    <2>2. ASSUME NEW r \in MicRuns, NEW i \in Mic!Items
          PROVE  /\ Mic!RowTrue(micMain, r, i)' /\ Mic!RowTrue(mic, r, i)' /\ Mic!RowTrue(micLoaded, r, i)'
                 /\ micLoaded'[r][i] = "full" => mic'[r][i] = "full"
        <3>1. Mic!RowTrue(micMain, r, i) /\ Mic!RowTrue(mic, r, i)
            BY <1>2 DEF Mic!RecordsTrue
        <3>2. UNCHANGED <<micOutcome, micArrived, micMain, mic>>
            BY <1>1
        <3>3. micLoaded'[r][i] = mic[r][i] \/ micLoaded'[r][i] = "none"
            BY <1>7
        <3> QED
            BY <3>1, <3>2, <3>3 DEF Mic!RowTrue
    <2> QED
        BY <1>1, <1>2, <2>1, <2>2 DEF Mic!RecordsTrue
<1>9. Mic!FoundTrue'
    BY <1>1, <1>2 DEF Mic!FoundTrue, Mic!FailureIndex, Mic!RunTotals, Mic!Fails, Mic!Nothing
<1>10. ASSUME NEW k \in DOMAIN micPage, micPage[k].status = "pass"
       PROVE  Mic!ClearedOnFile(k)' /\ Mic!ClearedFound(k)'
    <2>1. Mic!ClearedOnFile(k) /\ Mic!ClearedFound(k)
        BY <1>10 DEF Mic!Recorded
    <2>2. Mic!ClearedOnFile(k)'
        BY <1>1, <2>1 DEF Mic!ClearedOnFile, Mic!Clearing, Mic!Present, Mic!FailureIndex, Mic!Fails
    <2>3. PICK r : r = micPage[k].run
        OBVIOUS
    <2>4. r \in MicRuns /\ Mic!Clearing(k)' = Mic!Clearing(k) /\ \A i \in Mic!Clearing(k) : mic[r][i] = "full"
        BY <1>1, <2>1, <2>3 DEF Mic!ClearedOnFile, Mic!Clearing, Mic!Present
    <2>5. ASSUME k \in Mic!Listed'
          PROVE  (k[1] = "setup" => r \in micTotals) /\ micLoaded'[r] = mic[r]
        <3>1. k \in Mic!Listed
            BY <1>1, <2>5 DEF Mic!Listed
        <3>2. r \in micTotals \/ (k[1] # "setup" /\ \E i \in Mic!Items : <<r, i>> \in micIndex)
            BY <1>1, <2>1, <2>3, <3>1 DEF Mic!ClearedFound
        <3> QED
            BY <1>1, <2>4, <3>2
    <2>6. Mic!ClearedFound(k)'
        BY <1>1, <2>3, <2>4, <2>5 DEF Mic!ClearedFound
    <2> QED
        BY <2>2, <2>6
<1>11. QED
    BY <1>1, <1>5, <1>8, <1>9, <1>10 DEF Mic!Recorded

\* What is recovered from traces is added to what was loaded and to what is on file.
LEMMA MicRecoverRecorded ==
    ASSUME Mic!StartsAssumption, Mic!Recorded, NEW answered \in SUBSET MicRuns, Mic!Recover(answered)
    PROVE  Mic!Recorded'
<1> DEFINE row(r, i) == IF r \notin answered \/ i \notin micArrived[r] THEN "none"
                        ELSE IF micOutcome[r].emits THEN "full" ELSE "bare"
           rows == [r \in MicRuns |-> [i \in Mic!Items |-> row(r, i)]]
<1>1. Mic!TypeOK /\ Mic!RecordsTrue /\ Mic!FoundTrue
    BY DEF Mic!Recorded
<1>2. /\ micPc = "recover" /\ micPc' = "show" /\ answered \subseteq Mic!Missing
      /\ micLoaded' = [r \in MicRuns |-> [i \in Mic!Items |->
             IF rows[r][i] = "none" THEN micLoaded[r][i] ELSE rows[r][i]]]
      /\ mic' = [r \in MicRuns |-> [i \in Mic!Items |-> Mic!WithDetail(mic[r][i], rows[r][i])]]
      /\ UNCHANGED <<micOutcome, micArrived, micMain, micPublished, micIndex, micTotals, micPage>>
    BY DEF Mic!Recover
<1>3. ASSUME NEW r \in MicRuns, NEW i \in Mic!Items
      PROVE  /\ micLoaded'[r][i] = IF row(r, i) = "none" THEN micLoaded[r][i] ELSE row(r, i)
             /\ mic'[r][i] = Mic!WithDetail(mic[r][i], row(r, i))
             /\ row(r, i) \in {"none", "bare", "full"}
             /\ row(r, i) # "none" => r \in answered /\ i \in micArrived[r]
             /\ row(r, i) = "full" <=> (row(r, i) # "none" /\ micOutcome[r].emits)
    BY <1>2
<1>4. ASSUME NEW r \in MicRuns, NEW i \in Mic!Items
      PROVE  /\ mic[r][i] \in {"none", "bare", "full"} /\ micLoaded[r][i] \in {"none", "bare", "full"}
             /\ (mic[r][i] # "none" => i \in micArrived[r]) /\ (mic[r][i] = "full" => micOutcome[r].emits)
             /\ (micLoaded[r][i] # "none" => i \in micArrived[r])
             /\ micLoaded[r][i] = "full" => micOutcome[r].emits /\ mic[r][i] = "full"
    BY <1>1 DEF Mic!TypeOK, Mic!Details, Mic!RecordsTrue, Mic!RowTrue
<1> HIDE DEF row
<1>5. ASSUME NEW r \in MicRuns, NEW i \in Mic!Items
      PROVE  /\ mic'[r][i] \in {"none", "bare", "full"} /\ micLoaded'[r][i] \in {"none", "bare", "full"}
             /\ (mic'[r][i] # "none" => i \in micArrived[r]) /\ (mic'[r][i] = "full" => micOutcome[r].emits)
             /\ (micLoaded'[r][i] # "none" => i \in micArrived[r])
             /\ micLoaded'[r][i] = "full" => micOutcome[r].emits /\ mic'[r][i] = "full"
             /\ mic[r][i] = "full" => mic'[r][i] = "full"
             /\ micLoaded[r][i] = "full" => micLoaded'[r][i] = "full"
    <2>1. /\ Mic!WithDetail(mic[r][i], row(r, i)) \in {"none", "bare", "full"}
          /\ Mic!WithDetail(mic[r][i], row(r, i)) = "full" <=> (mic[r][i] = "full" \/ row(r, i) = "full")
          /\ Mic!WithDetail(mic[r][i], row(r, i)) # "none" => mic[r][i] # "none" \/ row(r, i) # "none"
        BY <1>3, <1>4, MicDetail
    <2> QED
        BY <1>3, <1>4, <2>1
<1>6. mic' \in Mic!Details /\ micLoaded' \in Mic!Details
    <2>1. /\ mic' = [r \in MicRuns |-> [i \in Mic!Items |-> mic'[r][i]]]
          /\ micLoaded' = [r \in MicRuns |-> [i \in Mic!Items |-> micLoaded'[r][i]]]
        BY <1>2
    <2> QED
        BY <1>5, <2>1 DEF Mic!Details
<1>7. Mic!TypeOK'
    BY <1>1, <1>2, <1>6 DEF Mic!TypeOK
<1>8. Mic!RecordsTrue'
    <2>1. ASSUME NEW r \in MicRuns
          PROVE  Mic!Present(r)' = Mic!Present(r)
        BY <1>2 DEF Mic!Present
    <2>2. ASSUME NEW r \in MicRuns, NEW i \in Mic!Items
          PROVE  /\ Mic!RowTrue(micMain, r, i)' /\ Mic!RowTrue(mic, r, i)' /\ Mic!RowTrue(micLoaded, r, i)'
                 /\ micLoaded'[r][i] = "full" => mic'[r][i] = "full"
        BY <1>1, <1>2, <1>5 DEF Mic!RecordsTrue, Mic!RowTrue
    <2> QED
        BY <1>1, <1>2, <2>1, <2>2 DEF Mic!RecordsTrue
<1>9. Mic!FoundTrue'
    <2>1. Mic!FailureIndex' = Mic!FailureIndex /\ Mic!RunTotals' = Mic!RunTotals
        BY <1>2 DEF Mic!FailureIndex, Mic!RunTotals, Mic!Fails
    <2>2. ASSUME NEW r \in MicRuns, micLoaded'[r] # Mic!Nothing
          PROVE  r \in micTotals \/ \E i \in Mic!Items : <<r, i>> \in micIndex
        <3>1. CASE r \in answered
            BY <1>2, <3>1 DEF Mic!Missing
        <3>2. CASE r \notin answered
            <4>1. \A i \in Mic!Items : micLoaded'[r][i] = micLoaded[r][i]
                BY <1>3, <3>2 DEF row
            <4>2. micLoaded'[r] = [i \in Mic!Items |-> micLoaded'[r][i]] /\ micLoaded[r] = [i \in Mic!Items |-> micLoaded[r][i]]
                BY <1>1, <1>6 DEF Mic!TypeOK, Mic!Details
            <4>3. micLoaded'[r] = micLoaded[r]
                BY <4>1, <4>2
            <4> QED
                BY <1>1, <2>2, <4>3 DEF Mic!FoundTrue
        <3> QED
            BY <3>1, <3>2
    <2> QED
        BY <1>1, <1>2, <2>1, <2>2 DEF Mic!FoundTrue, Mic!Nothing
<1>10. ASSUME NEW k \in DOMAIN micPage, micPage[k].status = "pass"
       PROVE  Mic!ClearedOnFile(k)' /\ Mic!ClearedFound(k)'
    <2>1. Mic!ClearedOnFile(k) /\ Mic!ClearedFound(k)
        BY <1>10 DEF Mic!Recorded
    <2>2. PICK r : r = micPage[k].run
        OBVIOUS
    <2>3. /\ r \in MicRuns /\ Mic!Clearing(k)' = Mic!Clearing(k) /\ Mic!Clearing(k) \subseteq Mic!Items
          /\ \A i \in Mic!Clearing(k) : micOutcome[r].of[i] = "pass" /\ mic[r][i] = "full"
        BY <1>2, <2>1, <2>2 DEF Mic!ClearedOnFile, Mic!Clearing, Mic!Present
    <2>4. \A i \in Mic!Clearing(k) : mic'[r][i] = "full"
        BY <1>5, <2>3
    <2>5. Mic!FailureIndex' = Mic!FailureIndex
        BY <1>2 DEF Mic!FailureIndex, Mic!Fails
    <2>6. Mic!ClearedOnFile(k)'
        BY <1>2, <2>1, <2>2, <2>3, <2>4, <2>5 DEF Mic!ClearedOnFile
    <2>7. ASSUME k \in Mic!Listed'
          PROVE  (k[1] = "setup" => r \in micTotals) /\ \A i \in Mic!Clearing(k) : micLoaded'[r][i] = "full"
        <3>1. k \in Mic!Listed
            BY <1>2, <2>7 DEF Mic!Listed
        <3>2. (k[1] = "setup" => r \in micTotals) /\ \A i \in Mic!Clearing(k) : micLoaded[r][i] = "full"
            BY <1>2, <2>1, <2>2, <3>1 DEF Mic!ClearedFound
        <3> QED
            BY <1>5, <2>3, <3>2
    <2>8. Mic!ClearedFound(k)'
        BY <1>2, <2>2, <2>3, <2>7 DEF Mic!ClearedFound
    <2> QED
        BY <2>6, <2>8
<1>11. QED
    BY <1>2, <1>7, <1>8, <1>9, <1>10 DEF Mic!Recorded

\* What a page shows: a failure newer than every pass, or a run whose records pass.
LEMMA MicShown ==
    ASSUME Mic!StartsAssumption, Mic!Recorded, NEW order \in Mic!Orders, Mic!Show(order), NEW k \in DOMAIN micPage'
    PROVE  /\ k \in Mic!Listed /\ micPc = "show"
           /\ \A r \in MicRuns : Mic!Says(r, k) = "pass" /\ micPage'[k].status = "fail" => r < micPage'[k].run
           /\ micPage'[k].status = "pass" => micPage'[k].run \in MicRuns /\ Mic!Says(micPage'[k].run, k) = "pass"
<1>1. k \in Mic!Listed /\ micPc = "show" /\ micPage'[k] = Mic!Latest(order)[k]
    BY DEF Mic!Show
<1>2. Mic!TypeOK /\ Mic!FoundTrue
    BY DEF Mic!Recorded
<1>3. k \in Mic!Keys /\ k[1] \in Mic!Items
    <2>1. PICK f \in micIndex : k = <<f[2], PrOf[f[1]]>>
        BY <1>1 DEF Mic!Listed, Mic!KeyOf
    <2>2. f[1] \in MicRuns /\ f[2] \in Mic!Items
        BY <1>2 DEF Mic!TypeOK
    <2> QED
        BY <2>1, <2>2 DEF Mic!Keys
<1> DEFINE e == Mic!Latest(order)[k]
<1>4. /\ \A r \in MicRuns : Mic!Says(r, k) # "nothing" => r <= e.run
      /\ \/ e = Mic!FirstRows[k]
         \/ \E r \in MicRuns : e = [run |-> r, status |-> Mic!Says(r, k)] /\ Mic!Says(r, k) # "nothing"
    BY <1>3, MicNewest
<1>5. \/ Mic!FirstRows[k] = [run |-> 0, status |-> "none"]
      \/ \E r \in MicRuns : /\ Mic!FirstRows[k] = [run |-> r, status |-> "fail"]
                            /\ <<r, k[1]>> \in micIndex /\ PrOf[r] = k[2]
    BY <1>3, MicFirst
<1>9. e = Mic!FirstRows[k] =>
         \/ e.status = "none"
         \/ \E r \in MicRuns : e.run = r /\ e.status = "fail" /\ <<r, k[1]>> \in micIndex
    <2>1. CASE Mic!FirstRows[k] = [run |-> 0, status |-> "none"]
        BY <2>1
    <2>2. CASE \E r \in MicRuns : Mic!FirstRows[k] = [run |-> r, status |-> "fail"] /\ <<r, k[1]>> \in micIndex
        BY <2>2
    <2> QED
        BY <1>5, <2>1, <2>2
<1> HIDE DEF e
<1>6. ASSUME e.status = "fail"
      PROVE  e.run \in MicRuns /\ Mic!Says(e.run, k) # "pass"
    <2>1. CASE e = Mic!FirstRows[k]
        <3>1. PICK r \in MicRuns : e.run = r /\ <<r, k[1]>> \in micIndex
            BY <1>6, <1>9, <2>1
        <3>2. e.run = r /\ <<r, k[1]>> \in Mic!FailureIndex
            BY <1>2, <3>1 DEF Mic!FoundTrue
        <3>3. micOutcome[r].of[k[1]] = "fail" /\ k[1] \in Mic!Items
            BY <3>2 DEF Mic!FailureIndex, Mic!Fails
        <3>4. Mic!Says(r, k) # "pass"
            BY <3>3 DEF Mic!Says, Mic!Whole, Mic!Present
        <3> QED
            BY <3>2, <3>4
    <2>2. CASE \E r \in MicRuns : e = [run |-> r, status |-> Mic!Says(r, k)]
        BY <1>6, <2>2
    <2> QED
        BY <1>4, <2>1, <2>2
<1>7. ASSUME e.status = "pass"
      PROVE  e.run \in MicRuns /\ Mic!Says(e.run, k) = "pass"
    <2>1. CASE e = Mic!FirstRows[k]
        BY <1>7, <1>9, <2>1
    <2>2. CASE \E r \in MicRuns : e = [run |-> r, status |-> Mic!Says(r, k)]
        BY <1>7, <2>2
    <2> QED
        BY <1>4, <2>1, <2>2
<1>8. ASSUME NEW r \in MicRuns, Mic!Says(r, k) = "pass", e.status = "fail"
      PROVE  r < e.run
    <2>1. e.run \in MicRuns /\ r # e.run /\ r <= e.run
        BY <1>4, <1>6, <1>8
    <2>2. r \in Nat /\ e.run \in Nat
        BY <2>1 DEF Mic!StartsAssumption
    <2> QED
        BY <2>1, <2>2
<1>10. QED
    BY <1>1, <1>7, <1>8 DEF e

\* A case a page clears has the records that cleared it on file, whole.
LEMMA MicShowRecorded ==
    ASSUME Mic!StartsAssumption, Mic!Recorded, NEW order \in Mic!Orders, Mic!Show(order)
    PROVE  Mic!Recorded'
<1>1. /\ micPc' = "idle" /\ micIndex' = {} /\ micTotals' = {} /\ micLoaded' = [r \in MicRuns |-> Mic!Nothing]
      /\ UNCHANGED <<micOutcome, micArrived, micMain, mic, micPublished>>
    BY DEF Mic!Show, Mic!storeVars
<1>2. Mic!TypeOK /\ Mic!RecordsTrue /\ Mic!FoundTrue
    BY DEF Mic!Recorded
<1>3. Mic!Nothing \in [Mic!Items -> {"none", "bare", "full"}] /\ \A i \in Mic!Items : Mic!Nothing[i] = "none"
    BY DEF Mic!Nothing
<1>4. Mic!TypeOK'
    BY <1>1, <1>2, <1>3 DEF Mic!TypeOK, Mic!Details
<1>5. Mic!RecordsTrue'
    BY <1>1, <1>2, <1>3 DEF Mic!RecordsTrue, Mic!RowTrue, Mic!Present
<1>6. Mic!FoundTrue'
    BY <1>1 DEF Mic!FoundTrue, Mic!Nothing
<1>7. ASSUME NEW k \in DOMAIN micPage', micPage'[k].status = "pass"
      PROVE  Mic!ClearedOnFile(k)' /\ Mic!ClearedFound(k)'
    <2>1. PICK r : r = micPage'[k].run
        OBVIOUS
    <2>2. k \in Mic!Listed /\ r \in MicRuns /\ Mic!Says(r, k) = "pass"
        BY <1>7, <2>1, MicShown
    <2>3. k[1] \in Mic!Items
        BY <1>2, <2>2 DEF Mic!Listed, Mic!KeyOf, Mic!TypeOK
    <2>4. PrOf[r] = k[2]
        BY <2>2 DEF Mic!Says
    <2>5. micOutcome[r].of["setup"] # "pass"
        BY <1>2, <2>2, MicOutcomes DEF Mic!TypeOK
    <2>6. Mic!FailureIndex' = Mic!FailureIndex
        BY <1>1 DEF Mic!FailureIndex, Mic!Fails
    <2>7. Mic!Clearing(k)' = IF k[1] = "setup" THEN Mic!Present(r) ELSE {k[1]}
        BY <1>1, <2>1 DEF Mic!Clearing, Mic!Present
    <2>8. CASE Mic!Known(r, k[1])
        <3>1. micOutcome[r].of[k[1]] = "pass" /\ k[1] # "setup" /\ micLoaded[r][k[1]] = "full"
            BY <2>2, <2>5, <2>8 DEF Mic!Says, Mic!Known
        <3>2. mic[r][k[1]] = "full"
            BY <1>2, <2>2, <2>3, <3>1 DEF Mic!RecordsTrue
        <3>3. micLoaded[r] # Mic!Nothing
            BY <1>3, <2>3, <3>1
        <3>4. r \in micTotals \/ \E i \in Mic!Items : <<r, i>> \in micIndex
            BY <1>2, <2>2, <3>3 DEF Mic!FoundTrue
        <3>5. micPublished[r] = "totals" \/ \E i \in Mic!Items : <<r, i>> \in Mic!FailureIndex
            BY <1>2, <3>4 DEF Mic!FoundTrue, Mic!RunTotals
        <3>6. Mic!Clearing(k)' = {k[1]}
            BY <2>7, <3>1
        <3>7. Mic!ClearedOnFile(k)'
            BY <1>1, <2>1, <2>2, <2>3, <2>4, <2>6, <3>1, <3>2, <3>5, <3>6 DEF Mic!ClearedOnFile
        <3> QED
            BY <1>1, <3>7 DEF Mic!ClearedFound
    <2>9. CASE ~Mic!Known(r, k[1])
        <3>1. k[1] = "setup" /\ Mic!Whole(r)
            BY <2>2, <2>9 DEF Mic!Says
        <3>2. micPublished[r] = "totals"
            BY <1>2, <3>1 DEF Mic!Whole, Mic!FoundTrue, Mic!RunTotals
        <3>3. \A i \in Mic!Present(r) : micOutcome[r].of[i] = "pass" /\ i \in Mic!Items /\ micLoaded[r][i] = "full"
            BY <3>1 DEF Mic!Whole, Mic!Known, Mic!Present
        <3>4. \A i \in Mic!Present(r) : mic[r][i] = "full"
            BY <1>2, <2>2, <3>3 DEF Mic!RecordsTrue
        <3>5. Mic!Clearing(k)' = Mic!Present(r)
            BY <2>7, <3>1
        <3>6. Mic!ClearedOnFile(k)'
            BY <1>1, <2>1, <2>2, <2>3, <2>4, <3>2, <3>3, <3>4, <3>5 DEF Mic!ClearedOnFile
        <3> QED
            BY <1>1, <3>6 DEF Mic!ClearedFound
    <2> QED
        BY <2>8, <2>9
<1>8. QED
    BY <1>4, <1>5, <1>6, <1>7 DEF Mic!Recorded

\* What cleared a case stays on file and is found by every build that lists the case.
LEMMA MicRecordedCorrect ==
    ASSUME Mic!StartsAssumption
    PROVE  Mic!Spec => []Mic!Recorded
<1>1. Mic!Init => Mic!Recorded
    BY DEF Mic!Init, Mic!Recorded, Mic!TypeOK, Mic!Details, Mic!RecordsTrue, Mic!RowTrue, Mic!FoundTrue, Mic!NotRun,
           Mic!Nothing, Mic!Outcomes
<1>2. ASSUME Mic!Recorded, [Mic!Next]_(Mic!vars)
      PROVE  Mic!Recorded'
    <2>1. CASE UNCHANGED Mic!vars
        <3>1. UNCHANGED <<micOutcome, micArrived, micMain, mic, micPublished, micPc, micIndex, micTotals, micLoaded, micPage>>
            BY <2>1 DEF Mic!vars, Mic!storeVars, Mic!buildVars
        <3>2. Mic!TypeOK' /\ \A r \in MicRuns : Mic!Present(r)' = Mic!Present(r)
            BY <1>2, <3>1 DEF Mic!Recorded, Mic!TypeOK, Mic!Present
        <3>3. \A r \in MicRuns :
                 /\ micArrived[r] \subseteq Mic!Present(r)
                 /\ \A i \in Mic!Items :
                       /\ (micMain[r][i] # "none" => i \in micArrived[r]) /\ (micMain[r][i] = "full" => micOutcome[r].emits)
                       /\ (mic[r][i] # "none" => i \in micArrived[r]) /\ (mic[r][i] = "full" => micOutcome[r].emits)
            BY <1>2 DEF Mic!Recorded, Mic!RecordsTrue, Mic!RowTrue
        <3> QED
            BY <1>2, <3>1, <3>2, <3>3, MicAdded
    <2>2. CASE Mic!Next
        BY <1>2, <2>2, MicJobsRecorded, MicPersistRecorded, MicQueryRecorded, MicLoadRecorded, MicRecoverRecorded,
           MicShowRecorded
           DEF Mic!Next
    <2> QED
        BY <1>2, <2>1, <2>2
<1>3. QED
    BY <1>1, <1>2, PTL DEF Mic!Spec

\* What cleared a case clears it for every page that lists it.
LEMMA MicStillSays ==
    ASSUME Mic!StartsAssumption, Mic!Recorded, NEW k \in DOMAIN micPage, micPage[k].status = "pass",
           micPc = "show", k \in Mic!Listed
    PROVE  micPage[k].run \in MicRuns /\ Mic!Says(micPage[k].run, k) = "pass"
<1>1. Mic!ClearedOnFile(k) /\ Mic!ClearedFound(k) /\ Mic!TypeOK /\ Mic!RecordsTrue
    BY DEF Mic!Recorded
<1>2. PICK r : r = micPage[k].run
    OBVIOUS
<1>3. /\ r \in MicRuns /\ PrOf[r] = k[2] /\ k[1] \in Mic!Items
      /\ \A i \in Mic!Clearing(k) : micOutcome[r].of[i] = "pass" /\ micLoaded[r][i] = "full"
      /\ k[1] = "setup" => r \in micTotals
    BY <1>1, <1>2 DEF Mic!ClearedOnFile, Mic!ClearedFound
<1>4. CASE k[1] # "setup"
    BY <1>2, <1>3, <1>4 DEF Mic!Clearing, Mic!Says, Mic!Known
<1>5. CASE k[1] = "setup"
    <2>1. Mic!Clearing(k) = Mic!Present(r)
        BY <1>2, <1>5 DEF Mic!Clearing
    <2>2. micOutcome[r].of["setup"] # "pass"
        BY <1>1, <1>3, MicOutcomes DEF Mic!TypeOK
    <2>3. "setup" \notin Mic!Present(r)
        BY <1>3, <2>1, <2>2
    <2>4. \A i \in Mic!Items : micLoaded[r][i] # "none" => i \in Mic!Present(r)
        BY <1>1, <1>3 DEF Mic!RecordsTrue, Mic!RowTrue
    <2>5. ~Mic!Known(r, "setup")
        BY <1>3, <1>5, <2>3, <2>4 DEF Mic!Known
    <2>6. {i \in Mic!Items : micLoaded[r][i] # "none"} = Mic!Present(r)
        BY <1>3, <2>1, <2>4 DEF Mic!Present
    <2>7. Mic!Whole(r)
        BY <1>3, <1>5, <2>1, <2>6 DEF Mic!Whole, Mic!Known
    <2> QED
        BY <1>2, <1>3, <1>5, <2>5, <2>7 DEF Mic!Says
<1>6. QED
    BY <1>4, <1>5

\* The page changes when it is shown and at no other time.
LEMMA MicShows ==
    ASSUME [Mic!Next]_(Mic!vars), ~(UNCHANGED micPage) \/ (micPc = "show" /\ micPc' = "idle")
    PROVE  \E order \in Mic!Orders : Mic!Show(order)
BY DEF Mic!Next, Mic!vars, Mic!JobRuns, Mic!PersistRows, Mic!Publish, Mic!MissExpires, Mic!SpanArrives, Mic!PrCloses,
       Mic!Query, Mic!LoadRows, Mic!Recover, Mic!storeVars, Mic!buildVars

\* A sticky case has no later pass among the records its page is built from (mic_page.py,
\* add_history), whatever the order they are met in.
THEOREM MicStickyUntilPassedCorrect ==
    ASSUME Mic!StartsAssumption
    PROVE  Mic!Spec => Mic!StickyUntilPassed
<1>1. ASSUME Mic!Recorded, [Mic!Next]_(Mic!vars), NEW k \in DOMAIN micPage', micPc = "show", micPc' = "idle",
             micPage'[k].status = "fail", NEW r \in MicRuns, PrOf[r] = k[2], Mic!Known(r, k[1]),
             micOutcome[r].of[k[1]] = "pass"
      PROVE  r < micPage'[k].run
    <2>1. PICK order \in Mic!Orders : Mic!Show(order)
        BY <1>1, MicShows
    <2>2. Mic!Says(r, k) = "pass"
        BY <1>1 DEF Mic!Says
    <2> QED
        BY <1>1, <2>1, <2>2, MicShown
<1>2. Mic!Recorded /\ [Mic!Next]_(Mic!vars)
         => [\A k \in DOMAIN micPage' :
                micPc = "show" /\ micPc' = "idle" /\ micPage'[k].status = "fail" =>
                    \A r \in MicRuns :
                        PrOf[r] = k[2] /\ Mic!Known(r, k[1]) /\ micOutcome[r].of[k[1]] = "pass" =>
                            r < micPage'[k].run]_(Mic!vars)
    BY <1>1
<1>3. QED
    BY <1>2, MicRecordedCorrect, PTL DEF Mic!Spec, Mic!StickyUntilPassed

\* A cleared case comes back only for a newer failure (mic_page.py, _mic_trace_rows).
THEOREM MicClearedForGoodCorrect ==
    ASSUME Mic!StartsAssumption
    PROVE  Mic!Spec => Mic!ClearedForGood
<1>1. ASSUME Mic!Recorded, [Mic!Next]_(Mic!vars), NEW k \in DOMAIN micPage \intersect DOMAIN micPage',
             micPage[k].status = "pass", micPage'[k].status = "fail"
      PROVE  micPage'[k].run > micPage[k].run
    <2>1. PICK order \in Mic!Orders : Mic!Show(order)
        BY <1>1, MicShows
    <2>2. k \in Mic!Listed /\ micPc = "show"
        BY <1>1, <2>1, MicShown
    <2>3. micPage[k].run \in MicRuns /\ Mic!Says(micPage[k].run, k) = "pass"
        BY <1>1, <2>2, MicStillSays
    <2>4. micPage[k].run < micPage'[k].run
        BY <1>1, <2>1, <2>3, MicShown
    <2> QED
        BY <2>4
<1>2. Mic!Recorded /\ [Mic!Next]_(Mic!vars)
         => [\A k \in DOMAIN micPage \intersect DOMAIN micPage' :
                micPage[k].status = "pass" /\ micPage'[k].status = "fail" =>
                    micPage'[k].run > micPage[k].run]_(Mic!vars)
    BY <1>1
<1>3. QED
    BY <1>2, MicRecordedCorrect, PTL DEF Mic!Spec, Mic!ClearedForGood

-----------------------------------------------------------------------------
(* The parts together: a behaviour of the sum is one of each part            *)

LEMMA SumInit ==
    Init => /\ Discovery!Init /\ Turns!Init /\ Retention!Init /\ Scrape!Init
            /\ Deployment!Init /\ Publish!Init /\ Mic!Init
BY DEF Init

LEMMA DiscoveryStep == [Next]_vars => [Discovery!Next]_(Discovery!discoveryVars)
BY DEF Next, vars, discoveryVars, Discovery!discoveryVars, Discovery!githubVars, Discovery!cycleVars

LEMMA TurnsStep == [Next]_vars => [Turns!Next]_(Turns!turnsVars)
BY DEF Next, vars, turnsVars, Turns!turnsVars

LEMMA RetentionStep == [Next]_vars => [Retention!Next]_(Retention!retentionVars)
BY DEF Next, vars, retentionVars, Retention!retentionVars

LEMMA ScrapeStep == [Next]_vars => [Scrape!Next]_(Scrape!scrapesVars)
BY DEF Next, vars, scrapesVars, Scrape!scrapesVars

LEMMA DeployPartStep == [Next]_vars => [Deployment!Next]_(Deployment!deployVars)
BY DEF Next, vars, deployVars, Deployment!deployVars

LEMMA PublishPartStep == [Next]_vars => [Publish!Next]_(Publish!publishVars)
BY DEF Next, vars, publishVars, Publish!publishVars

LEMMA MicPartStep == [Next]_vars => [Mic!Next]_(Mic!vars)
BY DEF Next, vars, micVars, Mic!vars, Mic!storeVars, Mic!buildVars

\* Every listed run is stored (github.py, discovery), gets its turn (reconciler.py) and
\* stays forgotten (store.py, prune), for any runs, costs, delays and retention
\* within the assumptions.
THEOREM RunsSeenThroughCorrect == Spec => []RunsSeenThrough
<1>1. /\ Discovery!Spec => []Discovery!NothingSkipped
      /\ Turns!Spec => []Turns!TakeTurns
      /\ Retention!Spec => []Retention!ForgottenForGood
    BY DiscoveryNothingSkippedCorrect, TurnsTakeTurnsCorrect, RetentionForgottenForGoodCorrect,
       DiscoveryAssumption, TurnsAssumption, RetentionAssumption
<1>2. Spec => Discovery!Spec
    BY SumInit, DiscoveryStep, PTL DEF Spec, Discovery!Spec
<1>3. Spec => Turns!Spec
    BY SumInit, TurnsStep, PTL DEF Spec, Turns!Spec
<1>4. Spec => Retention!Spec
    BY SumInit, RetentionStep, PTL DEF Spec, Retention!Spec
<1>5. (Discovery!NothingSkipped /\ Turns!TakeTurns /\ Retention!ForgottenForGood) => RunsSeenThrough
    BY DEF RunsSeenThrough
<1>6. QED
    BY <1>1, <1>2, <1>3, <1>4, <1>5, PTL

\* One render at a time, each of a store no older than the last (server.py), for any
\* number of scrapes.
THEOREM OneRenderInOrderCorrect == Spec => OneRenderInOrder
<1>1. Spec => Scrape!SafetySpec
    BY SumInit, ScrapeStep, PTL DEF Spec, Scrape!SafetySpec
<1>2. QED
    BY <1>1, ScrapeOneRenderInOrderCorrect, PTL DEF OneRenderInOrder

\* A deploy that says it succeeded runs what was asked for and no code goes back
\* (deploy.py), a published trace is not lost (publish/main.py), nor a cleared case
\* (mic_page.py), for any charts, traces and jobs within the assumptions.
THEOREM NothingUndoneCorrect == Spec => NothingUndone
<1>1. /\ Deployment!Spec => Deployment!SuccessIsCurrent
      /\ Deployment!Spec => Deployment!CodeNeverBack
    BY DeploySuccessIsCurrentCorrect, DeployCodeNeverBackCorrect, ChartAssumption
<1>2. /\ Mic!Spec => Mic!StickyUntilPassed
      /\ Mic!Spec => Mic!ClearedForGood
    BY MicStickyUntilPassedCorrect, MicClearedForGoodCorrect, StartsAssumption
<1>3. Spec => Deployment!Spec
    BY SumInit, DeployPartStep, PTL DEF Spec, Deployment!Spec
<1>4. Spec => Publish!Spec
    BY SumInit, PublishPartStep, PTL DEF Spec, Publish!Spec
<1>5. Spec => Mic!Spec
    BY SumInit, MicPartStep, PTL DEF Spec, Mic!Spec
<1>6. QED
    BY <1>1, <1>2, <1>3, <1>4, <1>5, PublishTracesKeptCorrect DEF NothingUndone

=============================================================================
