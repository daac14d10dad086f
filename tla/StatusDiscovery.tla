--------------------------- MODULE StatusDiscovery ---------------------------
(***************************************************************************)
(* How ci-github-status finds runs no webhook told it of                   *)
(* (status/reconcile.py, _discover): each cycle lists the runs of every    *)
(* followed workflow created since a watermark, less an overlap, because   *)
(* GitHub may index a run some time after it created it.  The watermark is *)
(* in the database, the cycle's position is not.                           *)
(***************************************************************************)
EXTENDS Integers, FiniteSets

CONSTANTS
    Runs,           \* runs GitHub may create
    Workflows,      \* followed workflows, listed one after another
    WorkflowOf,     \* the workflow a run is of
    Overlap,        \* overlap_seconds: how much is listed again
    Grain,          \* what a listing starts from is rounded down to this
    IndexDelay,     \* how late GitHub's listings may show a run
    ListingTime,    \* how long the listings of a cycle may take
    Lookback,       \* initial_lookback_seconds, on a database without watermark
    MaxListed,      \* max_list_pages * 100: runs a listing may return
    MaxTime         \* bound on the clock

VARIABLES
    now,
    created,        \* GitHub: when each run was created, or Never
    indexed,        \* GitHub: the runs its listings show
    stored,         \* store: the runs on file
    watermark,      \* store: meta discovery_watermark, or Never
    listing,        \* whether a cycle is under way
    left,           \* the workflows it has not listed yet
    newest,         \* the newest run seen in this cycle
    since,          \* what this cycle lists from
    begun,          \* when this cycle began
    lost            \* history: runs a listing was cut short of, or older than the first

githubVars == <<created, indexed>>
cycleVars == <<listing, left, newest, since, begun>>
discoveryVars == <<now, githubVars, stored, watermark, cycleVars, lost>>

Never == 0

Minus(a, b) == IF a > b THEN a - b ELSE 0

-----------------------------------------------------------------------------
(* GitHub *)

CreateRun(r) ==
    /\ created[r] = Never
    /\ created' = [created EXCEPT ![r] = now]
    /\ UNCHANGED <<now, indexed, stored, watermark, cycleVars, lost>>

IndexRun(r) ==
    /\ created[r] # Never
    /\ indexed' = indexed \union {r}
    /\ UNCHANGED <<now, created, stored, watermark, cycleVars, lost>>

\* The two assumptions the overlap rests on: GitHub shows a run within
\* IndexDelay, and a cycle lists its workflows within ListingTime.
Tick ==
    /\ now < MaxTime
    /\ \A r \in Runs : created[r] # Never /\ created[r] + IndexDelay <= now => r \in indexed
    /\ listing => now < begun + ListingTime
    /\ now' = now + 1
    /\ UNCHANGED <<githubVars, stored, watermark, cycleVars, lost>>

\* A delivery may tell of a run first.
Delivery(r) ==
    /\ created[r] # Never
    /\ stored' = stored \union {r}
    /\ UNCHANGED <<now, githubVars, watermark, cycleVars, lost>>

-----------------------------------------------------------------------------
(* The reconciler *)

\* Mutant of Since: what was listed is not listed again.
SinceWatermark(mark) == mark

RoundedDown(t) == t - (t % Grain)

Since(mark) == RoundedDown(Minus(mark, Overlap))

BeginDiscovery ==
    /\ ~listing
    /\ LET mark == IF watermark = Never THEN Minus(now, Lookback) ELSE watermark IN
          /\ since' = Since(mark)
          /\ newest' = mark
          /\ lost' = IF watermark = Never
                     THEN lost \union {r \in Runs : created[r] # Never /\ created[r] < Since(mark)}
                     ELSE lost
    /\ listing' = TRUE
    /\ begun' = now
    /\ left' = Workflows
    /\ UNCHANGED <<now, githubVars, stored, watermark>>

Found(w) == {r \in indexed : WorkflowOf[r] = w /\ created[r] >= since}

\* The newest runs, as many as the pages hold.
Listed(w) ==
    {r \in Found(w) : Cardinality({q \in Found(w) : created[q] > created[r]}) < MaxListed}

\* One listing and the transaction that merges it.
ListWorkflow(w) ==
    /\ listing /\ w \in left
    /\ \E page \in SUBSET Listed(w) :
          /\ Cardinality(page) = IF Cardinality(Found(w)) > MaxListed THEN MaxListed
                                 ELSE Cardinality(Found(w))
          /\ \A r \in page, q \in Found(w) \ page : created[r] >= created[q]
          /\ stored' = stored \union page
          /\ lost' = lost \union (Found(w) \ page)
          /\ newest' = CHOOSE n \in {newest} \union {created[r] : r \in page} :
                           \A m \in {newest} \union {created[r] : r \in page} : n >= m
    /\ left' = left \ {w}
    /\ UNCHANGED <<now, githubVars, watermark, listing, since, begun>>

\* Mutant of MayAdvance: the watermark moves on with the first listing.
MayAdvanceEarly == listing /\ left # Workflows

\* set_meta comes after every workflow was listed.
MayAdvance == listing /\ left = {}

AdvanceWatermark ==
    /\ MayAdvance
    /\ watermark' = newest
    /\ listing' = FALSE
    /\ UNCHANGED <<now, githubVars, stored, left, newest, since, begun, lost>>

\* The budget is spent, GitHub throttles or a request fails, or the pod dies.
CycleEnds ==
    /\ listing
    /\ listing' = FALSE
    /\ UNCHANGED <<now, githubVars, stored, watermark, left, newest, since, begun, lost>>

Init ==
    /\ now = 1
    /\ created = [r \in Runs |-> Never]
    /\ indexed = {}
    /\ stored = {}
    /\ watermark = Never
    /\ listing = FALSE
    /\ left = {}
    /\ newest = 0
    /\ since = 0
    /\ begun = 0
    /\ lost = {}

Next ==
    \/ \E r \in Runs : CreateRun(r) \/ IndexRun(r) \/ Delivery(r)
    \/ \E w \in Workflows : ListWorkflow(w)
    \/ Tick \/ BeginDiscovery \/ AdvanceWatermark \/ CycleEnds

Spec == Init /\ [][Next]_discoveryVars

-----------------------------------------------------------------------------
(* Correctness *)

\* Whatever deliveries were lost and wherever cycles stopped, a run that is not
\* on file will be listed by every later cycle: the watermark never passes it.
\* Only a listing cut at its page limit, or the first start, loses runs.
NothingSkipped ==
    \A r \in Runs :
        created[r] # Never /\ r \notin stored /\ r \notin lost /\ watermark # Never
            => created[r] >= Since(watermark)

-----------------------------------------------------------------------------
(* The inductive invariant, for the proof of NothingSkipped *)

\* What is listed again covers how late GitHub's listings are and how long they take.
OverlapSuffices ==
    /\ WorkflowOf \in [Runs -> Workflows]
    /\ Overlap \in Nat /\ IndexDelay \in Nat /\ ListingTime \in Nat /\ Lookback \in Nat
    /\ Grain \in Nat \ {0}
    /\ IndexDelay + ListingTime <= Overlap

TypeOK ==
    /\ now \in Nat \ {0} /\ created \in [Runs -> 0 .. now]
    /\ indexed \subseteq Runs /\ stored \subseteq Runs /\ lost \subseteq Runs
    /\ watermark \in 0 .. now /\ newest \in 0 .. now /\ since \in Int /\ begun \in 0 .. now
    /\ listing \in BOOLEAN /\ left \subseteq Workflows

Shown ==
    \A r \in Runs : created[r] # Never /\ created[r] + IndexDelay < now => r \in indexed

Missing(r) == created[r] # Never /\ r \notin stored /\ r \notin lost

\* A cycle lists from before whatever is missing, and has found what it listed the
\* workflow of, if GitHub could show it when the cycle began.
Searching ==
    listing =>
        /\ now <= begun + ListingTime
        /\ since <= begun
        /\ \A r \in Runs : Missing(r) =>
              /\ created[r] >= since
              /\ created[r] + IndexDelay < begun => WorkflowOf[r] \in left

Searched == TypeOK /\ Shown /\ Searching /\ NothingSkipped

=============================================================================
