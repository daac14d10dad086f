---------------------------- MODULE TriageLedger ----------------------------
(***************************************************************************)
(* The nightly triage over many nights: which failures it takes up, which  *)
(* of Serge's pull requests it has closed and which it follows up          *)
(* (agentic/integration_failure_triage.py, main and the functions it calls *)
(* before it dispatches).  Pull requests are its only memory.  Maintainers *)
(* close, merge and reopen them between any two steps.                     *)
(***************************************************************************)
EXTENDS Integers, Sequences, FiniteSets, FiniteSetsExt

CONSTANTS
    Tests,          \* integration tests of one model, so of one job
    FileOf,         \* the file of each test
    Variants,       \* what a group's label adds to its fingerprint, moving from night to night
    Window,         \* --window, in nights
    MinDays,        \* --min-days
    QuietDays,      \* --stale-quiet-days
    MaxRejected,    \* --max-rejected-attempts
    OldPulls,       \* pull requests there may be at the start, [tests, fp, whole]
    MaxNights, MaxPulls, MaxTouches     \* bounds

VARIABLES
    nights,         \* nights so far
    results,        \* the newest nights of the dataset, oldest first
    pulls,          \* GitHub: Serge's pull requests by number
    phase,          \* idle, retire, dispatch
    listed,         \* recent_pulls: what the run knows of the pull requests it listed
    plan,           \* closings the run has still to ask Serge for
    groups,         \* failure groups the run has still to post
    retired,        \* closings of this run: [number, reason]
    touched,        \* pull requests a maintainer acted on since they were listed
    touches,
    doubled         \* history: a pull request opened although one for a test of it was left open

ledgerVars == <<nights, results, pulls, phase, listed, plan, groups, retired, touched, touches, doubled>>

-----------------------------------------------------------------------------
(* The night's results. *)

\* A job that crashes reports none of its tests.
Night ==
    /\ phase = "idle" /\ nights < MaxNights
    /\ \E now \in SUBSET Tests, crashed \in BOOLEAN :
          LET night == [ran |-> ~crashed, failing |-> IF crashed THEN {} ELSE now] IN
          results' = IF Len(results) < Window THEN Append(results, night)
                             ELSE Append(Tail(results), night)
    /\ nights' = nights + 1
    /\ UNCHANGED <<pulls, phase, listed, plan, groups, retired, touched, touches, doubled>>

\* intersect_across_days
Persistent ==
    {t \in Tests : Cardinality({d \in DOMAIN results : t \in results[d].failing}) >= MinDays}

\* cluster_failures and pick_targets group the failures; a test that fails in
\* two ways on two machines is in two groups.
Groupings == {gs \in SUBSET (SUBSET Persistent \ {{}}) : UNION gs = Persistent /\ Cardinality(gs) <= 2}

-----------------------------------------------------------------------------
(* Retiring pull requests. *)

\* The tests a body lists: the whole group, or the one failure it shows.
TargetTests(p) == p.tests

IsOpen(p) == p.state = "open"
ListedOpen == {n \in DOMAIN listed : IsOpen(listed[n])}

NewestResults == {d \in DOMAIN results : d > Len(results) - QuietDays}

\* No evidence that a test passed unless its job ran.
PassedOn(d, p, t) ==
    /\ results[d].ran
    /\ IF p.whole THEN t \notin results[d].failing
       ELSE \A f \in results[d].failing : FileOf[f] # FileOf[t]

\* Mutant of Quiet: one of the newest nights is enough.
QuietSomeNight(p) == \E d \in NewestResults : \A t \in TargetTests(p) : PassedOn(d, p, t)

Quiet(p) == \A d \in NewestResults : \A t \in TargetTests(p) : PassedOn(d, p, t)

\* find_stale_prs
Stale ==
    IF QuietDays = 0 \/ Len(results) < QuietDays THEN {}
    ELSE {n \in ListedOpen : TargetTests(listed[n]) # {} /\ Quiet(listed[n])}

\* Mutant of Covers: a partial overlap is enough.
CoversSome(newer, older) == TargetTests(older) \intersect TargetTests(newer) # {}

Covers(newer, older) == TargetTests(older) # {} /\ TargetTests(older) \subseteq TargetTests(newer)

\* find_superseded_prs, of those that are not stale
Superseded ==
    {n \in ListedOpen \ Stale :
        \E m \in ListedOpen \ Stale : m > n /\ Covers(listed[m], listed[n])}

-----------------------------------------------------------------------------
(* The run. *)

RestrictTo(S) == [n \in S |-> pulls[n]]

\* What the run asks Serge to close, by the listing it has.
Closings ==
    {[number |-> n, reason |-> "stale"] : n \in Stale}
    \union {[number |-> n, reason |-> "superseded"] : n \in Superseded}

\* The recent listing may stop short, and so may the open one.
BeginRun ==
    /\ phase = "idle"
    /\ \E known \in SUBSET DOMAIN pulls :
          listed' = RestrictTo(known)
    /\ UNCHANGED <<nights, results, pulls, groups, touches, doubled>>
    /\ plan' = Closings'
    /\ retired' = {} /\ touched' = {}
    /\ phase' = "retire"

AsClosed(known, c) ==
    [known EXCEPT ![c.number].state = "closed", ![c.number].marker = c.reason]

\* Serge is asked to close one: it does and says so, does and is not heard,
\* finds it closed, or refuses.
Retire(c) ==
    /\ phase = "retire" /\ c \in plan
    /\ plan' = plan \ {c}
    /\ \/ /\ IsOpen(pulls[c.number])
          /\ pulls' = AsClosed(pulls, c)
          /\ retired' = retired \union {c}
          /\ listed' = AsClosed(listed, c)
       \/ /\ IsOpen(pulls[c.number])
          /\ pulls' = AsClosed(pulls, c)
          /\ retired' = retired \union {c}
          /\ UNCHANGED listed
       \/ UNCHANGED <<pulls, retired, listed>>
    /\ UNCHANGED <<nights, results, phase, groups, touched, touches, doubled>>

\* classify_prior_attempts: an open pull request for any of the group's tests
\* tracks it, a closed one only under its fingerprint.

\* Mutant of Tracks: an open one too only under its fingerprint.
TracksFingerprint(p, group, fp) == p.fp = fp

Tracks(p, group, fp) ==
    p.fp = fp \/ (IsOpen(p) /\ TargetTests(p) \intersect group # {})

OpenPulls(group, fp) == {n \in ListedOpen : Tracks(listed[n], group, fp)}

Closed(group, fp, merged) ==
    {n \in DOMAIN listed :
        /\ Tracks(listed[n], group, fp) /\ listed[n].marker = "none"
        /\ listed[n].state = IF merged THEN "merged" ELSE "closed"}

\* rejected_attempts_reason
Declined(group, fp) ==
    /\ OpenPulls(group, fp) = {} /\ Closed(group, fp, TRUE) = {}
    /\ Cardinality(Closed(group, fp, FALSE)) >= MaxRejected

Fingerprint(group, variant) == <<group, variant>>

\* Groups that stopped failing, that no patch can fix, or that the cap leaves
\* out are not dispatched.
ChooseGroups ==
    /\ phase = "retire" /\ plan = {}
    /\ \E gs \in Groupings, variant \in Variants :
          \E chosen \in SUBSET {g \in gs : ~Declined(g, Fingerprint(g, variant))} :
             groups' = {[tests |-> g, fp |-> Fingerprint(g, variant)] : g \in chosen}
    /\ phase' = "dispatch"
    /\ UNCHANGED <<nights, results, pulls, listed, plan, retired, touched, touches, doubled>>

\* A group whose pull request the run knows is a follow-up on the newest of
\* them; for another Serge opens one, or finds nothing to change.
FollowUp(g) ==
    /\ phase = "dispatch" /\ g \in groups
    /\ OpenPulls(g.tests, g.fp) # {}
    /\ groups' = groups \ {g}
    /\ UNCHANGED <<nights, results, pulls, phase, listed, plan, retired, touched, touches, doubled>>

OpenNew(g) ==
    /\ phase = "dispatch" /\ g \in groups
    /\ OpenPulls(g.tests, g.fp) = {}
    /\ groups' = groups \ {g}
    /\ \/ UNCHANGED <<pulls, doubled>>
       \/ /\ Len(pulls) < MaxPulls
          /\ pulls' = Append(pulls, [tests |-> g.tests, fp |-> g.fp, whole |-> TRUE,
                                     state |-> "open", marker |-> "none"])
          /\ doubled' = (doubled \/ \E n \in DOMAIN listed \ touched :
                            IsOpen(pulls[n]) /\ TargetTests(pulls[n]) \intersect g.tests # {})
    /\ UNCHANGED <<nights, results, phase, listed, plan, retired, touched, touches>>

EndRun ==
    /\ phase = "dispatch" /\ groups = {}
    /\ phase' = "idle"
    /\ listed' = RestrictTo({}) /\ retired' = {} /\ touched' = {}
    /\ UNCHANGED <<nights, results, pulls, plan, groups, touches, doubled>>

-----------------------------------------------------------------------------

Maintainer(n, from, to) ==
    /\ n \in DOMAIN pulls /\ pulls[n].state = from /\ touches < MaxTouches
    /\ pulls' = [pulls EXCEPT ![n].state = to]
    /\ touched' = IF phase = "idle" THEN touched ELSE touched \union {n}
    /\ touches' = touches + 1
    /\ UNCHANGED <<nights, results, phase, listed, plan, groups, retired, doubled>>

Init ==
    /\ nights = 0 /\ results = <<>>
    /\ \E old \in OldPulls :
          pulls = [n \in DOMAIN old |-> [tests |-> old[n].tests, fp |-> old[n].fp, whole |-> old[n].whole,
                                         state |-> "open", marker |-> "none"]]
    /\ phase = "idle"
    /\ listed = [n \in {} |-> 0] /\ plan = {} /\ groups = {} /\ retired = {}
    /\ touched = {} /\ touches = 0 /\ doubled = FALSE

Next ==
    \/ Night \/ BeginRun \/ ChooseGroups \/ EndRun
    \/ \E c \in plan : Retire(c)
    \/ \E g \in groups : FollowUp(g) \/ OpenNew(g)
    \/ \E n \in DOMAIN pulls :
          Maintainer(n, "open", "closed") \/ Maintainer(n, "open", "merged") \/ Maintainer(n, "closed", "open")

Spec == Init /\ [][Next]_ledgerVars

-----------------------------------------------------------------------------
(* Correctness *)

\* No run takes the last pull request from a test that failed in one of the
\* newest nights: of those it knew, one that lists the test is left alone.
\* A night the job crashed is no evidence.
CoverageKept ==
    \A t \in Tests :
        LET for == {n \in DOMAIN listed : t \in TargetTests(listed[n])}
            gone == {c.number : c \in retired} IN
        (\E d \in NewestResults : t \in results[d].failing) /\ for \intersect gone # {} =>
            \E n \in for \ gone : IsOpen(listed[n])

\* No run closes a pull request as no longer needed and then dispatches one of
\* its tests: a test quiet that long is not persistent.
NeverQuietAndDispatched ==
    \A g \in groups : \A c \in retired :
        c.reason = "stale" => TargetTests(pulls[c.number]) \intersect g.tests = {}

\* Serge is never told to open a second pull request for a test while one the
\* run listed is left open, however the group's fingerprint moved.
OnePullPerTest == ~doubled

-----------------------------------------------------------------------------
(* What every step keeps, from which the properties follow. *)

\* What the command line allows: there are results to read.
Windows ==
    /\ Window \in Nat \ {0} /\ MinDays \in Nat /\ QuietDays \in Nat
    /\ \A old \in OldPulls :
          old \in Seq([tests : SUBSET Tests, fp : (SUBSET Tests) \X Variants, whole : BOOLEAN])

\* A window quiet for its newest QuietDays nights has fewer than MinDays others,
\* as with the defaults of 7 nights, 5 to persist and 3 to be quiet.
QuietOutlasts == Window < MinDays + QuietDays

Group == [tests : SUBSET Tests, fp : (SUBSET Tests) \X Variants]
Pull ==
    [tests : SUBSET Tests, fp : (SUBSET Tests) \X Variants, whole : BOOLEAN,
     state : {"open", "closed", "merged"}, marker : {"none", "stale", "superseded"}]
Closing == [number : Nat, reason : {"stale", "superseded"}]

TypeOK ==
    /\ results \in Seq([ran : BOOLEAN, failing : SUBSET Tests]) /\ Len(results) <= Window
    /\ pulls \in Seq(Pull)
    /\ DOMAIN listed \subseteq DOMAIN pulls /\ listed \in [DOMAIN listed -> Pull]
    /\ plan \subseteq Closing /\ retired \subseteq Closing /\ groups \subseteq Group
    /\ phase \in {"idle", "retire", "dispatch"}

\* Between runs nothing is planned, and groups are posted when all is closed.
OneThingAtATime ==
    /\ phase # "retire" => plan = {}
    /\ phase # "dispatch" => groups = {}
    /\ phase = "idle" => retired = {} /\ DOMAIN listed = {}

\* A closing still has the reason it was planned for: the tests were quiet, or a
\* newer pull request for them is open, or was closed by this run itself.
Grounded(c) ==
    /\ c.number \in DOMAIN listed
    /\ c.reason = "stale" =>
           QuietDays # 0 /\ Len(results) >= QuietDays /\ Quiet(listed[c.number])
    /\ c.reason = "superseded" =>
           \E m \in DOMAIN listed :
              /\ m > c.number /\ Covers(listed[m], listed[c.number])
              /\ IsOpen(listed[m]) \/ \E r \in retired : r.number = m

\* The listing is right about a pull request's tests, and says of none that is
\* left open and no maintainer touched that it is not.
ListingTrue ==
    \A n \in DOMAIN listed :
        /\ TargetTests(listed[n]) = TargetTests(pulls[n])
        /\ n \notin touched /\ IsOpen(pulls[n]) => IsOpen(listed[n])

Reckoned ==
    /\ TypeOK /\ OneThingAtATime /\ ListingTrue /\ OnePullPerTest
    /\ \A c \in plan \union retired : Grounded(c)
    /\ \A g \in groups : g.tests \subseteq Persistent
=============================================================================
