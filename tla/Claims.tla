------------------------------- MODULE Claims -------------------------------
(***************************************************************************)
(* Who picked up a failing test                                            *)
(* (src/src/transformersci/otel/claims.py and its callers in               *)
(* new_issue.py and trace_exporter.py).  Two SQLite tables: claims, a      *)
(* draft's reservation or a published issue, and working, who is on the    *)
(* test.  Each store operation is one transaction; the handlers string     *)
(* several together around calls to GitHub, and a refresher thread reads   *)
(* the issues back.  Drafts are in memory and die with the process.        *)
(*                                                                         *)
(* A handler goes through a draft's tests in the order of its list; here,  *)
(* in any order.                                                           *)
(***************************************************************************)
EXTENDS Naturals, FiniteSets, FiniteSetTheorems, TLAPS

CONSTANTS
    Tests,          \* test node ids
    People,         \* GitHub logins
    Drafts,         \* the issue dialogs that may be opened
    OwnerOf,        \* who opens it
    TestsOf,        \* the tests it is about: one, or a packet's
    Impatient,      \* those who close the dialog, or give up the test from
                    \* another page, while their issue is being published
    IssuesChange,   \* whether people close and reopen issues on GitHub
    MaxIssues,      \* how many issues may be created
    MaxLost,        \* how often an issue is created but the answer lost
    MaxRestarts,    \* how often the process may restart
    NoTest,         \* a handler is between two tests
    NoLogin         \* nobody

ASSUME OwnerOfAssumption == OwnerOf \in [Drafts -> People]
ASSUME TestsOfAssumption == TestsOf \in [Drafts -> (SUBSET Tests) \ {{}}]
ASSUME ImpatientAssumption == Impatient \subseteq People
ASSUME BoundsAssumption ==
    /\ IssuesChange \in BOOLEAN
    /\ MaxIssues \in Nat /\ MaxLost \in Nat /\ MaxRestarts \in Nat
ASSUME NoneAssumption == NoTest \notin Tests /\ NoLogin \notin People

VARIABLES
    issues,         \* GitHub: the issues created, by number
    claims,         \* store: table claims
    working,        \* store: table working
    stage,          \* draft handlers: how far each dialog is
    held,           \* _draft_nodeids: the tests a draft has reserved
    live,           \* _drafts: the draft can still be published
    left,           \* draft handlers: the tests the loop has still to see
    at,             \* draft handlers: the test confirmed and not started
    number,         \* draft handlers: the issue created, 0 for none
    reopening,      \* reopen handlers: the claim each person is reopening
    due,            \* refresher: the issues left to read
    said,           \* refresher: the issue read and what GitHub said of it
    lost,           \* how many answers were lost
    restarts,       \* how often the process has restarted
    reopener        \* history: who reopened the issue of a test and is on it

storeVars == <<claims, working>>
draftVars == <<stage, held, live, left, at, number>>
refresherVars == <<due, said>>
vars == <<issues, storeVars, draftVars, reopening, refresherVars, lost,
          restarts, reopener>>

-----------------------------------------------------------------------------
(* Rows *)

NoClaim == [state |-> "none", login |-> NoLogin]
\* live: the reservation has not lapsed.
Drafting(p) == [state |-> "drafting", login |-> p, live |-> TRUE]
\* Mutant of Claimed: the issue's number is not recorded.
ClaimedUnnumbered(p, k) == [state |-> "claimed", login |-> p, number |-> 0,
                            issue |-> "open", fresh |-> TRUE]
\* fresh: the issue was read, or known, less than CHECK_SECONDS ago.
Claimed(p, k) == [state |-> "claimed", login |-> p, number |-> k,
                  issue |-> "open", fresh |-> TRUE]
ClosedClaim(n) == claims[n].state = "claimed" /\ claims[n].issue = "closed"

NoWork == [via |-> "none", login |-> NoLogin, number |-> 0]
Work(p, via, k) == [via |-> via, login |-> p, number |-> k]
OnIssue(n, k) == working[n].via = "issue" /\ working[n].number = k

Issue(k) == k \in DOMAIN issues
NextNumber == Cardinality(DOMAIN issues) + 1

NoReopening == [step |-> "none"]
NothingSaid == [test |-> NoTest]
Reads == {<<n, claims[n].number>> :
             n \in {t \in Tests : claims[t].state = "claimed" /\ ~claims[t].fresh}}

-----------------------------------------------------------------------------
(* Store *)

\* Mutant of MayReserve: who works on the test without an issue is not asked.
MayReserveUnasked(n, p) ==
    /\ claims[n].state = "claimed" => working[n].login = p
    /\ claims[n].state = "drafting" => claims[n].login = p \/ ~claims[n].live

\* Mutant of MayReserve: another draft's reservation is taken over.
MayReserveDrafted(n, p) ==
    /\ working[n] # NoWork => working[n].login = p
    /\ claims[n].state = "claimed" => working[n] # NoWork

\* reserve answers "ok": nobody else is on the test, no issue is waiting to be
\* picked up or reopened, and no other draft holds it.
MayReserve(n, p) ==
    /\ working[n] # NoWork => working[n].login = p
    /\ claims[n].state = "claimed" => working[n] # NoWork
    /\ claims[n].state = "drafting" => claims[n].login = p \/ ~claims[n].live

\* Mutant of Reserved: the reservation replaces the claim.
ReservedOver(n, p) == Drafting(p)

\* A test with an issue keeps its claim row.
Reserved(n, p) == IF claims[n].state = "claimed" THEN claims[n] ELSE Drafting(p)

\* Mutant of Released: a published claim goes too.
ReleasedAny(n, p) == IF claims[n].login = p THEN NoClaim ELSE claims[n]

\* release, or the reservation start drops.
Released(n, p) ==
    IF claims[n].state = "drafting" /\ claims[n].login = p THEN NoClaim
    ELSE claims[n]

-----------------------------------------------------------------------------
(* The dialog: draft, publish, coding agent, close *)

SetStage(d, s) == stage' = [stage EXCEPT ![d] = s]
Loop(d, tests) == left' = [left EXCEPT ![d] = tests]
Owner(d) == OwnerOf[d]
Acting(d) == stage[d] \in {"publish", "creating", "confirming", "agent", "starting"}

StartDraft(d) ==
    /\ stage[d] = "unused"
    /\ SetStage(d, "reserving")
    /\ Loop(d, TestsOf[d])
    /\ UNCHANGED <<storeVars, held, live, at, number>>

\* A test someone else has is left out of a packet; a draft of none is refused.
ReserveForDraft(d, n) ==
    /\ stage[d] = "reserving"
    /\ n \in left[d]
    /\ Loop(d, left[d] \ {n})
    /\ IF MayReserve(n, Owner(d))
       THEN /\ claims' = [claims EXCEPT ![n] = Reserved(n, Owner(d))]
            /\ held' = [held EXCEPT ![d] = @ \union {n}]
       ELSE UNCHANGED <<claims, held>>
    /\ SetStage(d, IF left[d] # {n} THEN "reserving"
                   ELSE IF held'[d] = {} THEN "unused" ELSE "preparing")
    /\ UNCHANGED <<working, live, at, number>>

DraftReady(d) ==
    /\ stage[d] = "preparing"
    /\ SetStage(d, "open")
    /\ live' = [live EXCEPT ![d] = TRUE]
    /\ UNCHANGED <<storeVars, held, left, at, number>>

\* The draft could not be made: its tests are released one by one, or not at
\* all when the handler itself raised.
DraftFails(d) ==
    /\ stage[d] = "preparing"
    /\ \/ SetStage(d, "dropping") /\ Loop(d, held[d]) /\ UNCHANGED held
       \/ /\ SetStage(d, "unused")
          /\ held' = [held EXCEPT ![d] = {}]
          /\ UNCHANGED left
    /\ UNCHANGED <<storeVars, live, at, number>>

DropReservation(d, n) ==
    /\ stage[d] = "dropping"
    /\ n \in left[d]
    /\ claims' = [claims EXCEPT ![n] = Released(n, Owner(d))]
    /\ Loop(d, left[d] \ {n})
    /\ IF left[d] = {n}
       THEN SetStage(d, "unused") /\ held' = [held EXCEPT ![d] = {}]
       ELSE UNCHANGED <<stage, held>>
    /\ UNCHANGED <<working, live, at, number>>

\* Publish and Coding agent reserve every test again.
StartAction(d, action) ==
    /\ stage[d] = "open"
    /\ action = "agent" => live[d]
    /\ SetStage(d, action)
    /\ Loop(d, held[d])
    /\ UNCHANGED <<storeVars, held, live, at, number>>

ReserveAgain(d, n) ==
    /\ stage[d] \in {"publish", "agent"}
    /\ n \in left[d]
    /\ IF MayReserve(n, Owner(d))
       THEN /\ claims' = [claims EXCEPT ![n] = Reserved(n, Owner(d))]
            /\ Loop(d, left[d] \ {n})
            /\ UNCHANGED stage
       ELSE /\ Loop(d, {})
            /\ SetStage(d, "open")
            /\ UNCHANGED claims
    /\ UNCHANGED <<working, held, live, at, number>>

\* publish takes the draft out of the table before it calls GitHub.
TakeDraft(d) ==
    /\ stage[d] = "publish"
    /\ left[d] = {}
    /\ live' = [live EXCEPT ![d] = FALSE]
    /\ SetStage(d, IF live[d] THEN "creating" ELSE "open")
    /\ UNCHANGED <<storeVars, held, left, at, number>>

AddIssue(d) ==
    /\ NextNumber <= MaxIssues
    /\ issues' = [k \in DOMAIN issues \union {NextNumber} |->
                     IF Issue(k) THEN issues[k]
                     ELSE [state |-> "open", author |-> Owner(d),
                           tests |-> held[d]]]

CreateIssue(d) ==
    /\ stage[d] = "creating"
    /\ AddIssue(d)
    /\ number' = [number EXCEPT ![d] = NextNumber]
    /\ SetStage(d, "confirming")
    /\ Loop(d, held[d])
    /\ UNCHANGED <<storeVars, held, live, at, lost>>

\* GitHub refused, or its answer was lost: the draft is put back.
CreateFails(d) ==
    /\ stage[d] = "creating"
    /\ \/ UNCHANGED <<issues, lost>>
       \/ lost < MaxLost /\ AddIssue(d) /\ lost' = lost + 1
    /\ live' = [live EXCEPT ![d] = TRUE]
    /\ SetStage(d, "open")
    /\ UNCHANGED <<storeVars, held, left, at, number>>

Confirm(d, n) ==
    /\ stage[d] = "confirming"
    /\ at[d] = NoTest
    /\ n \in left[d]
    /\ claims' = [claims EXCEPT ![n] = Claimed(Owner(d), number[d])]
    /\ at' = [at EXCEPT ![d] = n]
    /\ UNCHANGED <<working, stage, held, live, left, number>>

StartOnIssue(d) ==
    /\ stage[d] = "confirming"
    /\ at[d] # NoTest
    /\ working' = [working EXCEPT ![at[d]] = Work(Owner(d), "issue", number[d])]
    /\ claims' = [claims EXCEPT ![at[d]] = Released(at[d], Owner(d))]
    /\ Loop(d, left[d] \ {at[d]})
    /\ at' = [at EXCEPT ![d] = NoTest]
    /\ IF left[d] = {at[d]}
       THEN SetStage(d, "open") /\ number' = [number EXCEPT ![d] = 0]
       ELSE UNCHANGED <<stage, number>>
    /\ UNCHANGED <<held, live>>

AgentReserved(d) ==
    /\ stage[d] = "agent"
    /\ left[d] = {}
    /\ SetStage(d, "starting")
    /\ Loop(d, held[d])
    /\ UNCHANGED <<storeVars, held, live, at, number>>

StartAgent(d, n) ==
    /\ stage[d] = "starting"
    /\ n \in left[d]
    /\ working' = [working EXCEPT ![n] = Work(Owner(d), "agent", 0)]
    /\ claims' = [claims EXCEPT ![n] = Released(n, Owner(d))]
    /\ Loop(d, left[d] \ {n})
    /\ SetStage(d, IF left[d] = {n} THEN "open" ELSE "starting")
    /\ UNCHANGED <<held, live, at, number>>

\* Closing the dialog releases its tests; Escape closes it at any time, and
\* some people do not wait for the answer.
CloseDialog(d, n) ==
    /\ n \in held[d]
    /\ \/ stage[d] = "open"
       \/ stage[d] \in {"publish", "creating", "confirming"} /\ Owner(d) \in Impatient
    /\ Released(n, Owner(d)) # claims[n]
    /\ claims' = [claims EXCEPT ![n] = Released(n, Owner(d))]
    /\ UNCHANGED <<working, draftVars>>

Expire(d) ==
    /\ stage[d] = "open"
    /\ live[d]
    /\ live' = [live EXCEPT ![d] = FALSE]
    /\ UNCHANGED <<storeVars, stage, held, left, at, number>>

DialogStep(d) ==
    \/ StartDraft(d) \/ DraftReady(d) \/ DraftFails(d) \/ TakeDraft(d)
    \/ StartOnIssue(d) \/ AgentReserved(d) \/ Expire(d)
    \/ \E action \in {"publish", "agent"} : StartAction(d, action)
    \/ \E n \in Tests :
          \/ ReserveForDraft(d, n) \/ DropReservation(d, n) \/ ReserveAgain(d, n)
          \/ Confirm(d, n) \/ StartAgent(d, n) \/ CloseDialog(d, n)

Dialog ==
    /\ \E d \in Drafts :
          \/ DialogStep(d) /\ UNCHANGED <<issues, lost>>
          \/ CreateIssue(d) \/ CreateFails(d)
    /\ UNCHANGED <<reopening, refresherVars, restarts, reopener>>

-----------------------------------------------------------------------------
(* Give up, pick up, reopen *)

\* Stop working, from the dialog or as Give up.
Stop(p, n) ==
    /\ working[n].login = p
    /\ p \in Impatient \/ \A d \in Drafts : n \in held[d] /\ Owner(d) = p => ~Acting(d)
    /\ working' = [working EXCEPT ![n] = NoWork]
    /\ reopener' = [reopener EXCEPT ![n] = NoLogin]
    /\ UNCHANGED <<issues, claims, reopening>>

PickUp(p, n) ==
    /\ working[n] = NoWork
    /\ claims[n].state = "claimed"
    /\ claims[n].issue # "closed"
    /\ working' = [working EXCEPT ![n] = Work(p, "issue", claims[n].number)]
    /\ UNCHANGED <<issues, claims, reopening, reopener>>

\* The claim changes hands before GitHub is asked.
Reopen(p, n) ==
    /\ reopening[p] = NoReopening
    /\ ClosedClaim(n)
    /\ reopening' = [reopening EXCEPT ![p] =
                        [step |-> "patching", test |-> n,
                         number |-> claims[n].number, login |-> claims[n].login,
                         fresh |-> claims[n].fresh]]
    /\ claims' = [claims EXCEPT ![n] = Claimed(p, claims[n].number)]
    /\ working' = [working EXCEPT ![n] = Work(p, "issue", claims[n].number)]
    /\ UNCHANGED <<issues, reopener>>

ReopenOk(p) ==
    /\ reopening[p].step = "patching"
    /\ issues' = [issues EXCEPT ![reopening[p].number].state = "open"]
    /\ reopening' = [reopening EXCEPT ![p] = NoReopening]
    /\ reopener' = [reopener EXCEPT ![reopening[p].test] =
                       IF working[reopening[p].test].login = p THEN p ELSE @]
    /\ UNCHANGED storeVars

\* GitHub refused, or the answer to what it did was lost.
ReopenFails(p) ==
    /\ reopening[p].step = "patching"
    /\ \/ UNCHANGED issues
       \/ issues' = [issues EXCEPT ![reopening[p].number].state = "open"]
    /\ reopening' = [reopening EXCEPT ![p].step = "undo"]
    /\ UNCHANGED <<storeVars, reopener>>

UndoReopen(p) ==
    LET n == reopening[p].test
        k == reopening[p].number IN
    /\ reopening[p].step = "undo"
    /\ claims' = [claims EXCEPT ![n] =
                     IF @.state = "claimed" /\ @.number = k
                     THEN [@ EXCEPT !.login = reopening[p].login,
                                    !.issue = "closed",
                                    !.fresh = reopening[p].fresh]
                     ELSE @]
    /\ working' = [working EXCEPT ![n] = IF OnIssue(n, k) THEN NoWork ELSE @]
    /\ reopening' = [reopening EXCEPT ![p] = NoReopening]
    /\ UNCHANGED <<issues, reopener>>

WorkOnIt ==
    /\ \E p \in People :
          \/ ReopenOk(p) \/ ReopenFails(p) \/ UndoReopen(p)
          \/ \E n \in Tests : Stop(p, n) \/ PickUp(p, n) \/ Reopen(p, n)
    /\ UNCHANGED <<draftVars, refresherVars, lost, restarts>>

-----------------------------------------------------------------------------
(* The refresher *)

StartRefresh ==
    /\ due = {}
    /\ said = NothingSaid
    /\ Reads # {}
    /\ due' = Reads
    /\ UNCHANGED <<storeVars, said>>

ReadIssue(n, k) ==
    /\ said = NothingSaid
    /\ <<n, k>> \in due
    /\ due' = due \ {<<n, k>>}
    /\ said' = [test |-> n, number |-> k, state |-> issues[k].state]
    /\ UNCHANGED storeVars

ReadFails ==
    /\ said = NothingSaid
    /\ \E read \in due : due' = due \ {read}
    /\ UNCHANGED <<storeVars, said>>

\* Mutant of EndsWork: closing the issue ends only the author's work.
EndsWorkOfAuthor(n, k) == OnIssue(n, k) /\ working[n].login = issues[k].author

\* Closing the issue ends the work on it; a coding agent's it does not.
EndsWork(n, k) == OnIssue(n, k)

\* set_issue_state, keyed on the number: a newer claim is left alone.
ApplyIssue ==
    LET n == said.test
        k == said.number IN
    /\ said # NothingSaid
    /\ claims' = [claims EXCEPT ![n] =
                     IF @.state = "claimed" /\ @.number = k
                     THEN [@ EXCEPT !.issue = said.state, !.fresh = TRUE]
                     ELSE @]
    /\ working' = [working EXCEPT ![n] =
                      IF said.state = "closed" /\ EndsWork(n, k) THEN NoWork ELSE @]
    /\ said' = NothingSaid
    /\ UNCHANGED due

Refresher ==
    /\ StartRefresh \/ ReadFails \/ ApplyIssue
       \/ \E n \in Tests, k \in DOMAIN issues : ReadIssue(n, k)
    /\ UNCHANGED <<issues, draftVars, reopening, lost, restarts, reopener>>

-----------------------------------------------------------------------------
(* Time, GitHub, restarts *)

\* RESERVE_SECONDS is far beyond what a publish handler's own calls may take:
\* a reservation lapses while its draft sits open, or is being written.
Lapse(n) ==
    /\ claims[n].state = "drafting"
    /\ claims[n].live
    /\ \A d \in Drafts : n \in held[d] /\ Acting(d) => Owner(d) # claims[n].login
    /\ claims' = [claims EXCEPT ![n].live = FALSE]

\* CHECK_SECONDS after it was read, an issue is to be read again; the handler
\* that has just confirmed or reopened it is done long before.
Age(n) ==
    /\ claims[n].state = "claimed"
    /\ claims[n].fresh
    /\ \A d \in Drafts : at[d] # n
    /\ \A p \in People : reopening[p].step = "patching" => reopening[p].test # n
    /\ claims' = [claims EXCEPT ![n].fresh = FALSE]

Time ==
    /\ \E n \in Tests : Lapse(n) \/ Age(n)
    /\ UNCHANGED <<issues, working, draftVars, reopening, refresherVars, lost,
                   restarts, reopener>>

\* Somebody closes or reopens an issue on GitHub.
ToggleIssue(k) ==
    /\ IssuesChange
    /\ issues' = [issues EXCEPT ![k].state = IF @ = "open" THEN "closed" ELSE "open"]
    /\ reopener' = [n \in Tests |-> IF n \in issues[k].tests /\ issues[k].state = "open"
                                    THEN NoLogin ELSE reopener[n]]
    /\ UNCHANGED <<storeVars, draftVars, reopening, refresherVars, lost, restarts>>

Restart ==
    /\ restarts < MaxRestarts
    /\ restarts' = restarts + 1
    /\ stage' = [d \in Drafts |-> "unused"]
    /\ held' = [d \in Drafts |-> {}]
    /\ live' = [d \in Drafts |-> FALSE]
    /\ left' = [d \in Drafts |-> {}]
    /\ at' = [d \in Drafts |-> NoTest]
    /\ number' = [d \in Drafts |-> 0]
    /\ reopening' = [p \in People |-> NoReopening]
    /\ due' = {}
    /\ said' = NothingSaid
    /\ UNCHANGED <<issues, storeVars, lost, reopener>>

Init ==
    /\ issues = [k \in {} |-> {}]
    /\ claims = [n \in Tests |-> NoClaim]
    /\ working = [n \in Tests |-> NoWork]
    /\ stage = [d \in Drafts |-> "unused"]
    /\ held = [d \in Drafts |-> {}]
    /\ live = [d \in Drafts |-> FALSE]
    /\ left = [d \in Drafts |-> {}]
    /\ at = [d \in Drafts |-> NoTest]
    /\ number = [d \in Drafts |-> 0]
    /\ reopening = [p \in People |-> NoReopening]
    /\ due = {}
    /\ said = NothingSaid
    /\ lost = 0
    /\ restarts = 0
    /\ reopener = [n \in Tests |-> NoLogin]

Next ==
    \/ Dialog \/ WorkOnIt \/ Refresher \/ Time \/ Restart
    \/ \E k \in DOMAIN issues : ToggleIssue(k)

Spec == Init /\ [][Next]_vars

\* The refresher thread goes round for ever, each issue it asks for again and
\* again is in the end read, and time passes.  A handler gets on with it: a
\* reopen's call returns or raises, a confirmed issue is started on.  Nothing
\* is assumed of the people or of GitHub.
FairSpec ==
    /\ Spec
    /\ SF_vars(StartRefresh /\ Refresher)
    /\ WF_vars(ApplyIssue /\ Refresher)
    /\ \A n \in Tests :
          /\ SF_vars(Age(n) /\ Time)
          /\ \A k \in 1..MaxIssues : SF_vars(Issue(k) /\ ReadIssue(n, k) /\ Refresher)
    /\ \A d \in Drafts : WF_vars(StartOnIssue(d) /\ Dialog)
    /\ \A p \in People : WF_vars((ReopenOk(p) \/ ReopenFails(p) \/ UndoReopen(p)) /\ WorkOnIt)

-----------------------------------------------------------------------------
(* Correctness *)

Claim == {NoClaim}
    \union [state : {"drafting"}, login : People, live : BOOLEAN]
    \union [state : {"claimed"}, login : People, number : 1..MaxIssues,
            issue : {"open", "closed"}, fresh : BOOLEAN]
WorkRow == [via : {"none", "agent", "issue"}, login : People \union {NoLogin},
            number : 0..MaxIssues]
IssueRow == [state : {"open", "closed"}, author : People, tests : SUBSET Tests]
Stage == {"unused", "reserving", "preparing", "dropping", "open", "publish",
          "creating", "confirming", "agent", "starting"}
ReopenCall == {NoReopening}
    \union [step : {"patching", "undo"}, test : Tests, number : 1..MaxIssues,
            login : People, fresh : BOOLEAN]
Answer == {NothingSaid}
    \union [test : Tests, number : 1..MaxIssues, state : {"open", "closed"}]

StoreTypeOK ==
    /\ claims \in [Tests -> Claim]
    /\ working \in [Tests -> WorkRow]

\* A dialog has tests of its own only, has an issue at hand exactly while it
\* confirms it, and a test only in the middle of the loop over its tests.
DraftTypeOK ==
    /\ stage \in [Drafts -> Stage]
    /\ held \in [Drafts -> SUBSET Tests]
    /\ left \in [Drafts -> SUBSET Tests]
    /\ live \in [Drafts -> BOOLEAN]
    /\ at \in [Drafts -> Tests \union {NoTest}]
    /\ number \in [Drafts -> 0..MaxIssues]
    /\ \A d \in Drafts :
          /\ held[d] \subseteq TestsOf[d] /\ left[d] \subseteq TestsOf[d]
          /\ at[d] # NoTest => stage[d] = "confirming" /\ at[d] \in left[d]
          /\ stage[d] = "confirming" => number[d] # 0

GitHubTypeOK ==
    /\ DOMAIN issues \subseteq 1..MaxIssues
    /\ issues \in [DOMAIN issues -> IssueRow]

CallsTypeOK ==
    /\ reopening \in [People -> ReopenCall]
    /\ due \subseteq Tests \X (1..MaxIssues)
    /\ said \in Answer
    /\ reopener \in [Tests -> People \union {NoLogin}]

\* Every variable holds a value of its kind.
TypeOK ==
    /\ StoreTypeOK /\ DraftTypeOK /\ GitHubTypeOK /\ CallsTypeOK
    /\ lost \in 0..MaxLost
    /\ restarts \in 0..MaxRestarts

\* claims.py: "so two people never open issues for the same one".
NeverTwoPeople ==
    \A j, k \in DOMAIN issues :
        issues[j].tests \intersect issues[k].tests # {} =>
            issues[j].author = issues[k].author

\* The first issue about a test is created by somebody who holds the test at
\* that moment: they are on it, or have it reserved and nobody is on it.
Holds(p, n) ==
    \/ working[n].login = p
    \/ working[n] = NoWork /\ claims[n].state = "drafting" /\ claims[n].login = p
HeldWhenPublished ==
    [][\A k \in DOMAIN issues' \ DOMAIN issues :
          \A n \in issues'[k].tests :
              claims[n].state = "claimed" \/ Holds(issues'[k].author, n)]_vars

\* Whoever works on a test in an issue does so in the one the test's claim
\* tracks, the only one the refresher reads: its closing ends the work
\* (claims.py: "Closing the issue ends the work on it").
IssueWorkIsClaimed ==
    \A n \in Tests : working[n].via = "issue" /\ (\A d \in Drafts : at[d] # n) =>
        claims[n].state = "claimed" /\ claims[n].number = working[n].number

\* The test a dialog has confirmed and not started on is claimed by its issue.
ConfirmedIsClaimed ==
    \A d \in Drafts : at[d] # NoTest =>
        claims[at[d]].state = "claimed" /\ claims[at[d]].number = number[d]

\* Two dialogs are never between confirm and start on the same test.
OneConfirms ==
    \A d, e \in Drafts : at[d] # NoTest /\ at[d] = at[e] => d = e

\* The process does not die between confirm and start.
DiesBetween == restarts' # restarts => \A d \in Drafts : at[d] = NoTest
DiesBetweenTests == [][DiesBetween]_vars

TakenOver(n) ==
    /\ working[n] # NoWork
    /\ working'[n] # NoWork
    /\ working'[n].login # working[n].login

\* As long as a test has no issue, nobody is put on it over somebody else's
\* head: starting a coding agent or publishing went through a reservation.
UnpublishedNotTakenOver ==
    [][\A n \in Tests : TakenOver(n) => claims'[n].state = "claimed"]_vars

\* claims.py: who works on a test "holds the test [...] until they give up, or
\* until their issue is closed": no request of another person takes them off it.
NotTakenOver == [][\A n \in Tests : TakenOver(n) => ClosedClaim(n)]_vars

\* An issue closed for good does not hold its tests for ever.
ClosedFrees ==
    \A n \in Tests : \A k \in 1..MaxIssues :
        <>[](Issue(k) /\ issues[k].state = "closed") => []<>~OnIssue(n, k)

\* claims.py: "Reopening makes the person who reopened it the claimant": while
\* the issue stays open and they do not stop, the test is not without a worker.
ReopenerKeeps ==
    \A n \in Tests : reopener[n] # NoLogin => working[n] # NoWork

-----------------------------------------------------------------------------
(* Type correctness, for any tests, people and dialogs                       *)

LEMMA RowsTyped ==
    ASSUME NEW p \in People, NEW n \in Tests, claims \in [Tests -> Claim]
    PROVE  /\ Drafting(p) \in Claim
           /\ Reserved(n, p) \in Claim
           /\ Released(n, p) \in Claim
           /\ \A k \in 1..MaxIssues : Claimed(p, k) \in Claim
<1>1. Drafting(p) \in Claim
    BY DEF Drafting, Claim
<1>2. \A k \in 1..MaxIssues : Claimed(p, k) \in Claim
    BY DEF Claimed, Claim
<1>3. NoClaim \in Claim
    BY DEF Claim
<1>4. QED
    BY <1>1, <1>2, <1>3 DEF Reserved, Released

LEMMA WorkTyped ==
    ASSUME NEW p \in People, NEW via \in {"agent", "issue"}, NEW k \in 0..MaxIssues
    PROVE  Work(p, via, k) \in WorkRow /\ NoWork \in WorkRow
BY BoundsAssumption DEF Work, NoWork, WorkRow

\* What is on file of a published claim is a record of an issue.
LEMMA ClaimedTyped ==
    ASSUME NEW n \in Tests, claims \in [Tests -> Claim], claims[n].state = "claimed"
    PROVE  claims[n] \in [state : {"claimed"}, login : People, number : 1..MaxIssues,
                          issue : {"open", "closed"}, fresh : BOOLEAN]
BY DEF Claim, NoClaim

LEMMA DraftingTyped ==
    ASSUME NEW n \in Tests, claims \in [Tests -> Claim], claims[n].state = "drafting"
    PROVE  claims[n] \in [state : {"drafting"}, login : People, live : BOOLEAN]
BY DEF Claim, NoClaim

LEMMA NextNumberTyped ==
    ASSUME GitHubTypeOK, NextNumber <= MaxIssues
    PROVE  NextNumber \in 1..MaxIssues
<1>1. IsFiniteSet(1..MaxIssues)
    BY FS_Interval, BoundsAssumption
<1>2. IsFiniteSet(DOMAIN issues)
    BY <1>1, FS_Subset DEF GitHubTypeOK
<1>3. Cardinality(DOMAIN issues) \in Nat
    BY <1>2, FS_CardinalityType
<1>4. QED
    BY <1>3, BoundsAssumption DEF NextNumber

LEMMA TypeInit == Init => TypeOK
<1> SUFFICES ASSUME Init PROVE TypeOK
    OBVIOUS
<1>1. StoreTypeOK
    BY BoundsAssumption DEF Init, StoreTypeOK, Claim, NoClaim, NoWork, WorkRow
<1>2. DraftTypeOK
    BY BoundsAssumption DEF Init, DraftTypeOK, Stage
<1>3. GitHubTypeOK
    BY DEF Init, GitHubTypeOK
<1>4. CallsTypeOK
    BY DEF Init, CallsTypeOK, ReopenCall, Answer
<1>5. QED
    BY <1>1, <1>2, <1>3, <1>4, BoundsAssumption DEF Init, TypeOK

LEMMA DialogStepTyped ==
    ASSUME StoreTypeOK, DraftTypeOK, NEW d \in Drafts, DialogStep(d)
    PROVE  StoreTypeOK' /\ DraftTypeOK'
<1> USE DEF Loop, SetStage
<1> Owner(d) \in People
    BY OwnerOfAssumption DEF Owner
<1> TestsOf[d] \subseteq Tests
    BY TestsOfAssumption
<1>1. CASE StartDraft(d)
    <2>1. StoreTypeOK'
        BY <1>1 DEF StartDraft, storeVars, StoreTypeOK
    <2>2. DraftTypeOK'
        BY <1>1 DEF StartDraft, DraftTypeOK, Stage
    <2> QED
        BY <2>1, <2>2
<1>2. CASE DraftReady(d)
    <2>1. StoreTypeOK'
        BY <1>2 DEF DraftReady, storeVars, StoreTypeOK
    <2>2. DraftTypeOK'
        BY <1>2 DEF DraftReady, DraftTypeOK, Stage
    <2> QED
        BY <2>1, <2>2
<1>3. CASE DraftFails(d)
    <2>1. StoreTypeOK'
        BY <1>3 DEF DraftFails, storeVars, StoreTypeOK
    <2>2. DraftTypeOK'
        BY <1>3 DEF DraftFails, DraftTypeOK, Stage
    <2> QED
        BY <2>1, <2>2
<1>4. CASE TakeDraft(d)
    <2>1. StoreTypeOK'
        BY <1>4 DEF TakeDraft, storeVars, StoreTypeOK
    <2>2. DraftTypeOK'
        BY <1>4 DEF TakeDraft, DraftTypeOK, Stage
    <2> QED
        BY <2>1, <2>2
<1>5. CASE StartOnIssue(d)
    <2>1. at[d] \in Tests
        BY <1>5 DEF StartOnIssue, DraftTypeOK
    <2>2. Work(Owner(d), "issue", number[d]) \in WorkRow
        BY WorkTyped DEF DraftTypeOK
    <2>3. Released(at[d], Owner(d)) \in Claim
        BY <2>1, RowsTyped DEF StoreTypeOK
    <2>4. StoreTypeOK'
        BY <1>5, <2>1, <2>2, <2>3 DEF StartOnIssue, StoreTypeOK
    <2>5. DraftTypeOK'
        BY <1>5, BoundsAssumption DEF StartOnIssue, DraftTypeOK, Stage
    <2> QED
        BY <2>4, <2>5
<1>6. CASE AgentReserved(d)
    <2>1. StoreTypeOK'
        BY <1>6 DEF AgentReserved, storeVars, StoreTypeOK
    <2>2. DraftTypeOK'
        BY <1>6 DEF AgentReserved, DraftTypeOK, Stage
    <2> QED
        BY <2>1, <2>2
<1>7. CASE Expire(d)
    <2>1. StoreTypeOK'
        BY <1>7 DEF Expire, storeVars, StoreTypeOK
    <2>2. DraftTypeOK'
        BY <1>7 DEF Expire, DraftTypeOK, Stage
    <2> QED
        BY <2>1, <2>2
<1>8. ASSUME NEW action \in {"publish", "agent"}, StartAction(d, action)
      PROVE  StoreTypeOK' /\ DraftTypeOK'
    <2>1. StoreTypeOK'
        BY <1>8 DEF StartAction, storeVars, StoreTypeOK
    <2>2. DraftTypeOK'
        BY <1>8 DEF StartAction, DraftTypeOK, Stage
    <2> QED
        BY <2>1, <2>2
<1>9. ASSUME NEW n \in Tests, ReserveForDraft(d, n)
      PROVE  StoreTypeOK' /\ DraftTypeOK'
    <2>1. StoreTypeOK'
        BY <1>9, RowsTyped DEF ReserveForDraft, StoreTypeOK
    <2>2. held' \in [Drafts -> SUBSET Tests] /\ \A e \in Drafts : held'[e] \subseteq TestsOf[e]
        BY <1>9 DEF ReserveForDraft, DraftTypeOK
    <2>3. DraftTypeOK'
        BY <1>9, <2>2 DEF ReserveForDraft, DraftTypeOK, Stage
    <2> QED
        BY <2>1, <2>3
<1>10. ASSUME NEW n \in Tests, DropReservation(d, n)
       PROVE  StoreTypeOK' /\ DraftTypeOK'
    <2>1. StoreTypeOK'
        BY <1>10, RowsTyped DEF DropReservation, StoreTypeOK
    <2>2. DraftTypeOK'
        BY <1>10 DEF DropReservation, DraftTypeOK, Stage
    <2> QED
        BY <2>1, <2>2
<1>11. ASSUME NEW n \in Tests, ReserveAgain(d, n)
       PROVE  StoreTypeOK' /\ DraftTypeOK'
    <2>1. StoreTypeOK'
        BY <1>11, RowsTyped DEF ReserveAgain, StoreTypeOK
    <2>2. DraftTypeOK'
        BY <1>11 DEF ReserveAgain, DraftTypeOK, Stage
    <2> QED
        BY <2>1, <2>2
<1>12. ASSUME NEW n \in Tests, Confirm(d, n)
       PROVE  StoreTypeOK' /\ DraftTypeOK'
    <2>1. number[d] \in 1..MaxIssues
        BY <1>12, BoundsAssumption DEF Confirm, DraftTypeOK
    <2>2. StoreTypeOK'
        BY <1>12, <2>1, RowsTyped DEF Confirm, StoreTypeOK
    <2>3. DraftTypeOK'
        BY <1>12 DEF Confirm, DraftTypeOK
    <2> QED
        BY <2>2, <2>3
<1>13. ASSUME NEW n \in Tests, StartAgent(d, n)
       PROVE  StoreTypeOK' /\ DraftTypeOK'
    <2>1. Work(Owner(d), "agent", 0) \in WorkRow
        BY WorkTyped, BoundsAssumption
    <2>2. StoreTypeOK'
        BY <1>13, <2>1, RowsTyped DEF StartAgent, StoreTypeOK
    <2>3. DraftTypeOK'
        BY <1>13 DEF StartAgent, DraftTypeOK, Stage
    <2> QED
        BY <2>2, <2>3
<1>14. ASSUME NEW n \in Tests, CloseDialog(d, n)
       PROVE  StoreTypeOK' /\ DraftTypeOK'
    <2>1. StoreTypeOK'
        BY <1>14, RowsTyped DEF CloseDialog, StoreTypeOK
    <2>2. DraftTypeOK'
        BY <1>14 DEF CloseDialog, draftVars, DraftTypeOK
    <2> QED
        BY <2>1, <2>2
<1>15. QED
    BY <1>1, <1>2, <1>3, <1>4, <1>5, <1>6, <1>7, <1>8, <1>9, <1>10, <1>11,
       <1>12, <1>13, <1>14 DEF DialogStep

LEMMA AddIssueTyped ==
    ASSUME GitHubTypeOK, DraftTypeOK, NEW d \in Drafts, AddIssue(d)
    PROVE  GitHubTypeOK' /\ NextNumber \in 1..MaxIssues
<1>1. NextNumber \in 1..MaxIssues
    BY NextNumberTyped DEF AddIssue
<1>2. [state |-> "open", author |-> Owner(d), tests |-> held[d]] \in IssueRow
    BY OwnerOfAssumption DEF Owner, IssueRow, DraftTypeOK
<1>3. QED
    BY <1>1, <1>2 DEF AddIssue, GitHubTypeOK, Issue

LEMMA DialogTyped == TypeOK /\ Dialog => TypeOK'
<1> SUFFICES ASSUME TypeOK, Dialog PROVE TypeOK'
    OBVIOUS
<1> USE DEF TypeOK
<1>1. PICK d \in Drafts :
          \/ DialogStep(d) /\ UNCHANGED <<issues, lost>>
          \/ CreateIssue(d) \/ CreateFails(d)
    BY DEF Dialog
<1>2. UNCHANGED <<reopening, refresherVars, restarts, reopener>>
    BY DEF Dialog
<1>3. CallsTypeOK' /\ restarts' \in 0..MaxRestarts
    BY <1>2 DEF refresherVars, CallsTypeOK
<1>4. CASE DialogStep(d) /\ UNCHANGED <<issues, lost>>
    <2>1. StoreTypeOK' /\ DraftTypeOK'
        BY <1>4, DialogStepTyped
    <2>2. GitHubTypeOK'
        BY <1>4 DEF GitHubTypeOK
    <2> QED
        BY <1>3, <1>4, <2>1, <2>2
<1>5. CASE CreateIssue(d)
    <2>1. GitHubTypeOK' /\ NextNumber \in 1..MaxIssues
        BY <1>5, AddIssueTyped DEF CreateIssue
    <2>2. StoreTypeOK'
        BY <1>5 DEF CreateIssue, storeVars, StoreTypeOK
    <2>3. NextNumber # 0 /\ NextNumber \in 0..MaxIssues
        BY <2>1, BoundsAssumption
    <2>4. DraftTypeOK'
        BY <1>5, <2>3 DEF CreateIssue, SetStage, Loop, DraftTypeOK, Stage
    <2>5. lost' \in 0..MaxLost
        BY <1>5 DEF CreateIssue
    <2> QED
        BY <1>3, <2>1, <2>2, <2>4, <2>5
<1>6. CASE CreateFails(d)
    <2>1. GitHubTypeOK'
        BY <1>6, AddIssueTyped DEF CreateFails, GitHubTypeOK
    <2>2. StoreTypeOK'
        BY <1>6 DEF CreateFails, storeVars, StoreTypeOK
    <2>3. DraftTypeOK'
        BY <1>6 DEF CreateFails, SetStage, DraftTypeOK, Stage
    <2>4. lost' \in 0..MaxLost
        BY <1>6, BoundsAssumption DEF CreateFails
    <2> QED
        BY <1>3, <2>1, <2>2, <2>3, <2>4
<1>7. QED
    BY <1>1, <1>4, <1>5, <1>6

\* A step of someone who stops, picks up or reopens keeps the types.
LEMMA WorkOnItTyped == TypeOK /\ WorkOnIt => TypeOK'
<1> SUFFICES ASSUME TypeOK, WorkOnIt PROVE TypeOK'
    OBVIOUS
<1> USE DEF TypeOK
<1>1. PICK p \in People :
          \/ ReopenOk(p) \/ ReopenFails(p) \/ UndoReopen(p)
          \/ \E n \in Tests : Stop(p, n) \/ PickUp(p, n) \/ Reopen(p, n)
    BY DEF WorkOnIt
<1>2. UNCHANGED <<draftVars, refresherVars, lost, restarts>>
    BY DEF WorkOnIt
<1>3. DraftTypeOK' /\ lost' \in 0..MaxLost /\ restarts' \in 0..MaxRestarts
    BY <1>2 DEF draftVars, DraftTypeOK
<1>4. due' \subseteq Tests \X (1..MaxIssues) /\ said' \in Answer
    BY <1>2 DEF refresherVars, CallsTypeOK
<1>5. reopening[p].step # "none" =>
          reopening[p] \in [step : {"patching", "undo"}, test : Tests,
                            number : 1..MaxIssues, login : People, fresh : BOOLEAN]
    BY DEF CallsTypeOK, ReopenCall, NoReopening
<1>6. NoWork \in WorkRow
    BY BoundsAssumption DEF NoWork, WorkRow
<1>7. CASE ReopenOk(p)
    <2>1. StoreTypeOK'
        BY <1>7 DEF ReopenOk, storeVars, StoreTypeOK
    <2>2. GitHubTypeOK'
        BY <1>7 DEF ReopenOk, GitHubTypeOK, IssueRow
    <2>3. reopening' \in [People -> ReopenCall]
        BY <1>7 DEF ReopenOk, CallsTypeOK, ReopenCall
    <2>4. reopener' \in [Tests -> People \union {NoLogin}]
        BY <1>7 DEF ReopenOk, CallsTypeOK
    <2> QED
        BY <1>3, <1>4, <2>1, <2>2, <2>3, <2>4 DEF CallsTypeOK
<1>8. CASE ReopenFails(p)
    <2>1. StoreTypeOK'
        BY <1>8 DEF ReopenFails, storeVars, StoreTypeOK
    <2>2. GitHubTypeOK'
        BY <1>8 DEF ReopenFails, GitHubTypeOK, IssueRow
    <2>3. reopening' \in [People -> ReopenCall]
        BY <1>5, <1>8 DEF ReopenFails, CallsTypeOK, ReopenCall
    <2> QED
        BY <1>3, <1>4, <1>8, <2>1, <2>2, <2>3 DEF CallsTypeOK, ReopenFails
<1>9. CASE UndoReopen(p)
    <2> DEFINE n == reopening[p].test
               row == IF claims[n].state = "claimed" /\ claims[n].number = reopening[p].number
                      THEN [claims[n] EXCEPT !.login = reopening[p].login,
                                             !.issue = "closed",
                                             !.fresh = reopening[p].fresh]
                      ELSE claims[n]
               work == IF OnIssue(n, reopening[p].number) THEN NoWork ELSE working[n]
    <2>1. /\ n \in Tests
          /\ reopening[p].login \in People /\ reopening[p].fresh \in BOOLEAN
        BY <1>5, <1>9 DEF UndoReopen
    <2>2. row \in Claim
        <3>1. CASE claims[n].state = "claimed"
            <4>1. claims[n] \in [state : {"claimed"}, login : People,
                                 number : 1..MaxIssues, issue : {"open", "closed"},
                                 fresh : BOOLEAN]
                BY <2>1, <3>1, ClaimedTyped DEF StoreTypeOK
            <4> QED
                BY <2>1, <4>1 DEF StoreTypeOK, Claim
        <3>2. CASE claims[n].state # "claimed"
            BY <2>1, <3>2 DEF StoreTypeOK
        <3> QED
            BY <3>1, <3>2
    <2>3. work \in WorkRow
        BY <1>6, <2>1 DEF StoreTypeOK
    <2>4. claims' = [claims EXCEPT ![n] = row] /\ working' = [working EXCEPT ![n] = work]
        BY <1>9 DEF UndoReopen, StoreTypeOK
    <2> HIDE DEF n, row, work
    <2>5. StoreTypeOK'
        BY <2>1, <2>2, <2>3, <2>4 DEF StoreTypeOK
    <2>6. GitHubTypeOK' /\ CallsTypeOK'
        BY <1>4, <1>9 DEF UndoReopen, GitHubTypeOK, CallsTypeOK, ReopenCall
    <2> QED
        BY <1>3, <2>5, <2>6
<1>10. ASSUME NEW n \in Tests, Stop(p, n) PROVE TypeOK'
    <2>1. StoreTypeOK'
        BY <1>6, <1>10 DEF Stop, StoreTypeOK
    <2>2. GitHubTypeOK' /\ CallsTypeOK'
        BY <1>4, <1>10 DEF Stop, GitHubTypeOK, CallsTypeOK
    <2> QED
        BY <1>3, <2>1, <2>2
<1>11. ASSUME NEW n \in Tests, PickUp(p, n) PROVE TypeOK'
    <2>1. claims[n].number \in 0..MaxIssues
        BY <1>11, ClaimedTyped DEF PickUp, StoreTypeOK
    <2>2. Work(p, "issue", claims[n].number) \in WorkRow
        BY <2>1, WorkTyped
    <2>3. StoreTypeOK'
        BY <1>11, <2>2 DEF PickUp, StoreTypeOK
    <2>4. GitHubTypeOK' /\ CallsTypeOK'
        BY <1>4, <1>11 DEF PickUp, GitHubTypeOK, CallsTypeOK
    <2> QED
        BY <1>3, <2>3, <2>4
<1>12. ASSUME NEW n \in Tests, Reopen(p, n) PROVE TypeOK'
    <2>1. claims[n] \in [state : {"claimed"}, login : People, number : 1..MaxIssues,
                         issue : {"open", "closed"}, fresh : BOOLEAN]
        BY <1>12, ClaimedTyped DEF Reopen, ClosedClaim, StoreTypeOK
    <2>2. claims[n].number \in 1..MaxIssues /\ claims[n].number \in 0..MaxIssues
        BY <2>1
    <2>3. Work(p, "issue", claims[n].number) \in WorkRow
        BY <2>2, WorkTyped
    <2>4. Claimed(p, claims[n].number) \in Claim
        BY <2>2, RowsTyped DEF StoreTypeOK
    <2>5. StoreTypeOK'
        BY <1>12, <2>3, <2>4 DEF Reopen, StoreTypeOK
    <2>6. reopening' \in [People -> ReopenCall]
        BY <1>12, <2>1 DEF Reopen, CallsTypeOK, ReopenCall
    <2>7. GitHubTypeOK' /\ CallsTypeOK'
        BY <1>4, <1>12, <2>6 DEF Reopen, GitHubTypeOK, CallsTypeOK
    <2> QED
        BY <1>3, <2>5, <2>7
<1>13. QED
    BY <1>1, <1>7, <1>8, <1>9, <1>10, <1>11, <1>12

LEMMA RefresherTyped == TypeOK /\ Refresher => TypeOK'
<1> SUFFICES ASSUME TypeOK, Refresher PROVE TypeOK'
    OBVIOUS
<1> USE DEF TypeOK
<1>1. UNCHANGED <<issues, draftVars, reopening, lost, restarts, reopener>>
    BY DEF Refresher
<1>2. /\ DraftTypeOK' /\ lost' \in 0..MaxLost /\ restarts' \in 0..MaxRestarts
      /\ GitHubTypeOK'
      /\ reopening' \in [People -> ReopenCall]
      /\ reopener' \in [Tests -> People \union {NoLogin}]
    BY <1>1 DEF draftVars, DraftTypeOK, GitHubTypeOK, CallsTypeOK
<1>3. CASE StartRefresh
    <2>1. Reads \subseteq Tests \X (1..MaxIssues)
        BY ClaimedTyped DEF Reads, StoreTypeOK
    <2>2. StoreTypeOK'
        BY <1>3 DEF StartRefresh, storeVars, StoreTypeOK
    <2> QED
        BY <1>2, <1>3, <2>1, <2>2 DEF StartRefresh, CallsTypeOK
<1>4. CASE ReadFails
    <2>1. StoreTypeOK'
        BY <1>4 DEF ReadFails, storeVars, StoreTypeOK
    <2> QED
        BY <1>2, <1>4, <2>1 DEF ReadFails, CallsTypeOK
<1>5. CASE ApplyIssue
    <2> DEFINE n == said.test
               row == IF claims[n].state = "claimed" /\ claims[n].number = said.number
                      THEN [claims[n] EXCEPT !.issue = said.state, !.fresh = TRUE]
                      ELSE claims[n]
               work == IF said.state = "closed" /\ EndsWork(n, said.number)
                       THEN NoWork ELSE working[n]
    <2>1. said \in [test : Tests, number : 1..MaxIssues, state : {"open", "closed"}]
        BY <1>5 DEF ApplyIssue, CallsTypeOK, Answer
    <2>2. n \in Tests
        BY <2>1
    <2>3. row \in Claim
        <3>1. CASE claims[n].state = "claimed"
            <4>1. claims[n] \in [state : {"claimed"}, login : People,
                                 number : 1..MaxIssues, issue : {"open", "closed"},
                                 fresh : BOOLEAN]
                BY <2>2, <3>1, ClaimedTyped DEF StoreTypeOK
            <4> QED
                BY <2>1, <2>2, <4>1 DEF StoreTypeOK, Claim
        <3>2. CASE claims[n].state # "claimed"
            BY <2>2, <3>2 DEF StoreTypeOK
        <3> QED
            BY <3>1, <3>2
    <2>4. work \in WorkRow
        BY <2>2, BoundsAssumption DEF StoreTypeOK, NoWork, WorkRow
    <2>5. claims' = [claims EXCEPT ![n] = row] /\ working' = [working EXCEPT ![n] = work]
        BY <1>5 DEF ApplyIssue
    <2> HIDE DEF n, row, work
    <2>6. StoreTypeOK'
        BY <2>2, <2>3, <2>4, <2>5 DEF StoreTypeOK
    <2>7. CallsTypeOK'
        BY <1>2, <1>5 DEF ApplyIssue, CallsTypeOK, Answer
    <2> QED
        BY <1>2, <2>6, <2>7
<1>6. ASSUME NEW n \in Tests, NEW k \in DOMAIN issues, ReadIssue(n, k)
      PROVE  TypeOK'
    <2>1. k \in 1..MaxIssues /\ issues[k].state \in {"open", "closed"}
        BY DEF GitHubTypeOK, IssueRow
    <2>2. said' \in Answer
        BY <1>6, <2>1 DEF ReadIssue, Answer
    <2>3. StoreTypeOK'
        BY <1>6 DEF ReadIssue, storeVars, StoreTypeOK
    <2> QED
        BY <1>2, <1>6, <2>2, <2>3 DEF ReadIssue, CallsTypeOK
<1>7. QED
    BY <1>3, <1>4, <1>5, <1>6 DEF Refresher

LEMMA TimeTyped == TypeOK /\ Time => TypeOK'
<1> SUFFICES ASSUME TypeOK, Time PROVE TypeOK'
    OBVIOUS
<1> USE DEF TypeOK
<1>1. /\ DraftTypeOK' /\ GitHubTypeOK' /\ CallsTypeOK'
      /\ lost' \in 0..MaxLost /\ restarts' \in 0..MaxRestarts
    BY DEF Time, draftVars, refresherVars, DraftTypeOK, GitHubTypeOK, CallsTypeOK
<1>2. PICK n \in Tests : Lapse(n) \/ Age(n)
    BY DEF Time
<1>3. claims' \in [Tests -> Claim]
    <2>1. CASE Lapse(n)
        <3>1. [claims[n] EXCEPT !.live = FALSE] \in Claim
            BY <2>1, DraftingTyped DEF Lapse, StoreTypeOK, Claim
        <3> QED
            BY <2>1, <3>1 DEF Lapse, StoreTypeOK
    <2>2. CASE Age(n)
        <3>1. [claims[n] EXCEPT !.fresh = FALSE] \in Claim
            BY <2>2, ClaimedTyped DEF Age, StoreTypeOK, Claim
        <3> QED
            BY <2>2, <3>1 DEF Age, StoreTypeOK
    <2> QED
        BY <1>2, <2>1, <2>2
<1>4. QED
    BY <1>1, <1>3 DEF Time, StoreTypeOK

LEMMA RestartTyped == TypeOK /\ Restart => TypeOK'
<1> SUFFICES ASSUME TypeOK, Restart PROVE TypeOK'
    OBVIOUS
<1> USE DEF TypeOK
<1>1. StoreTypeOK' /\ GitHubTypeOK'
    BY DEF Restart, storeVars, StoreTypeOK, GitHubTypeOK
<1>2. DraftTypeOK'
    BY BoundsAssumption DEF Restart, DraftTypeOK, Stage
<1>3. CallsTypeOK'
    BY DEF Restart, CallsTypeOK, ReopenCall, Answer
<1>4. QED
    BY <1>1, <1>2, <1>3, BoundsAssumption DEF Restart

LEMMA ToggleTyped ==
    ASSUME TypeOK, NEW k \in DOMAIN issues, ToggleIssue(k)
    PROVE  TypeOK'
<1> USE DEF TypeOK
<1>1. StoreTypeOK' /\ DraftTypeOK'
    BY DEF ToggleIssue, storeVars, draftVars, StoreTypeOK, DraftTypeOK
<1>2. GitHubTypeOK'
    BY DEF ToggleIssue, GitHubTypeOK, IssueRow
<1>3. CallsTypeOK'
    BY DEF ToggleIssue, refresherVars, CallsTypeOK
<1>4. QED
    BY <1>1, <1>2, <1>3 DEF ToggleIssue

LEMMA TypeNext == TypeOK /\ [Next]_vars => TypeOK'
<1> SUFFICES ASSUME TypeOK, [Next]_vars PROVE TypeOK'
    OBVIOUS
<1>1. CASE UNCHANGED vars
    BY <1>1 DEF vars, storeVars, draftVars, refresherVars, TypeOK, StoreTypeOK,
        DraftTypeOK, GitHubTypeOK, CallsTypeOK
<1>2. CASE Next
    BY <1>2, DialogTyped, WorkOnItTyped, RefresherTyped, TimeTyped, RestartTyped,
       ToggleTyped DEF Next
<1>3. QED
    BY <1>1, <1>2

\* Every variable holds a value of its kind, for any tests, people and dialogs:
\* a dialog has tests of its own only, and an issue at hand just while it
\* confirms it (claims.py's two tables and the handlers over them).
THEOREM TypeCorrect == Spec => []TypeOK
BY TypeInit, TypeNext, PTL DEF Spec

-----------------------------------------------------------------------------
(* Work in an issue is work in the issue the claim tracks                    *)

\* Once published, a claim stays published, under its number.
ClaimKept(n) ==
    claims[n].state = "claimed" =>
        claims'[n].state = "claimed" /\ claims'[n].number = claims[n].number

\* Nobody is put in an issue but in the one the claim tracks.
WorkKept(n) ==
    \/ working'[n] = working[n]
    \/ working'[n].via # "issue"
    \/ claims'[n].state = "claimed" /\ claims'[n].number = working'[n].number

\* What a step must do for the two invariants, when no dialog is moved on.
LEMMA TrackedKept ==
    ASSUME IssueWorkIsClaimed, ConfirmedIsClaimed, DraftTypeOK,
           \A n \in Tests : ClaimKept(n) /\ WorkKept(n),
           at' = at, number' = number
    PROVE  IssueWorkIsClaimed' /\ ConfirmedIsClaimed'
<1>1. IssueWorkIsClaimed'
    BY DEF IssueWorkIsClaimed, ClaimKept, WorkKept
<1>2. ConfirmedIsClaimed'
    BY DEF ConfirmedIsClaimed, ClaimKept, DraftTypeOK
<1>3. QED
    BY <1>1, <1>2

\* Reserving and releasing leave a published claim alone.
LEMMA RowChangeKeeps ==
    ASSUME StoreTypeOK, NEW p \in People, NEW n \in Tests,
           \/ claims' = [claims EXCEPT ![n] = Reserved(n, p)]
           \/ claims' = [claims EXCEPT ![n] = Released(n, p)]
    PROVE  \A m \in Tests : ClaimKept(m)
<1> SUFFICES ASSUME NEW m \in Tests PROVE ClaimKept(m)
    OBVIOUS
<1>1. CASE m # n
    BY <1>1 DEF ClaimKept, StoreTypeOK
<1>2. CASE m = n
    BY <1>2 DEF ClaimKept, StoreTypeOK, Reserved, Released
<1>3. QED
    BY <1>1, <1>2

LEMMA DialogStepTracked ==
    ASSUME StoreTypeOK, DraftTypeOK, IssueWorkIsClaimed, ConfirmedIsClaimed,
           OneConfirms', NEW d \in Drafts, DialogStep(d)
    PROVE  IssueWorkIsClaimed' /\ ConfirmedIsClaimed'
<1> Owner(d) \in People
    BY OwnerOfAssumption DEF Owner
<1>1. ASSUME UNCHANGED <<claims, working, at, number>>
      PROVE  IssueWorkIsClaimed' /\ ConfirmedIsClaimed'
    BY <1>1, TrackedKept DEF ClaimKept, WorkKept
<1>2. ASSUME \A n \in Tests : ClaimKept(n), UNCHANGED <<working, at, number>>
      PROVE  IssueWorkIsClaimed' /\ ConfirmedIsClaimed'
    BY <1>2, TrackedKept DEF WorkKept
<1>3. CASE \/ StartDraft(d) \/ DraftReady(d) \/ DraftFails(d) \/ TakeDraft(d)
           \/ AgentReserved(d) \/ Expire(d)
           \/ \E action \in {"publish", "agent"} : StartAction(d, action)
    BY <1>1, <1>3 DEF StartDraft, DraftReady, DraftFails, TakeDraft, AgentReserved,
       Expire, StartAction, storeVars
<1>4. CASE StartOnIssue(d)
    <2> DEFINE t == at[d]
    <2>1. /\ t \in Tests /\ t # NoTest
          /\ claims[t].state = "claimed" /\ claims[t].number = number[d]
        BY <1>4 DEF StartOnIssue, DraftTypeOK, ConfirmedIsClaimed
    <2>2. Released(t, Owner(d)) = claims[t]
        BY <2>1 DEF Released
    <2>3. claims' = claims
        BY <1>4, <2>1, <2>2 DEF StartOnIssue, StoreTypeOK
    <2>4. working' = [working EXCEPT ![t] = Work(Owner(d), "issue", number[d])]
        BY <1>4 DEF StartOnIssue
    <2>5. at' = [at EXCEPT ![d] = NoTest]
        BY <1>4 DEF StartOnIssue
    <2>6. \A e \in Drafts : at'[e] # NoTest => number'[e] = number[e]
        BY <1>4, <2>5 DEF StartOnIssue, DraftTypeOK
    <2> HIDE DEF t
    <2>7. ConfirmedIsClaimed'
        BY <2>3, <2>5, <2>6 DEF ConfirmedIsClaimed, DraftTypeOK
    <2>8. \A n \in Tests : n # t /\ (\A e \in Drafts : at'[e] # n) =>
                              \A e \in Drafts : at[e] # n
        BY <2>5 DEF DraftTypeOK, t
    <2>9. Work(Owner(d), "issue", number[d]).number = number[d]
        BY DEF Work
    <2>10. IssueWorkIsClaimed'
        BY <2>1, <2>3, <2>4, <2>8, <2>9 DEF IssueWorkIsClaimed, StoreTypeOK
    <2> QED
        BY <2>7, <2>10
<1>5. ASSUME NEW n \in Tests,
             \/ ReserveForDraft(d, n) \/ DropReservation(d, n)
             \/ ReserveAgain(d, n) \/ CloseDialog(d, n)
      PROVE  IssueWorkIsClaimed' /\ ConfirmedIsClaimed'
    <2>1. \/ claims' = claims
          \/ claims' = [claims EXCEPT ![n] = Reserved(n, Owner(d))]
          \/ claims' = [claims EXCEPT ![n] = Released(n, Owner(d))]
        BY <1>5 DEF ReserveForDraft, DropReservation, ReserveAgain, CloseDialog
    <2>2. \A m \in Tests : ClaimKept(m)
        BY <2>1, RowChangeKeeps DEF ClaimKept
    <2>3. UNCHANGED <<working, at, number>>
        BY <1>5 DEF ReserveForDraft, DropReservation, ReserveAgain, CloseDialog,
           draftVars
    <2> QED
        BY <1>2, <2>2, <2>3
<1>6. ASSUME NEW n \in Tests, Confirm(d, n)
      PROVE  IssueWorkIsClaimed' /\ ConfirmedIsClaimed'
    <2>1. /\ at' = [at EXCEPT ![d] = n] /\ UNCHANGED <<working, number>>
          /\ claims' = [claims EXCEPT ![n] = Claimed(Owner(d), number[d])]
          /\ n # NoTest
        BY <1>6, NoneAssumption DEF Confirm
    <2>2. /\ claims'[n].state = "claimed" /\ claims'[n].number = number[d]
          /\ \A m \in Tests : m # n => claims'[m] = claims[m]
        BY <2>1 DEF StoreTypeOK, Claimed
    <2>3. at'[d] = n /\ \A e \in Drafts : e # d => at'[e] = at[e]
        BY <2>1 DEF DraftTypeOK
    <2>4. \A e \in Drafts : e # d => at'[e] # n
        BY <2>1, <2>3 DEF OneConfirms
    <2>5. ConfirmedIsClaimed'
        BY <2>1, <2>2, <2>3, <2>4 DEF ConfirmedIsClaimed, DraftTypeOK
    <2>6. \A m \in Tests : (\A e \in Drafts : at'[e] # m) =>
              m # n /\ \A e \in Drafts : at[e] # m
        <3> SUFFICES ASSUME NEW m \in Tests, \A e \in Drafts : at'[e] # m
                     PROVE  m # n /\ \A e \in Drafts : at[e] # m
            OBVIOUS
        <3>1. m # n
            BY <2>3
        <3>2. at[d] # m
            BY <1>6, NoneAssumption DEF Confirm
        <3> QED
            BY <2>3, <3>1, <3>2
    <2>7. IssueWorkIsClaimed'
        BY <2>1, <2>2, <2>6 DEF IssueWorkIsClaimed
    <2> QED
        BY <2>5, <2>7
<1>7. ASSUME NEW n \in Tests, StartAgent(d, n)
      PROVE  IssueWorkIsClaimed' /\ ConfirmedIsClaimed'
    <2>1. \A m \in Tests : ClaimKept(m)
        BY <1>7, RowChangeKeeps DEF StartAgent
    <2>2. \A m \in Tests : WorkKept(m)
        BY <1>7 DEF StartAgent, StoreTypeOK, WorkKept, Work
    <2> QED
        BY <1>7, <2>1, <2>2, TrackedKept DEF StartAgent
<1>8. QED
    BY <1>3, <1>4, <1>5, <1>6, <1>7 DEF DialogStep

LEMMA DialogTracked ==
    ASSUME TypeOK, IssueWorkIsClaimed, ConfirmedIsClaimed, OneConfirms', Dialog
    PROVE  IssueWorkIsClaimed' /\ ConfirmedIsClaimed'
<1> USE DEF TypeOK
<1>1. PICK d \in Drafts :
          \/ DialogStep(d) \/ CreateIssue(d) \/ CreateFails(d)
    BY DEF Dialog
<1>2. CASE DialogStep(d)
    BY <1>2, DialogStepTracked
<1>3. CASE CreateIssue(d)
    <2>1. at[d] = NoTest
        BY <1>3 DEF CreateIssue, DraftTypeOK
    <2>2. /\ UNCHANGED <<claims, working, at>>
          /\ \A e \in Drafts : e # d => number'[e] = number[e]
        BY <1>3 DEF CreateIssue, storeVars, DraftTypeOK
    <2>3. IssueWorkIsClaimed'
        BY <2>2 DEF IssueWorkIsClaimed
    <2>4. ConfirmedIsClaimed'
        BY <2>1, <2>2 DEF ConfirmedIsClaimed
    <2> QED
        BY <2>3, <2>4
<1>4. CASE CreateFails(d)
    <2>1. UNCHANGED <<claims, working, at, number>>
        BY <1>4 DEF CreateFails, storeVars
    <2> QED
        BY <2>1 DEF IssueWorkIsClaimed, ConfirmedIsClaimed
<1>5. QED
    BY <1>1, <1>2, <1>3, <1>4

LEMMA WorkOnItTracked ==
    ASSUME TypeOK, IssueWorkIsClaimed, ConfirmedIsClaimed, WorkOnIt
    PROVE  IssueWorkIsClaimed' /\ ConfirmedIsClaimed'
<1> USE DEF TypeOK
<1>1. PICK p \in People :
          \/ ReopenOk(p) \/ ReopenFails(p) \/ UndoReopen(p)
          \/ \E n \in Tests : Stop(p, n) \/ PickUp(p, n) \/ Reopen(p, n)
    BY DEF WorkOnIt
<1>2. at' = at /\ number' = number
    BY DEF WorkOnIt, draftVars
<1>3. SUFFICES \A n \in Tests : ClaimKept(n) /\ WorkKept(n)
    BY <1>2, TrackedKept
<1>4. CASE ReopenOk(p) \/ ReopenFails(p)
    BY <1>4 DEF ReopenOk, ReopenFails, storeVars, ClaimKept, WorkKept
<1>5. CASE UndoReopen(p)
    <2> DEFINE n == reopening[p].test
    <2>1. n \in Tests
        BY <1>5 DEF UndoReopen, CallsTypeOK, ReopenCall, NoReopening
    <2>2. ClaimKept(n)
        BY <1>5, <2>1, ClaimedTyped DEF UndoReopen, StoreTypeOK, ClaimKept
    <2>3. WorkKept(n)
        BY <1>5, <2>1 DEF UndoReopen, StoreTypeOK, WorkKept, NoWork
    <2>4. \A m \in Tests : m # n => claims'[m] = claims[m] /\ working'[m] = working[m]
        BY <1>5 DEF UndoReopen, StoreTypeOK
    <2> HIDE DEF n
    <2> QED
        BY <2>2, <2>3, <2>4 DEF ClaimKept, WorkKept
<1>6. ASSUME NEW n \in Tests, Stop(p, n)
      PROVE  \A m \in Tests : ClaimKept(m) /\ WorkKept(m)
    BY <1>6 DEF Stop, StoreTypeOK, ClaimKept, WorkKept, NoWork
<1>7. ASSUME NEW n \in Tests, PickUp(p, n)
      PROVE  \A m \in Tests : ClaimKept(m) /\ WorkKept(m)
    BY <1>7 DEF PickUp, StoreTypeOK, ClaimKept, WorkKept, Work
<1>8. ASSUME NEW n \in Tests, Reopen(p, n)
      PROVE  \A m \in Tests : ClaimKept(m) /\ WorkKept(m)
    BY <1>8 DEF Reopen, StoreTypeOK, ClaimKept, WorkKept, Claimed, Work
<1>9. QED
    BY <1>1, <1>4, <1>5, <1>6, <1>7, <1>8

LEMMA RefresherTracked ==
    ASSUME TypeOK, IssueWorkIsClaimed, ConfirmedIsClaimed, Refresher
    PROVE  IssueWorkIsClaimed' /\ ConfirmedIsClaimed'
<1> USE DEF TypeOK
<1>1. at' = at /\ number' = number
    BY DEF Refresher, draftVars
<1>2. SUFFICES \A n \in Tests : ClaimKept(n) /\ WorkKept(n)
    BY <1>1, TrackedKept
<1>3. CASE StartRefresh \/ ReadFails \/ \E n \in Tests, k \in DOMAIN issues : ReadIssue(n, k)
    BY <1>3 DEF StartRefresh, ReadFails, ReadIssue, storeVars, ClaimKept, WorkKept
<1>4. CASE ApplyIssue
    <2> DEFINE n == said.test
    <2>1. n \in Tests
        BY <1>4 DEF ApplyIssue, CallsTypeOK, Answer
    <2>2. ClaimKept(n)
        BY <1>4, <2>1, ClaimedTyped DEF ApplyIssue, StoreTypeOK, ClaimKept
    <2>3. WorkKept(n)
        BY <1>4, <2>1 DEF ApplyIssue, StoreTypeOK, WorkKept, NoWork
    <2>4. \A m \in Tests : m # n => claims'[m] = claims[m] /\ working'[m] = working[m]
        BY <1>4 DEF ApplyIssue, StoreTypeOK
    <2> HIDE DEF n
    <2> QED
        BY <2>2, <2>3, <2>4 DEF ClaimKept, WorkKept
<1>5. QED
    BY <1>3, <1>4 DEF Refresher

LEMMA TimeTracked ==
    ASSUME TypeOK, IssueWorkIsClaimed, ConfirmedIsClaimed, Time
    PROVE  IssueWorkIsClaimed' /\ ConfirmedIsClaimed'
<1> USE DEF TypeOK
<1>1. UNCHANGED <<at, number, working>>
    BY DEF Time, draftVars
<1>2. PICK n \in Tests : Lapse(n) \/ Age(n)
    BY DEF Time
<1>3. \A m \in Tests : ClaimKept(m)
    <2>1. CASE Lapse(n)
        BY <2>1 DEF Lapse, StoreTypeOK, ClaimKept
    <2>2. CASE Age(n)
        BY <2>2, ClaimedTyped DEF Age, StoreTypeOK, ClaimKept
    <2> QED
        BY <1>2, <2>1, <2>2
<1>4. QED
    BY <1>1, <1>3, TrackedKept DEF WorkKept

LEMMA TrackedNext ==
    ASSUME TypeOK, IssueWorkIsClaimed, ConfirmedIsClaimed, OneConfirms',
           DiesBetween, [Next]_vars
    PROVE  IssueWorkIsClaimed' /\ ConfirmedIsClaimed'
<1>1. CASE UNCHANGED vars
    BY <1>1 DEF vars, storeVars, draftVars, IssueWorkIsClaimed, ConfirmedIsClaimed
<1>2. CASE Restart
    <2>1. restarts' # restarts
        BY <1>2, BoundsAssumption DEF Restart, TypeOK
    <2>2. \A d \in Drafts : at[d] = NoTest /\ at'[d] = NoTest
        BY <1>2, <2>1 DEF Restart, DiesBetween
    <2>3. UNCHANGED <<claims, working>>
        BY <1>2 DEF Restart, storeVars
    <2> QED
        BY <2>2, <2>3, NoneAssumption DEF IssueWorkIsClaimed, ConfirmedIsClaimed
<1>3. ASSUME NEW k \in DOMAIN issues, ToggleIssue(k)
      PROVE  IssueWorkIsClaimed' /\ ConfirmedIsClaimed'
    BY <1>3 DEF ToggleIssue, storeVars, draftVars, IssueWorkIsClaimed, ConfirmedIsClaimed
<1>4. QED
    BY <1>1, <1>2, <1>3, DialogTracked, WorkOnItTracked, RefresherTracked, TimeTracked
       DEF Next

\* Work in an issue is work in the one the claim tracks, for any dialogs about
\* any tests, as long as no two dialogs confirm the same test at once and the
\* process does not die between confirm and start: these are the only two ways
\* to leave somebody in an issue nobody reads again (claims.py, confirm; _confirm
\* and start in trace_exporter.py are two transactions).
THEOREM IssueWorkIsClaimedCorrect ==
    Spec /\ []OneConfirms /\ DiesBetweenTests => []IssueWorkIsClaimed
<1>1. Init => IssueWorkIsClaimed /\ ConfirmedIsClaimed
    BY DEF Init, NoWork, IssueWorkIsClaimed, ConfirmedIsClaimed
<1>2. TypeOK /\ (IssueWorkIsClaimed /\ ConfirmedIsClaimed) /\ OneConfirms'
          /\ [Next]_vars /\ [DiesBetween]_vars
      => (IssueWorkIsClaimed /\ ConfirmedIsClaimed)'
    <2> SUFFICES ASSUME TypeOK, IssueWorkIsClaimed, ConfirmedIsClaimed,
                        OneConfirms', [Next]_vars, [DiesBetween]_vars
                 PROVE  IssueWorkIsClaimed' /\ ConfirmedIsClaimed'
        OBVIOUS
    <2>1. CASE UNCHANGED vars
        BY <2>1 DEF vars, storeVars, draftVars, IssueWorkIsClaimed, ConfirmedIsClaimed
    <2>2. CASE DiesBetween
        BY <2>2, TrackedNext
    <2> QED
        BY <2>1, <2>2
<1>3. QED
    BY <1>1, <1>2, TypeCorrect, PTL DEF Spec, DiesBetweenTests

-----------------------------------------------------------------------------
(* Who holds a test until the issue about it is made                         *)

\* p is on the test, or has it reserved and nobody is on it; or it is claimed.
Hold(p, n) ==
    \/ claims[n].state = "claimed"
    \/ working[n].login = p
    \/ /\ working[n] = NoWork
       /\ claims[n].state = "drafting" /\ claims[n].login = p /\ claims[n].live

\* The dialog counts on n: it has reserved it again and not started on it yet.
Secured(d, n) ==
    /\ n \in held[d]
    /\ \/ stage[d] \in {"publish", "agent"} /\ n \notin left[d]
       \/ stage[d] = "creating"
       \/ stage[d] = "starting" /\ n \in left[d]

\* What the dialogs rely on, as long as everybody waits for the answers: what a
\* dialog counts on is its owner's, and who works in an issue works on a claim.
Holding ==
    /\ \A d \in Drafts, n \in Tests : Secured(d, n) => Hold(Owner(d), n)
    /\ \A d \in Drafts : stage[d] \in {"publish", "agent", "starting"} => left[d] \subseteq held[d]
    /\ \A d \in Drafts : at[d] # NoTest => claims[at[d]].state = "claimed"
    /\ \A n \in Tests : working[n].via = "issue" => claims[n].state = "claimed"

\* Everybody waits for the answer, and has one dialog about a test.
Patient ==
    /\ Impatient = {}
    /\ \A d, e \in Drafts :
          OwnerOf[d] = OwnerOf[e] /\ TestsOf[d] \intersect TestsOf[e] # {} => d = e

LEMMA HoldingInit == Init => Holding
<1> SUFFICES ASSUME Init PROVE Holding
    OBVIOUS
<1>1. \A d \in Drafts, n \in Tests : ~Secured(d, n)
    BY DEF Init, Secured
<1>2. QED
    BY <1>1 DEF Init, Holding, NoWork

\* A claimed test stays claimed.
StaysClaimed(n) == claims[n].state = "claimed" => claims'[n].state = "claimed"

\* What a step must do for Holding.
LEMMA HoldingFrame ==
    ASSUME Holding, TypeOK,
           \A n \in Tests : StaysClaimed(n),
           \A n \in Tests :
              \/ working'[n] = working[n] \/ working'[n].via # "issue"
              \/ claims'[n].state = "claimed",
           \A d \in Drafts :
              at'[d] # NoTest => at'[d] = at[d] \/ claims'[at'[d]].state = "claimed",
           \A d \in Drafts :
              stage'[d] \in {"publish", "agent", "starting"} => left'[d] \subseteq held'[d],
           \A d \in Drafts, n \in Tests :
              Secured(d, n)' => Secured(d, n) \/ Hold(Owner(d), n)',
           \A d \in Drafts, n \in Tests :
              Secured(d, n) /\ Hold(Owner(d), n) => Hold(Owner(d), n)' \/ ~Secured(d, n)'
    PROVE  Holding'
<1>1. \A d \in Drafts : at'[d] # NoTest => claims'[at'[d]].state = "claimed"
    <2> SUFFICES ASSUME NEW d \in Drafts, at'[d] # NoTest
                 PROVE  claims'[at'[d]].state = "claimed"
        OBVIOUS
    <2>1. CASE at'[d] = at[d]
        <3>1. at[d] \in Tests /\ claims[at[d]].state = "claimed"
            BY <2>1 DEF Holding, TypeOK, DraftTypeOK
        <3> QED
            BY <2>1, <3>1 DEF StaysClaimed
    <2>2. CASE at'[d] # at[d]
        BY <2>2
    <2> QED
        BY <2>1, <2>2
<1>2. \A n \in Tests : working'[n].via = "issue" => claims'[n].state = "claimed"
    BY DEF Holding, StaysClaimed
<1>3. \A d \in Drafts, n \in Tests : Secured(d, n)' => Hold(Owner(d), n)'
    BY DEF Holding
<1>4. QED
    BY <1>1, <1>2, <1>3 DEF Holding, Owner

\* Steps that leave the two tables alone.
LEMMA HoldingTablesKept ==
    ASSUME Holding, TypeOK, UNCHANGED <<claims, working>>,
           \A d \in Drafts : at'[d] = at[d] \/ at'[d] = NoTest,
           \A d \in Drafts :
              stage'[d] \in {"publish", "agent", "starting"} => left'[d] \subseteq held'[d],
           \A d \in Drafts, n \in Tests : Secured(d, n)' => Secured(d, n)
    PROVE  Holding'
<1>1. \A n \in Tests : StaysClaimed(n)
    BY DEF StaysClaimed
<1>2. \A d \in Drafts, n \in Tests : Hold(Owner(d), n) => Hold(Owner(d), n)'
    BY DEF Hold, Owner
<1>3. QED
    BY <1>1, <1>2, HoldingFrame

\* A reservation of q's takes nothing from p, who may be q.
LEMMA ReservationLeaves ==
    ASSUME TypeOK, NEW n \in Tests, NEW p \in People, NEW q \in People,
           MayReserve(n, q), Hold(p, n), working' = working,
           claims' = [claims EXCEPT ![n] = Reserved(n, q)]
    PROVE  Hold(p, n)'
<1>1. claims'[n] = Reserved(n, q)
    BY DEF TypeOK, StoreTypeOK
<1>2. CASE claims[n].state = "claimed"
    BY <1>1, <1>2 DEF Reserved, Hold
<1>3. CASE working[n].login = p
    BY <1>3 DEF Hold
<1>4. CASE /\ working[n] = NoWork
           /\ claims[n].state = "drafting" /\ claims[n].login = p /\ claims[n].live
    <2>1. q = p
        BY <1>4 DEF MayReserve
    <2>2. claims'[n] = Drafting(p)
        BY <1>1, <1>4, <2>1 DEF Reserved
    <2> QED
        BY <1>4, <2>2 DEF Hold, Drafting
<1>5. QED
    BY <1>2, <1>3, <1>4 DEF Hold

\* And it is good for q.
LEMMA ReservationHolds ==
    ASSUME TypeOK, NEW n \in Tests, NEW q \in People, MayReserve(n, q),
           working' = working, claims' = [claims EXCEPT ![n] = Reserved(n, q)]
    PROVE  Hold(q, n)'
<1>1. claims'[n] = Reserved(n, q)
    BY DEF TypeOK, StoreTypeOK
<1>2. CASE claims[n].state = "claimed"
    BY <1>1, <1>2 DEF Reserved, Hold
<1>3. CASE claims[n].state # "claimed"
    <2>1. claims'[n] = Drafting(q)
        BY <1>1, <1>3 DEF Reserved
    <2> QED
        BY <2>1 DEF MayReserve, Hold, Drafting
<1>4. QED
    BY <1>2, <1>3

\* Only one person can be on a test, or have it reserved, that is not claimed.
LEMMA OneHolds ==
    ASSUME NEW n \in Tests, NEW p \in People, NEW q \in People,
           Hold(p, n), Hold(q, n), claims[n].state # "claimed"
    PROVE  p = q
BY NoneAssumption DEF Hold, NoWork

LEMMA DialogStepHolding ==
    ASSUME Holding, TypeOK, Patient, NEW d \in Drafts, DialogStep(d)
    PROVE  Holding'
<1> USE DEF TypeOK
<1> DEFINE Others == \A e \in Drafts : e # d => /\ stage'[e] = stage[e] /\ held'[e] = held[e]
                                                /\ left'[e] = left[e] /\ at'[e] = at[e]
<1>0. \A e \in Drafts : Owner(e) \in People /\ TestsOf[e] \subseteq Tests
    BY OwnerOfAssumption, TestsOfAssumption DEF Owner
<1>1. ASSUME UNCHANGED <<claims, working>>, Others, at'[d] = at[d] \/ at'[d] = NoTest,
             stage'[d] \in {"publish", "agent", "starting"} => left'[d] \subseteq held'[d],
             \A n \in Tests : Secured(d, n)' => Secured(d, n)
      PROVE  Holding'
    <2>1. \A e \in Drafts, n \in Tests : Secured(e, n)' => Secured(e, n)
        BY <1>1 DEF Secured
    <2>2. \A e \in Drafts : stage'[e] \in {"publish", "agent", "starting"} =>
                                left'[e] \subseteq held'[e]
        BY <1>1 DEF Holding
    <2> QED
        BY <1>1, <2>1, <2>2, HoldingTablesKept
<1>2. CASE StartDraft(d)
    <2>1. UNCHANGED <<claims, working>> /\ Others /\ at' = at /\ stage'[d] = "reserving"
        BY <1>2 DEF StartDraft, storeVars, SetStage, Loop, DraftTypeOK
    <2> HIDE DEF Others
    <2> QED
        BY <1>1, <2>1 DEF Secured
<1>3. CASE DraftReady(d)
    <2>1. UNCHANGED <<claims, working>> /\ Others /\ at' = at /\ stage'[d] = "open"
        BY <1>3 DEF DraftReady, storeVars, SetStage, DraftTypeOK
    <2> HIDE DEF Others
    <2> QED
        BY <1>1, <2>1 DEF Secured
<1>4. CASE DraftFails(d)
    <2>1. /\ UNCHANGED <<claims, working>> /\ Others /\ at' = at
          /\ stage'[d] \in {"dropping", "unused"}
        BY <1>4 DEF DraftFails, storeVars, SetStage, Loop, DraftTypeOK
    <2> HIDE DEF Others
    <2> QED
        BY <1>1, <2>1 DEF Secured
<1>5. CASE TakeDraft(d)
    <2>1. /\ UNCHANGED <<claims, working>> /\ Others /\ at' = at
          /\ stage[d] = "publish" /\ left[d] = {} /\ held' = held
          /\ stage'[d] \in {"creating", "open"}
        BY <1>5 DEF TakeDraft, storeVars, SetStage, DraftTypeOK
    <2> HIDE DEF Others
    <2> QED
        BY <1>1, <2>1 DEF Secured
<1>6. CASE AgentReserved(d)
    <2>1. /\ UNCHANGED <<claims, working>> /\ Others /\ at' = at
          /\ stage[d] = "agent" /\ left[d] = {} /\ held' = held
          /\ stage'[d] = "starting" /\ left'[d] = held[d]
        BY <1>6 DEF AgentReserved, storeVars, SetStage, Loop, DraftTypeOK
    <2> HIDE DEF Others
    <2> QED
        BY <1>1, <2>1 DEF Secured
<1>7. CASE Expire(d)
    <2>1. /\ UNCHANGED <<claims, working>> /\ Others /\ at' = at
          /\ UNCHANGED <<stage, held, left>>
        BY <1>7 DEF Expire, storeVars
    <2> HIDE DEF Others
    <2> QED
        BY <1>1, <2>1 DEF Secured, Holding
<1>8. ASSUME NEW action \in {"publish", "agent"}, StartAction(d, action) PROVE Holding'
    <2>1. /\ UNCHANGED <<claims, working>> /\ Others /\ at' = at /\ held' = held
          /\ stage'[d] = action /\ left'[d] = held[d]
        BY <1>8 DEF StartAction, storeVars, SetStage, Loop, DraftTypeOK
    <2> HIDE DEF Others
    <2> QED
        BY <1>1, <1>8, <2>1 DEF Secured
<1>9. ASSUME claims' = claims \/ \E n \in Tests :
                 /\ claims' = [claims EXCEPT ![n] = Reserved(n, Owner(d))]
                 /\ MayReserve(n, Owner(d)),
             working' = working, at' = at, Others,
             stage'[d] \in {"publish", "agent", "starting"} => left'[d] \subseteq held'[d],
             \A n \in Tests : Secured(d, n)' => Secured(d, n) \/ Hold(Owner(d), n)'
      PROVE  Holding'
    <2>1. \A n \in Tests : StaysClaimed(n)
        BY <1>0, <1>9, RowChangeKeeps DEF ClaimKept, StaysClaimed
    <2>2. ASSUME NEW e \in Drafts, NEW m \in Tests, Hold(Owner(e), m) PROVE Hold(Owner(e), m)'
        <3>1. CASE claims' = claims
            BY <1>9, <2>2, <3>1 DEF Hold, Owner
        <3>2. ASSUME NEW n \in Tests, claims' = [claims EXCEPT ![n] = Reserved(n, Owner(d))],
                     MayReserve(n, Owner(d))
              PROVE  Hold(Owner(e), m)'
            <4>1. CASE m = n
                <5>1. \A p \in People : Hold(p, n) => Hold(p, n)'
                    BY <1>0, <1>9, <3>2, ReservationLeaves
                <5>2. PICK p \in People : p = Owner(e) /\ p = OwnerOf[e]
                    BY <1>0 DEF Owner
                <5> QED
                    BY <2>2, <4>1, <5>1, <5>2 DEF Owner
            <4>2. CASE m # n
                <5>1. claims'[m] = claims[m]
                    BY <3>2, <4>2 DEF StoreTypeOK
                <5> QED
                    BY <1>9, <2>2, <5>1 DEF Hold, Owner
            <4> QED
                BY <4>1, <4>2
        <3> QED
            BY <1>9, <3>1, <3>2
    <2>3. \A e \in Drafts, n \in Tests :
              Secured(e, n)' => Secured(e, n) \/ Hold(Owner(e), n)'
        BY <1>9 DEF Secured
    <2>4. \A e \in Drafts : stage'[e] \in {"publish", "agent", "starting"} =>
                                left'[e] \subseteq held'[e]
        BY <1>9 DEF Holding
    <2> HIDE DEF Others
    <2> QED
        BY <1>9, <2>1, <2>2, <2>3, <2>4, HoldingFrame
<1>10. ASSUME NEW n \in Tests, ReserveForDraft(d, n) PROVE Holding'
    <2>1. Others /\ at' = at /\ working' = working
        BY <1>10 DEF ReserveForDraft, SetStage, Loop, DraftTypeOK
    <2>2. stage'[d] \in {"reserving", "unused", "preparing"}
        BY <1>10 DEF ReserveForDraft, SetStage, DraftTypeOK
    <2>3. \/ claims' = claims
          \/ claims' = [claims EXCEPT ![n] = Reserved(n, Owner(d))] /\ MayReserve(n, Owner(d))
        BY <1>10 DEF ReserveForDraft
    <2>4. \A m \in Tests : ~Secured(d, m)'
        BY <2>2 DEF Secured
    <2> HIDE DEF Others
    <2> QED
        BY <1>9, <2>1, <2>2, <2>3, <2>4
<1>11. ASSUME NEW n \in Tests, ReserveAgain(d, n) PROVE Holding'
    <2>1. Others /\ UNCHANGED <<at, working, held>>
        BY <1>11 DEF ReserveAgain, SetStage, Loop, DraftTypeOK
    <2>2. CASE MayReserve(n, Owner(d))
        <3>1. /\ claims' = [claims EXCEPT ![n] = Reserved(n, Owner(d))]
              /\ left'[d] = left[d] \ {n} /\ stage' = stage
              /\ stage[d] \in {"publish", "agent"}
            BY <1>11, <2>2 DEF ReserveAgain, Loop, DraftTypeOK
        <3>2. PICK p \in People : p = OwnerOf[d]
            BY <1>0 DEF Owner
        <3>3. Hold(p, n)'
            BY <2>1, <2>2, <3>1, <3>2, ReservationHolds DEF Owner
        <3>4. \A m \in Tests : Secured(d, m)' => Secured(d, m) \/ m = n
            BY <2>1, <3>1 DEF Secured
        <3>5. \A m \in Tests : Secured(d, m)' => Secured(d, m) \/ Hold(Owner(d), m)'
            BY <3>2, <3>3, <3>4 DEF Owner
        <3>6. left'[d] \subseteq held'[d]
            BY <2>1, <3>1 DEF Holding
        <3> HIDE DEF Others
        <3> QED
            BY <1>9, <2>1, <2>2, <3>1, <3>5, <3>6
    <2>3. CASE ~MayReserve(n, Owner(d))
        <3>1. claims' = claims /\ stage'[d] = "open"
            BY <1>11, <2>3 DEF ReserveAgain, SetStage, DraftTypeOK
        <3>2. \A m \in Tests : ~Secured(d, m)'
            BY <3>1 DEF Secured
        <3> HIDE DEF Others
        <3> QED
            BY <1>9, <2>1, <3>1, <3>2
    <2> QED
        BY <2>2, <2>3
<1>12. ASSUME NEW n \in TestsOf[d], claims' = [claims EXCEPT ![n] = Released(n, Owner(d))],
              working' = working, at' = at, Others,
              stage'[d] \in {"dropping", "unused", "open"},
              stage[d] \in {"dropping", "unused", "open"}
       PROVE  Holding'
    <2>1. n \in Tests
        BY <1>0
    <2>2. \A m \in Tests : StaysClaimed(m)
        BY <1>0, <1>12, <2>1, RowChangeKeeps DEF ClaimKept, StaysClaimed
    <2>3. \A m \in Tests : ~Secured(d, m)' /\ ~Secured(d, m)
        BY <1>12 DEF Secured
    <2>4. ASSUME NEW e \in Drafts, NEW m \in Tests, Secured(e, m), Hold(Owner(e), m)
          PROVE  Hold(Owner(e), m)'
        <3>1. e # d /\ m \in TestsOf[e]
            BY <2>3, <2>4 DEF Secured, DraftTypeOK
        <3>2. CASE m # n
            <4>1. claims'[m] = claims[m]
                BY <1>12, <2>1, <3>2 DEF StoreTypeOK
            <4> QED
                BY <1>12, <2>4, <4>1 DEF Hold, Owner
        <3>3. CASE m = n
            <4>1. OwnerOf[e] # OwnerOf[d]
                BY <1>12, <3>1, <3>3 DEF Patient
            <4>2. claims'[n] = Released(n, Owner(d))
                BY <1>12, <2>1 DEF StoreTypeOK
            <4>3. CASE claims[n].state = "claimed" \/ working[n].login = Owner(e)
                BY <1>12, <3>3, <4>2, <4>3 DEF Hold, Released, Owner
            <4>4. CASE /\ working[n] = NoWork /\ claims[n].state = "drafting"
                       /\ claims[n].login = Owner(e) /\ claims[n].live
                <5>1. claims'[n] = claims[n]
                    BY <4>1, <4>2, <4>4 DEF Released, Owner
                <5> QED
                    BY <1>12, <3>3, <4>4, <5>1 DEF Hold, Owner
            <4> QED
                BY <2>4, <3>3, <4>3, <4>4 DEF Hold
        <3> QED
            BY <3>2, <3>3
    <2>5. \A e \in Drafts, m \in Tests : Secured(e, m)' => Secured(e, m)
        BY <1>12, <2>3 DEF Secured
    <2>6. \A e \in Drafts : stage'[e] \in {"publish", "agent", "starting"} =>
                                left'[e] \subseteq held'[e]
        BY <1>12 DEF Holding
    <2> HIDE DEF Others
    <2> QED
        BY <1>12, <2>2, <2>4, <2>5, <2>6, HoldingFrame
<1>13. ASSUME NEW n \in Tests, DropReservation(d, n) PROVE Holding'
    <2>1. /\ Others /\ at' = at /\ working' = working
          /\ stage[d] = "dropping" /\ stage'[d] \in {"dropping", "unused"}
          /\ claims' = [claims EXCEPT ![n] = Released(n, Owner(d))]
          /\ n \in TestsOf[d]
        BY <1>13 DEF DropReservation, SetStage, Loop, DraftTypeOK
    <2> HIDE DEF Others
    <2> QED
        BY <1>12, <2>1
<1>14. ASSUME NEW n \in Tests, CloseDialog(d, n) PROVE Holding'
    <2>1. /\ Others /\ at' = at /\ working' = working
          /\ stage[d] = "open" /\ stage' = stage
          /\ claims' = [claims EXCEPT ![n] = Released(n, Owner(d))]
          /\ n \in TestsOf[d]
        BY <1>14 DEF CloseDialog, draftVars, DraftTypeOK, Patient
    <2> HIDE DEF Others
    <2> QED
        BY <1>12, <2>1
<1>15. ASSUME NEW n \in Tests, Confirm(d, n) PROVE Holding'
    <2>1. /\ claims' = [claims EXCEPT ![n] = Claimed(Owner(d), number[d])]
          /\ at' = [at EXCEPT ![d] = n] /\ UNCHANGED <<working, stage, held, left>>
        BY <1>15 DEF Confirm
    <2>2. /\ claims'[n].state = "claimed"
          /\ \A m \in Tests : m # n => claims'[m] = claims[m]
        BY <2>1 DEF StoreTypeOK, Claimed
    <2>3. \A m \in Tests : StaysClaimed(m)
        BY <2>2 DEF StaysClaimed
    <2>4. \A e \in Drafts, m \in Tests : Hold(Owner(e), m) => Hold(Owner(e), m)'
        BY <2>1, <2>2 DEF Hold, Owner
    <2>5. \A e \in Drafts : at'[e] # NoTest => at'[e] = at[e] \/ claims'[at'[e]].state = "claimed"
        BY <2>1, <2>2 DEF DraftTypeOK
    <2>6. \A e \in Drafts, m \in Tests : Secured(e, m)' => Secured(e, m)
        BY <2>1 DEF Secured
    <2>7. \A e \in Drafts : stage'[e] \in {"publish", "agent", "starting"} =>
                                left'[e] \subseteq held'[e]
        BY <2>1 DEF Holding
    <2> QED
        BY <2>1, <2>3, <2>4, <2>5, <2>6, <2>7, HoldingFrame
<1>16. CASE StartOnIssue(d)
    <2>1. PICK n \in Tests : n = at[d] /\ n # NoTest
        BY <1>16 DEF StartOnIssue, DraftTypeOK
    <2>2. claims[n].state = "claimed"
        BY <2>1 DEF Holding
    <2>3. claims' = [claims EXCEPT ![n] = Released(n, Owner(d))] /\ Released(n, Owner(d)) = claims[n]
        BY <1>16, <2>1, <2>2 DEF StartOnIssue, Released
    <2>4. claims' = claims
        BY <2>3 DEF StoreTypeOK
    <2>5. /\ \A m \in Tests : m # n => working'[m] = working[m]
          /\ Others /\ at'[d] = NoTest /\ stage'[d] \in {"open", "confirming"}
        BY <1>16, <2>1 DEF StartOnIssue, SetStage, Loop, DraftTypeOK, StoreTypeOK
    <2>6. \A m \in Tests : StaysClaimed(m)
        BY <2>4 DEF StaysClaimed
    <2>7. \A e \in Drafts, m \in Tests : Hold(Owner(e), m) => Hold(Owner(e), m)'
        BY <2>2, <2>4, <2>5 DEF Hold, Owner
    <2>8. \A e \in Drafts, m \in Tests : Secured(e, m)' => Secured(e, m)
        BY <2>5 DEF Secured
    <2>9. \A e \in Drafts : /\ stage'[e] \in {"publish", "agent", "starting"} =>
                                  left'[e] \subseteq held'[e]
                            /\ at'[e] # NoTest => at'[e] = at[e]
        BY <2>5 DEF Holding
    <2>10. \A m \in Tests : \/ working'[m] = working[m] \/ working'[m].via # "issue"
                            \/ claims'[m].state = "claimed"
        BY <2>2, <2>4, <2>5
    <2> HIDE DEF Others
    <2> QED
        BY <2>6, <2>7, <2>8, <2>9, <2>10, HoldingFrame
<1>17. ASSUME NEW n \in Tests, StartAgent(d, n) PROVE Holding'
    <2>1. PICK q \in People : q = OwnerOf[d]
        BY <1>0 DEF Owner
    <2>2. /\ working' = [working EXCEPT ![n] = Work(q, "agent", 0)]
          /\ claims' = [claims EXCEPT ![n] = Released(n, q)]
          /\ stage[d] = "starting" /\ n \in left[d] /\ left'[d] = left[d] \ {n}
          /\ stage'[d] \in {"open", "starting"} /\ UNCHANGED <<held, at>> /\ Others
        BY <1>17, <2>1 DEF StartAgent, Owner, SetStage, Loop, DraftTypeOK
    <2>3. \A m \in Tests : StaysClaimed(m)
        BY <2>2, RowChangeKeeps DEF ClaimKept, StaysClaimed
    <2>4. /\ working'[n] = Work(q, "agent", 0)
          /\ \A m \in Tests : m # n => working'[m] = working[m] /\ claims'[m] = claims[m]
        BY <2>2 DEF StoreTypeOK
    <2>5. Hold(q, n)
        BY <2>1, <2>2 DEF Holding, Secured, Owner
    <2>6. \A p \in People : Hold(p, n) => Hold(p, n)'
        <3> SUFFICES ASSUME NEW p \in People, Hold(p, n) PROVE Hold(p, n)'
            OBVIOUS
        <3>1. CASE claims[n].state = "claimed"
            BY <2>3, <3>1 DEF StaysClaimed, Hold
        <3>2. CASE claims[n].state # "claimed"
            <4>1. p = q
                BY <2>5, <3>2, OneHolds
            <4> QED
                BY <2>4, <4>1 DEF Hold, Work
        <3> QED
            BY <3>1, <3>2
    <2>7. ASSUME NEW e \in Drafts, NEW m \in Tests, Hold(Owner(e), m) PROVE Hold(Owner(e), m)'
        <3>1. PICK p \in People : p = OwnerOf[e]
            BY <1>0 DEF Owner
        <3>2. CASE m = n
            BY <2>6, <2>7, <3>1, <3>2 DEF Owner
        <3>3. CASE m # n
            BY <2>4, <2>7, <3>3 DEF Hold, Owner
        <3> QED
            BY <3>2, <3>3
    <2>8. \A e \in Drafts, m \in Tests : Secured(e, m)' => Secured(e, m)
        BY <2>2 DEF Secured
    <2>9. \A e \in Drafts : stage'[e] \in {"publish", "agent", "starting"} =>
                                left'[e] \subseteq held'[e]
        BY <2>2 DEF Holding
    <2>10. \A m \in Tests : working'[m] = working[m] \/ working'[m].via # "issue"
        BY <2>4 DEF Work
    <2> HIDE DEF Others
    <2> QED
        BY <2>2, <2>3, <2>7, <2>8, <2>9, <2>10, HoldingFrame
<1>18. QED
    BY <1>2, <1>3, <1>4, <1>5, <1>6, <1>7, <1>8, <1>10, <1>11, <1>13, <1>14, <1>15,
       <1>16, <1>17 DEF DialogStep

LEMMA DialogHolding == Holding /\ TypeOK /\ Patient /\ Dialog => Holding'
<1> SUFFICES ASSUME Holding, TypeOK, Patient, Dialog PROVE Holding'
    OBVIOUS
<1> USE DEF TypeOK
<1>1. PICK d \in Drafts : DialogStep(d) \/ CreateIssue(d) \/ CreateFails(d)
    BY DEF Dialog
<1>2. CASE DialogStep(d)
    BY <1>2, DialogStepHolding
<1>3. CASE CreateIssue(d) \/ CreateFails(d)
    <2>1. /\ UNCHANGED <<claims, working, at, held>>
          /\ stage'[d] \in {"confirming", "open"}
          /\ \A e \in Drafts : e # d => stage'[e] = stage[e] /\ left'[e] = left[e]
        BY <1>3 DEF CreateIssue, CreateFails, storeVars, SetStage, Loop, DraftTypeOK
    <2>2. \A e \in Drafts, n \in Tests : Secured(e, n)' => Secured(e, n)
        BY <2>1 DEF Secured
    <2>3. \A e \in Drafts : stage'[e] \in {"publish", "agent", "starting"} =>
                                left'[e] \subseteq held'[e]
        BY <2>1 DEF Holding
    <2> QED
        BY <2>1, <2>2, <2>3, HoldingTablesKept
<1>4. QED
    BY <1>1, <1>2, <1>3

\* Whoever steps outside the dialogs takes nobody's test.
LEMMA BesideHolding ==
    ASSUME Holding, TypeOK, UNCHANGED draftVars,
           \A n \in Tests : StaysClaimed(n),
           \A n \in Tests :
              \/ working'[n] = working[n] \/ working'[n].via # "issue"
              \/ claims'[n].state = "claimed",
           \A d \in Drafts, n \in Tests :
              Secured(d, n) /\ Hold(Owner(d), n) => Hold(Owner(d), n)'
    PROVE  Holding'
<1>1. \A d \in Drafts, n \in Tests : Secured(d, n)' => Secured(d, n)
    BY DEF draftVars, Secured
<1>2. \A d \in Drafts : stage'[d] \in {"publish", "agent", "starting"} =>
                            left'[d] \subseteq held'[d]
    BY DEF draftVars, Holding
<1>3. at' = at
    BY DEF draftVars
<1>4. QED
    BY <1>1, <1>2, <1>3, HoldingFrame

LEMMA WorkOnItHolding == Holding /\ TypeOK /\ Patient /\ WorkOnIt => Holding'
<1> SUFFICES ASSUME Holding, TypeOK, Patient, WorkOnIt PROVE Holding'
    OBVIOUS
<1> USE DEF TypeOK
<1>1. PICK p \in People :
          \/ ReopenOk(p) \/ ReopenFails(p) \/ UndoReopen(p)
          \/ \E n \in Tests : Stop(p, n) \/ PickUp(p, n) \/ Reopen(p, n)
    BY DEF WorkOnIt
<1>2. UNCHANGED draftVars
    BY DEF WorkOnIt
<1>3. CASE ReopenOk(p) \/ ReopenFails(p)
    <2>1. UNCHANGED <<claims, working>>
        BY <1>3 DEF ReopenOk, ReopenFails, storeVars
    <2>2. \A d \in Drafts, n \in Tests : Hold(Owner(d), n) => Hold(Owner(d), n)'
        BY <2>1 DEF Hold, Owner
    <2>3. \A n \in Tests : StaysClaimed(n)
        BY <2>1 DEF StaysClaimed
    <2> QED
        BY <1>2, <2>1, <2>2, <2>3, BesideHolding
<1>4. ASSUME NEW n \in Tests,
             \A m \in Tests : m # n => claims'[m] = claims[m] /\ working'[m] = working[m],
             StaysClaimed(n),
             working'[n] = working[n] \/ working'[n] = NoWork \/ claims'[n].state = "claimed",
             \A d \in Drafts : Secured(d, n) /\ Hold(Owner(d), n) => Hold(Owner(d), n)'
      PROVE  Holding'
    <2>1. \A d \in Drafts, m \in Tests : Secured(d, m) /\ Hold(Owner(d), m) => Hold(Owner(d), m)'
        BY <1>4 DEF Hold, Owner
    <2>2. \A m \in Tests : StaysClaimed(m)
        BY <1>4 DEF StaysClaimed
    <2>3. NoWork.via # "issue"
        BY DEF NoWork
    <2>4. \A m \in Tests : \/ working'[m] = working[m] \/ working'[m].via # "issue"
                           \/ claims'[m].state = "claimed"
        BY <1>4, <2>3
    <2> QED
        BY <1>2, <2>1, <2>2, <2>4, BesideHolding
<1>5. CASE UndoReopen(p)
    <2>1. PICK n \in Tests : n = reopening[p].test
        BY <1>5 DEF UndoReopen, CallsTypeOK, ReopenCall, NoReopening
    <2>2. /\ \A m \in Tests : m # n => claims'[m] = claims[m] /\ working'[m] = working[m]
          /\ working'[n] = IF OnIssue(n, reopening[p].number) THEN NoWork ELSE working[n]
        BY <1>5, <2>1 DEF UndoReopen, StoreTypeOK
    <2>3. claims'[n] = IF claims[n].state = "claimed" /\ claims[n].number = reopening[p].number
                       THEN [claims[n] EXCEPT !.login = reopening[p].login,
                                              !.issue = "closed",
                                              !.fresh = reopening[p].fresh]
                       ELSE claims[n]
        BY <1>5, <2>1 DEF UndoReopen, StoreTypeOK
    <2>4. StaysClaimed(n)
        BY <2>3, ClaimedTyped DEF StaysClaimed, StoreTypeOK
    <2>5. \A d \in Drafts : Hold(Owner(d), n) => Hold(Owner(d), n)'
        <3>1. CASE claims[n].state = "claimed"
            BY <2>4, <3>1 DEF StaysClaimed, Hold
        <3>2. CASE claims[n].state # "claimed"
            <4>1. working'[n] = working[n]
                BY <2>2, <3>2 DEF Holding, OnIssue
            <4>2. claims'[n] = claims[n]
                BY <2>3, <3>2
            <4> QED
                BY <4>1, <4>2 DEF Hold, Owner
        <3> QED
            BY <3>1, <3>2
    <2> QED
        BY <1>4, <2>2, <2>4, <2>5
<1>6. ASSUME NEW n \in Tests, Stop(p, n) PROVE Holding'
    <2>1. /\ \A m \in Tests : m # n => claims'[m] = claims[m] /\ working'[m] = working[m]
          /\ claims' = claims /\ working'[n] = NoWork
        BY <1>6 DEF Stop, StoreTypeOK
    <2>2. ASSUME NEW d \in Drafts, Secured(d, n), Hold(Owner(d), n) PROVE Hold(Owner(d), n)'
        <3>1. n \in held[d] /\ Acting(d)
            BY <2>2 DEF Secured, Acting
        <3>2. working[n].login = p /\ Owner(d) # p
            BY <1>6, <3>1 DEF Stop, Patient
        <3> QED
            BY <2>1, <2>2, <3>2 DEF Hold, Owner
    <2>3. StaysClaimed(n)
        BY <2>1 DEF StaysClaimed
    <2> QED
        BY <1>4, <2>1, <2>2, <2>3
<1>7. ASSUME NEW n \in Tests, PickUp(p, n) PROVE Holding'
    <2>1. /\ \A m \in Tests : m # n => claims'[m] = claims[m] /\ working'[m] = working[m]
          /\ claims' = claims /\ claims'[n].state = "claimed"
        BY <1>7 DEF PickUp, StoreTypeOK
    <2>2. \A d \in Drafts : Hold(Owner(d), n)'
        BY <2>1 DEF Hold
    <2> QED
        BY <1>4, <2>1, <2>2 DEF StaysClaimed
<1>8. ASSUME NEW n \in Tests, Reopen(p, n) PROVE Holding'
    <2>1. /\ \A m \in Tests : m # n => claims'[m] = claims[m] /\ working'[m] = working[m]
          /\ claims'[n].state = "claimed"
        BY <1>8 DEF Reopen, StoreTypeOK, Claimed
    <2>2. \A d \in Drafts : Hold(Owner(d), n)'
        BY <2>1 DEF Hold
    <2> QED
        BY <1>4, <2>1, <2>2 DEF StaysClaimed
<1>9. QED
    BY <1>1, <1>3, <1>5, <1>6, <1>7, <1>8

LEMMA RefresherHolding == Holding /\ TypeOK /\ Refresher => Holding'
<1> SUFFICES ASSUME Holding, TypeOK, Refresher PROVE Holding'
    OBVIOUS
<1> USE DEF TypeOK
<1>1. UNCHANGED draftVars
    BY DEF Refresher
<1>2. CASE StartRefresh \/ ReadFails \/ \E n \in Tests, k \in DOMAIN issues : ReadIssue(n, k)
    <2>1. UNCHANGED <<claims, working>>
        BY <1>2 DEF StartRefresh, ReadFails, ReadIssue, storeVars
    <2>2. \A d \in Drafts, n \in Tests : Hold(Owner(d), n) => Hold(Owner(d), n)'
        BY <2>1 DEF Hold, Owner
    <2>3. \A n \in Tests : StaysClaimed(n)
        BY <2>1 DEF StaysClaimed
    <2> QED
        BY <1>1, <2>1, <2>2, <2>3, BesideHolding
<1>3. CASE ApplyIssue
    <2>1. PICK n \in Tests : n = said.test
        BY <1>3 DEF ApplyIssue, CallsTypeOK, Answer
    <2>2. /\ \A m \in Tests : m # n => claims'[m] = claims[m] /\ working'[m] = working[m]
          /\ working'[n] = IF said.state = "closed" /\ EndsWork(n, said.number)
                           THEN NoWork ELSE working[n]
          /\ claims'[n] = IF claims[n].state = "claimed" /\ claims[n].number = said.number
                          THEN [claims[n] EXCEPT !.issue = said.state, !.fresh = TRUE]
                          ELSE claims[n]
        BY <1>3, <2>1 DEF ApplyIssue, StoreTypeOK
    <2>3. StaysClaimed(n)
        BY <2>2, ClaimedTyped DEF StaysClaimed, StoreTypeOK
    <2>4. claims[n].state # "claimed" => working'[n] = working[n] /\ claims'[n] = claims[n]
        BY <2>2 DEF Holding, EndsWork, OnIssue
    <2>5. \A m \in Tests : StaysClaimed(m)
        BY <2>2, <2>3 DEF StaysClaimed
    <2>6. \A d \in Drafts, m \in Tests : Hold(Owner(d), m) => Hold(Owner(d), m)'
        BY <2>2, <2>3, <2>4 DEF Hold, Owner, StaysClaimed
    <2>7. NoWork.via # "issue"
        BY DEF NoWork
    <2>8. \A m \in Tests : working'[m] = working[m] \/ working'[m].via # "issue"
        BY <2>2, <2>7
    <2> QED
        BY <1>1, <2>5, <2>6, <2>8, BesideHolding
<1>4. QED
    BY <1>2, <1>3 DEF Refresher

LEMMA TimeHolding == Holding /\ TypeOK /\ Time => Holding'
<1> SUFFICES ASSUME Holding, TypeOK, Time PROVE Holding'
    OBVIOUS
<1> USE DEF TypeOK
<1>1. UNCHANGED draftVars /\ working' = working
    BY DEF Time
<1>2. PICK n \in Tests : Lapse(n) \/ Age(n)
    BY DEF Time
<1>3. \A m \in Tests : m # n => claims'[m] = claims[m]
    BY <1>2 DEF Lapse, Age, StoreTypeOK
<1>4. StaysClaimed(n)
    <2>1. CASE Lapse(n)
        BY <2>1 DEF Lapse, StaysClaimed
    <2>2. CASE Age(n)
        BY <2>2, ClaimedTyped DEF Age, StoreTypeOK, StaysClaimed
    <2> QED
        BY <1>2, <2>1, <2>2
<1>5. ASSUME NEW d \in Drafts, Secured(d, n), Hold(Owner(d), n) PROVE Hold(Owner(d), n)'
    <2>1. CASE claims[n].state = "claimed" \/ working[n].login = Owner(d)
        BY <1>1, <1>4, <2>1 DEF Hold, Owner, StaysClaimed
    <2>2. CASE claims[n].state = "drafting" /\ claims[n].login = Owner(d)
        <3>1. n \in held[d] /\ Acting(d)
            BY <1>5 DEF Secured, Acting
        <3> QED
            BY <1>2, <2>2, <3>1 DEF Lapse, Age
    <2> QED
        BY <1>5, <2>1, <2>2 DEF Hold
<1>6. \A m \in Tests : StaysClaimed(m)
    BY <1>3, <1>4 DEF StaysClaimed
<1>7. \A d \in Drafts, m \in Tests : Secured(d, m) /\ Hold(Owner(d), m) => Hold(Owner(d), m)'
    BY <1>1, <1>3, <1>5 DEF Hold, Owner
<1>8. QED
    BY <1>1, <1>6, <1>7, BesideHolding

LEMMA HoldingNext == Holding /\ TypeOK /\ Patient /\ [Next]_vars => Holding'
<1> SUFFICES ASSUME Holding, TypeOK, Patient, [Next]_vars PROVE Holding'
    OBVIOUS
<1>1. ASSUME UNCHANGED <<claims, working, draftVars>> PROVE Holding'
    <2>1. \A d \in Drafts, n \in Tests : Hold(Owner(d), n) => Hold(Owner(d), n)'
        BY <1>1 DEF Hold, Owner
    <2>2. \A n \in Tests : StaysClaimed(n)
        BY <1>1 DEF StaysClaimed
    <2> QED
        BY <1>1, <2>1, <2>2, BesideHolding
<1>2. CASE UNCHANGED vars
    BY <1>1, <1>2 DEF vars, storeVars
<1>3. ASSUME NEW k \in DOMAIN issues, ToggleIssue(k) PROVE Holding'
    BY <1>1, <1>3 DEF ToggleIssue, storeVars
<1>4. CASE Restart
    <2>1. /\ UNCHANGED <<claims, working>>
          /\ \A d \in Drafts : stage'[d] = "unused" /\ at'[d] = NoTest
        BY <1>4 DEF Restart, storeVars
    <2>2. \A d \in Drafts, n \in Tests : ~Secured(d, n)'
        BY <2>1 DEF Secured
    <2> QED
        BY <2>1, <2>2, HoldingTablesKept
<1>5. QED
    BY <1>2, <1>3, <1>4, DialogHolding, WorkOnItHolding, RefresherHolding, TimeHolding
       DEF Next

LEMMA HoldingCorrect == ASSUME Patient PROVE Spec => []Holding
<1>1. Holding /\ TypeOK /\ [Next]_vars => Holding'
    BY HoldingNext
<1>2. QED
    BY HoldingInit, <1>1, TypeCorrect, PTL DEF Spec

-----------------------------------------------------------------------------
(* Two action properties                                                     *)

\* The first issue about a test is made by somebody who holds it at that moment,
\* for any dialogs, crashes and lost answers, as long as everybody waits for the
\* answers (publish in new_issue.py, reserve in claims.py).
THEOREM HeldWhenPublishedCorrect == ASSUME Patient PROVE Spec => HeldWhenPublished
<1> DEFINE Held ==
        \A k \in DOMAIN issues' \ DOMAIN issues :
            \A n \in issues'[k].tests :
                claims[n].state = "claimed" \/ Holds(issues'[k].author, n)
<1>1. ASSUME Holding, TypeOK, Next PROVE Held
    <2>1. CASE DOMAIN issues' = DOMAIN issues
        BY <2>1
    <2>2. ASSUME NEW d \in Drafts, stage[d] = "creating", AddIssue(d) PROVE Held
        <3>1. issues' = [k \in DOMAIN issues \union {NextNumber} |->
                            IF Issue(k) THEN issues[k]
                            ELSE [state |-> "open", author |-> Owner(d), tests |-> held[d]]]
            BY <2>2 DEF AddIssue
        <3>2. ASSUME NEW k \in DOMAIN issues' \ DOMAIN issues
              PROVE  issues'[k].tests = held[d] /\ issues'[k].author = Owner(d)
            BY <3>1, <3>2 DEF Issue
        <3>3. ASSUME NEW n \in held[d]
              PROVE  claims[n].state = "claimed" \/ Holds(Owner(d), n)
            <4>1. n \in Tests /\ Secured(d, n)
                BY <1>1, <2>2, <3>3 DEF TypeOK, DraftTypeOK, Secured
            <4> QED
                BY <1>1, <4>1 DEF Holding, Hold, Holds
        <3> QED
            BY <3>2, <3>3
    <2>3. CASE Dialog
        <3>1. PICK d \in Drafts :
                  \/ DialogStep(d) /\ UNCHANGED <<issues, lost>>
                  \/ CreateIssue(d) \/ CreateFails(d)
            BY <2>3 DEF Dialog
        <3>2. issues' = issues \/ (stage[d] = "creating" /\ AddIssue(d))
            BY <3>1 DEF CreateIssue, CreateFails
        <3> HIDE DEF Held
        <3> QED
            BY <2>1, <2>2, <3>2
    <2>4. CASE WorkOnIt \/ Refresher \/ Time \/ Restart \/ \E k \in DOMAIN issues : ToggleIssue(k)
        <3>1. DOMAIN issues' = DOMAIN issues
            BY <2>4 DEF WorkOnIt, ReopenOk, ReopenFails, UndoReopen, Stop, PickUp, Reopen,
               Refresher, Time, Restart, ToggleIssue
        <3> HIDE DEF Held
        <3> QED
            BY <2>1, <3>1
    <2> HIDE DEF Held
    <2> QED
        BY <1>1, <2>3, <2>4 DEF Next
<1>2. Holding /\ TypeOK /\ [Next]_vars => [Held]_vars
    <2> HIDE DEF Held
    <2> QED
        BY <1>1
<1>3. HeldWhenPublished <=> [][Held]_vars
    BY DEF HeldWhenPublished
<1>4. Spec => []Holding
    BY HoldingCorrect
<1> HIDE DEF Held
<1>5. QED
    BY <1>2, <1>3, <1>4, TypeCorrect, PTL DEF Spec

\* As long as a test has no issue, nobody is put on it over somebody else's head,
\* whatever lapses, dies or is lost, as long as everybody waits for the answers
\* (start and reserve in claims.py, the agent's start in trace_exporter.py).
THEOREM UnpublishedNotTakenOverCorrect == ASSUME Patient PROVE Spec => UnpublishedNotTakenOver
<1> DEFINE Kept == \A n \in Tests : TakenOver(n) => claims'[n].state = "claimed"
<1>1. ASSUME Holding, TypeOK, Next, NEW n \in Tests, TakenOver(n)
      PROVE  claims'[n].state = "claimed"
    <2>1. working'[n] # working[n] /\ working'[n].login # working[n].login
          /\ working[n] # NoWork /\ working'[n] # NoWork
        BY <1>1 DEF TakenOver
    <2>2. StoreTypeOK /\ DraftTypeOK
        BY <1>1 DEF TypeOK
    <2>3. ASSUME NEW d \in Drafts, StartOnIssue(d) PROVE claims'[n].state = "claimed"
        <3>1. at[d] \in Tests /\ at[d] # NoTest
            BY <2>2, <2>3 DEF StartOnIssue, DraftTypeOK
        <3>2. n = at[d]
            BY <2>1, <2>2, <2>3, <3>1 DEF StartOnIssue, StoreTypeOK
        <3>3. claims[n].state = "claimed"
            BY <1>1, <3>1, <3>2 DEF Holding
        <3> QED
            BY <2>2, <2>3, <3>2, <3>3 DEF StartOnIssue, StoreTypeOK, Released
    <2>4. ASSUME NEW d \in Drafts, NEW m \in Tests, StartAgent(d, m)
          PROVE  claims'[n].state = "claimed"
        <3>1. n = m /\ working'[n] = Work(Owner(d), "agent", 0)
            BY <2>1, <2>2, <2>4 DEF StartAgent, StoreTypeOK
        <3>2. Hold(Owner(d), n)
            <4>1. m \in held[d]
                BY <1>1, <2>4 DEF Holding, StartAgent
            <4>2. Secured(d, n)
                BY <2>4, <3>1, <4>1 DEF StartAgent, Secured
            <4> QED
                BY <1>1, <4>2 DEF Holding
        <3>3. claims[n].state = "claimed"
            BY <2>1, <3>1, <3>2 DEF Hold, Work
        <3> QED
            BY <2>2, <2>4, <3>1, <3>3 DEF StartAgent, StoreTypeOK, Released
    <2>5. ASSUME NEW p \in People, NEW m \in Tests, Reopen(p, m)
          PROVE  claims'[n].state = "claimed"
        <3>1. n = m
            BY <2>1, <2>2, <2>5 DEF Reopen, StoreTypeOK
        <3> QED
            BY <2>2, <2>5, <3>1 DEF Reopen, StoreTypeOK, Claimed
    <2>6. ASSUME NEW p \in People, NEW m \in Tests, Stop(p, m) \/ PickUp(p, m)
          PROVE  FALSE
        BY <2>1, <2>2, <2>6 DEF Stop, PickUp, StoreTypeOK
    <2>7. ASSUME NEW p \in People, ReopenOk(p) \/ ReopenFails(p) \/ UndoReopen(p)
          PROVE  FALSE
        <3>1. reopening[p].test \in Tests \/ ~UndoReopen(p)
            BY <1>1 DEF TypeOK, CallsTypeOK, UndoReopen, ReopenCall, NoReopening
        <3> QED
            BY <2>1, <2>2, <2>7, <3>1 DEF ReopenOk, ReopenFails, UndoReopen, storeVars,
               StoreTypeOK
    <2>8. CASE Refresher
        <3>1. said.test \in Tests \/ ~ApplyIssue
            BY <1>1 DEF TypeOK, CallsTypeOK, ApplyIssue, Answer
        <3> QED
            BY <2>1, <2>2, <2>8, <3>1 DEF Refresher, StartRefresh, ReadFails, ApplyIssue,
               ReadIssue, storeVars, StoreTypeOK
    <2>9. CASE Time \/ Restart \/ \E k \in DOMAIN issues : ToggleIssue(k)
        BY <2>1, <2>9 DEF Time, Restart, ToggleIssue, storeVars
    <2>10. CASE WorkOnIt
        BY <2>5, <2>6, <2>7, <2>10 DEF WorkOnIt
    <2>11. CASE Dialog
        <3>1. PICK d \in Drafts : DialogStep(d) \/ CreateIssue(d) \/ CreateFails(d)
            BY <2>11 DEF Dialog
        <3>2. \/ working' = working \/ StartOnIssue(d)
              \/ \E m \in Tests : StartAgent(d, m)
            BY <3>1 DEF DialogStep, StartDraft, DraftReady, DraftFails, TakeDraft,
               AgentReserved, Expire, StartAction, ReserveForDraft, DropReservation,
               ReserveAgain, Confirm, CloseDialog, CreateIssue, CreateFails, storeVars
        <3> QED
            BY <2>1, <2>3, <2>4, <3>2
    <2> QED
        BY <1>1, <2>8, <2>9, <2>10, <2>11 DEF Next
<1>2. Holding /\ TypeOK /\ [Next]_vars => [Kept]_vars
    BY <1>1
<1>3. UnpublishedNotTakenOver <=> [][Kept]_vars
    BY DEF UnpublishedNotTakenOver
<1>4. Spec => []Holding
    BY HoldingCorrect
<1> HIDE DEF Kept
<1>5. QED
    BY <1>2, <1>3, <1>4, TypeCorrect, PTL DEF Spec

=============================================================================
