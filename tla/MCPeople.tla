------------------------------ MODULE MCPeople -------------------------------
(* What the exporter answers people with, component by component: pages,   *)
(* answers they share, badges, Slack commands and accounts, sign-in,       *)
(* questions, drafts and re-runs.  They share no state here: a behaviour   *)
(* is one of one part, and leaves the others alone.                        *)
EXTENDS Integers, FiniteSets, Sequences, TLC
CONSTANTS
    Parts,
    CommandRequests, SentAt, CommandSlots, Hourly, RetryHours, Keep, CommandsMaxTime,
    CommandsMaxFaults,
    Visitors, Browsers, LoginStates, Codes, StateLife, CodeLife, SessionLife, AuthMaxTime,
    MaxRevokes,
    Owners, Identities, Logins, FirstLogin, Managed, MaxGrants, MaxRenames, MaxDisconnects,
    QuestionRequests, QuestionSlots, UserLimit, Attempts, OkLife, FailureLife,
    QuestionsMaxTime, MaxFailures,
    Tests, People, Drafts, OwnerOf, TestsOf, Impatient, IssuesChange, MaxIssues, MaxLost,
    DraftsMaxRestarts, NoTest, NoLogin,
    PRs, Lanes, Actions, PrOf, LanesOf, Posts, KeyOf, SourceRuns, SourceOf,
    RerunsMaxRestarts, NoTarget,
    SharedRequests, FreshSeconds, StaleSeconds, BuildTime, SharedMaxTime, MaxEvictions,
    BadgeRuns, EventOf, JobsOf, Streams, BadgeRequests, Window, BadgeKeep, ReadTime,
    BadgeMaxTime, BadgeMaxFaults
VARIABLES
    part,
    pagesClock, over, counted, movedAt, status, dropped, readable, members, active, file,
    fileAt, rowsCache, countsCache, page, pagesShown, pollAt, answered, pagesFaults,
    viewClock, viewAttempt, total, done, doneAt, seen, paths, sources, kept, guess, build,
    viewFaults,
    commandsNow, linked, stored, commandsFree, at, static, executed, commandsFaults,
    authNow, oauth, cookie, holds, callback, devices, issued, live, decided, revokes,
    loginOf, accounts, grants, prompting, asking, acting, accountsAsked, drawn, renames,
    disconnects,
    questionsNow, questionsCache, inflight, questionsFree, asked, phase, questionsAttempt,
    questionsShown, reply, calls, failures,
    issues, claims, working, draftsStage, held, draftsLive, left, draftsAt, number,
    reopening, due, said, draftsLost, draftsRestarts, reopener,
    rerunsMoved, rerunsSource, ghRun, rerunsAsked, rerunsRows, rerunsPost, rerunsSeen,
    rerunsPc, rerunsMem, rerunsAt, rerunsFailures, rerunsRestarts,
    sharedClock, sharedCache, sharedInflight, builds, finished, sharedPc, sharedAttempt,
    waitsFor, sharedAnswer, sharedSeen, gaveUp, evictions,
    badgeClock, badgeArrived, lastTrace, badgePayload, badgeStored, memo, badgeRequest,
    badgeNewest, told, badgeFaults

\* One page of a run with two failures, to the end of Tempo's retention.
Pages == INSTANCE RunPages WITH
    Failures <- {"x", "y"}, Viewers <- {"p"}, Matches <- [v \in {"p"} |-> {"x", "y"}],
    ActiveTtl <- 1, DoneTtl <- 2, CountsTtl <- 1, Recent <- 4, Delay <- 1, Retention <- 5,
    MaxTime <- 7, MaxFaults <- 1, clock <- pagesClock, shown <- pagesShown,
    faults <- pagesFaults
pagesVars == <<
    pagesClock, over, counted, movedAt, status, dropped, readable, members, active,
    file, fileAt, rowsCache, countsCache, page, pagesShown, pollAt, answered,
    pagesFaults>>

\* Two attempts of a run, of one job or three, in pages of two.
View == INSTANCE PrCiView WITH
    PerPage <- 2, MaxJobs <- 5, PathTtl <- 2, SourcesTtl <- 1, Attempts <- {1, 2},
    Sizes <- {1, 3}, MaxTime <- 4, MaxFaults <- 1, clock <- viewClock,
    attempt <- viewAttempt, faults <- viewFaults
viewVars == <<
    viewClock, viewAttempt, total, done, doneAt, seen, paths, sources, kept, guess,
    build, viewFaults>>

Commands == INSTANCE SlackCommands WITH
    Requests <- CommandRequests, Slots <- CommandSlots, Retry <- RetryHours,
    MaxTime <- CommandsMaxTime,
    MaxFaults <- CommandsMaxFaults, now <- commandsNow, free <- commandsFree,
    faults <- commandsFaults
ASSUME CommandsAssumption == Commands!Limits
commandsVars == <<
    commandsNow, linked, stored, commandsFree, at, static, executed, commandsFaults>>

Auth == INSTANCE DashboardAuth WITH
    Users <- Visitors, States <- LoginStates, MaxTime <- AuthMaxTime, now <- authNow
ASSUME AuthAssumption == Auth!Lives
authVars == <<
    authNow, oauth, cookie, holds, callback, devices, issued, live, decided, revokes>>

Accounts == INSTANCE SlackAccounts WITH asked <- accountsAsked
ASSUME AccountsAssumption == Accounts!Named
accountsVars == <<
    loginOf, accounts, grants, prompting, asking, acting, accountsAsked, drawn, renames,
    disconnects>>

Asked == INSTANCE Questions WITH
    Requests <- QuestionRequests, Slots <- QuestionSlots, MaxTime <- QuestionsMaxTime,
    now <- questionsNow, cache <- questionsCache, free <- questionsFree,
    attempt <- questionsAttempt, shown <- questionsShown
ASSUME QuestionsAssumption == Asked!Asking
questionsVars == <<
    questionsNow, questionsCache, inflight, questionsFree, asked, phase,
    questionsAttempt, questionsShown, reply, calls, failures>>

Drafting == INSTANCE Claims WITH
    MaxRestarts <- DraftsMaxRestarts, live <- draftsLive, at <- draftsAt,
    stage <- draftsStage, lost <- draftsLost, restarts <- draftsRestarts
ASSUME DraftsAssumption ==
    /\ OwnerOf \in [Drafts -> People] /\ TestsOf \in [Drafts -> (SUBSET Tests) \ {{}}]
    /\ NoTest \notin Tests /\ NoLogin \notin People
    /\ Impatient \subseteq People /\ IssuesChange \in BOOLEAN
    /\ MaxIssues \in Nat /\ MaxLost \in Nat /\ DraftsMaxRestarts \in Nat
ASSUME PatienceAssumption == Drafting!Patient
draftsVars == <<
    issues, claims, working, draftsStage, held, draftsLive, left, draftsAt, number,
    reopening, due, said, draftsLost, draftsRestarts, reopener>>

Reruns == INSTANCE RerunActions WITH
    MaxRestarts <- RerunsMaxRestarts,
    source <- rerunsSource, asked <- rerunsAsked, seen <- rerunsSeen, at <- rerunsAt,
    failures <- rerunsFailures, restarts <- rerunsRestarts, post <- rerunsPost,
    moved <- rerunsMoved, rows <- rerunsRows, pc <- rerunsPc, mem <- rerunsMem
ASSUME RerunsAssumption ==
    /\ PrOf \in [Actions -> PRs] /\ LanesOf \in [Actions -> SUBSET Lanes]
    /\ KeyOf \in [Posts -> Actions] /\ SourceOf \in [SourceRuns -> PRs \X Lanes]
    /\ RerunsMaxRestarts \in Nat /\ NoTarget \notin Lanes \union SourceRuns
rerunsVars == <<
    rerunsMoved, rerunsSource, ghRun, rerunsAsked, rerunsRows, rerunsPost, rerunsSeen,
    rerunsPc, rerunsMem, rerunsAt, rerunsFailures, rerunsRestarts>>

Shared == INSTANCE SharedReads WITH
    Requests <- SharedRequests, Fresh <- FreshSeconds, Stale <- StaleSeconds,
    MaxTime <- SharedMaxTime, clock <- sharedClock, cache <- sharedCache,
    inflight <- sharedInflight, pc <- sharedPc,
    attempt <- sharedAttempt, answer <- sharedAnswer, seen <- sharedSeen
ASSUME SharedAssumption == Shared!Countable
sharedVars == <<
    sharedClock, sharedCache, sharedInflight, builds, finished, sharedPc, sharedAttempt,
    waitsFor, sharedAnswer, sharedSeen, gaveUp, evictions>>

Badge == INSTANCE PrBadge WITH
    Runs <- BadgeRuns, Overlap <- FALSE, Requests <- BadgeRequests, Keep <- BadgeKeep,
    MaxTime <- BadgeMaxTime, MaxFaults <- BadgeMaxFaults, clock <- badgeClock,
    arrived <- badgeArrived, payload <- badgePayload, stored <- badgeStored,
    request <- badgeRequest, newest <- badgeNewest, faults <- badgeFaults
ASSUME BadgeAssumption == Badge!Suited
badgeVars == <<
    badgeClock, badgeArrived, lastTrace, badgePayload, badgeStored, memo, badgeRequest,
    badgeNewest, told, badgeFaults>>

vars == <<part, pagesVars, viewVars, commandsVars, authVars, accountsVars, questionsVars, draftsVars, rerunsVars,
          sharedVars, badgeVars>>

Init ==
    /\ part \in Parts
    /\ Pages!Init /\ Auth!Init /\ Accounts!Init /\ Asked!Init /\ Drafting!Init
    /\ Reruns!Init /\ Shared!Init /\ Badge!Init
    /\ IF part = "view" THEN View!Init
       ELSE /\ viewClock = 0 /\ viewAttempt = 0 /\ total = 0 /\ done = 0 /\ doneAt = 0 /\ seen = 0 /\ paths = 0 /\ sources = 0
            /\ kept = 0 /\ guess = 0 /\ build = 0 /\ viewFaults = 0
    /\ IF part = "commands" THEN Commands!Init
       ELSE /\ commandsNow = 0 /\ linked = 0 /\ stored = 0 /\ commandsFree = 0 /\ at = 0 /\ static = 0 /\ executed = 0 /\ commandsFaults = 0

Next ==
    \/ /\ part = "pages" /\ Pages!Next
       /\ UNCHANGED <<part, viewVars, commandsVars, authVars, accountsVars, questionsVars,
                      draftsVars, rerunsVars, sharedVars, badgeVars>>
    \/ /\ part = "view" /\ View!Next
       /\ UNCHANGED <<part, pagesVars, commandsVars, authVars, accountsVars, questionsVars,
                      draftsVars, rerunsVars, sharedVars, badgeVars>>
    \/ /\ part = "commands" /\ Commands!Next
       /\ UNCHANGED <<part, pagesVars, viewVars, authVars, accountsVars, questionsVars,
                      draftsVars, rerunsVars, sharedVars, badgeVars>>
    \/ /\ part = "auth" /\ Auth!Next
       /\ UNCHANGED <<part, pagesVars, viewVars, commandsVars, accountsVars, questionsVars,
                      draftsVars, rerunsVars, sharedVars, badgeVars>>
    \/ /\ part = "accounts" /\ Accounts!Next
       /\ UNCHANGED <<part, pagesVars, viewVars, commandsVars, authVars, questionsVars,
                      draftsVars, rerunsVars, sharedVars, badgeVars>>
    \/ /\ part = "questions" /\ Asked!Next
       /\ UNCHANGED <<part, pagesVars, viewVars, commandsVars, authVars, accountsVars,
                      draftsVars, rerunsVars, sharedVars, badgeVars>>
    \/ /\ part = "drafts" /\ Drafting!Next
       /\ UNCHANGED <<part, pagesVars, viewVars, commandsVars, authVars, accountsVars,
                      questionsVars, rerunsVars, sharedVars, badgeVars>>
    \/ /\ part = "reruns" /\ Reruns!Next
       /\ UNCHANGED <<part, pagesVars, viewVars, commandsVars, authVars, accountsVars,
                      questionsVars, draftsVars, sharedVars, badgeVars>>
    \/ /\ part = "shared" /\ Shared!Next
       /\ UNCHANGED <<part, pagesVars, viewVars, commandsVars, authVars, accountsVars,
                      questionsVars, draftsVars, rerunsVars, badgeVars>>
    \/ /\ part = "badge" /\ Badge!Next
       /\ UNCHANGED <<part, pagesVars, viewVars, commandsVars, authVars, accountsVars,
                      questionsVars, draftsVars, rerunsVars, sharedVars>>

Spec == Init /\ [][Next]_vars

\* A page stops asking only when its list is complete, and in time; a list of
\* jobs kept for a pull request is the whole list.
PagesWhole ==
    /\ part = "pages" => Pages!StopsComplete /\ Pages!StopsInTime
    /\ part = "view" => View!KeptListsWhole

\* A command runs once however often it is delivered and never keeps its slot;
\* of equal questions one is asked, and every slot comes back.
AnsweredOnce ==
    /\ part = "commands" => Commands!ExecutedOnce /\ Commands!NoSlotLost
    /\ part = "questions" => Asked!AskedOnce /\ Asked!SlotsKept

\* Whoever holds a session was signed in by GitHub with that browser or device.
SessionsEarned == part = "auth" => Auth!SessionsEarned

\* A Slack member is linked to a login only with the owner's and the identity's
\* word, and acts only as the identity linked at that moment.
ActsAsLinked == Accounts!LinkedByBoth /\ Accounts!ActsAsLinked

\* The first issue about a test is opened by somebody who holds the test, and
\* nobody is put on an unpublished test over somebody else's head.
TestsHeld == Drafting!HeldWhenPublished /\ Drafting!UnpublishedNotTakenOver

\* A lane is dispatched at most once, after the runs to cancel have ended; an
\* action that is not over has a worker.
DispatchedOnce ==
    part = "reruns" =>
        Reruns!AtMostOneDispatch /\ Reruns!OpenHasWorker /\ Reruns!CancelledOrRefused

\* Requests for one value share one build, and none is answered with an older
\* value than one before it; nor is a badge, which is of its stream.
SharedInOrder ==
    /\ Shared!BuiltOnce /\ Shared!AnswersInOrder
    /\ Badge!NeverBack /\ Badge!OfItsStream

-----------------------------------------------------------------------------
(* The instance that is model-checked. *)

\* A command delivered twice, one in the same hour that disconnects, one from the
\* dashboard when those two have been forgotten.
Sent(command, text, via, n) == [command |-> command, text |-> text, via |-> via, n |-> n]
SentFromSlack == {Sent("c1", "work", "event", 1), Sent("c1", "work", "event", 2),
                  Sent("c2", "disconnect", "slash", 1), Sent("c4", "work", "dashboard", 1)}
HoursSent == "c1" :> 0 @@ "c2" :> 0 @@ "c4" :> 3

\* Three owners, one of them managed, two identities, one renamed.
TwoLogins == "g" :> "x" @@ "h" :> "y"
OneManaged == "q" :> "w"

\* Two people ask the same, one of them also for a draft; a page asks by itself.
Question(feature, key, user, by) == [feature |-> feature, key |-> key, user |-> user, by |-> by]
FiveQuestions ==
    "a" :> Question("wdyt", "k", "u", "viewer") @@ "b" :> Question("wdyt", "k", "v", "viewer")
    @@ "d" :> Question("draft", "k", "u", "viewer") @@ "e" :> Question("who", "k", "u", "d")
    @@ "f" :> Question("who", "l", "v", "viewer")

\* Two people with a dialog each, a packet of two tests and one of them.
OneDraftEach == "d1" :> "ann" @@ "d2" :> "bob"
PacketAndOne == "d1" :> {"n1", "n2"} @@ "d2" :> {"n2"}

\* One action of two lanes, posted twice; one source run to cancel.
OnePr == "a1" :> "pr1"
TwoLanes == "a1" :> {"cpu", "gpu"}
SameAction == "p1" :> "a1" @@ "p2" :> "a1"
OneSource == "s1" :> <<"pr1", "cpu">>

\* A rerun between two runs of PR CI, a job of two kinds of machine.
TwoAndARerun == <<"pull_request", "pull_request", "rerun-failed">>
Job(name, hardware) == [name |-> name, hardware |-> hardware]
OneJobOrTwo == <<{Job("j", "one")}, {Job("j", "one"), Job("j", "two")}, {Job("j", "one")}>>
==============================================================================
