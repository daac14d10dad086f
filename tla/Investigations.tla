---------------------------- MODULE Investigations ----------------------------
(***************************************************************************)
(* Interactive investigations from Slack                                   *)
(* (src/src/transformersci/otel/slack_investigations.py).  A command       *)
(* handler records an investigation and asks Serge for it; one poller      *)
(* thread follows every running one, posting its phases, and asks before a *)
(* pull request is made; another handler carries the answer to Serge.  All *)
(* three show the state as a Slack session.  Each statement on the table   *)
(* is a transaction of its own; Serge and Slack are asked in between.      *)
(***************************************************************************)
EXTENDS Naturals, TLAPS

CONSTANTS
    Investigations, \* command ids
    Handlers,       \* threads of the command pool
    Poller,         \* the slack-investigations thread
    MaxPhases,      \* how many phases Serge reports of one task
    MaxRestarts,    \* how often the process may restart
    NoOne           \* no investigation at hand

Threads == Handlers \union {Poller}

ASSUME ThreadsAssumption == Poller \notin Handlers
ASSUME NoOneAssumption == NoOne \notin Investigations
ASSUME BoundsAssumption == MaxPhases \in Nat /\ MaxRestarts \in Nat

VARIABLES
    row,            \* table investigations: state and cursor
    session,        \* table investigations: session_status
    posted,         \* Slack: the phases posted in the thread
    asked,          \* Slack: the approval buttons are posted
    job,            \* Serge: the task's status
    phases,         \* Serge: how many phases it has gone through
    age,            \* time since the investigation was recorded
    handler,        \* command handlers: what each is at
    poll,           \* the poller: what it is at
    sync,           \* sync_sessions, per thread
    restarts        \* how often the process has restarted

slackVars == <<posted, asked>>
sergeVars == <<job, phases>>
vars == <<row, session, slackVars, sergeVars, age, handler, poll, sync, restarts>>

-----------------------------------------------------------------------------
(* Rows *)

NoRow == [state |-> "none", cursor |-> 0]
NoSession == ""
Recorded(i) == row[i] # NoRow
Decided == {"published", "declined"}
Ended == Decided \union {"no_fix"}
Verb == [approve |-> "published", decline |-> "declined"]

SetState(i, s) == row' = [row EXCEPT ![i].state = s]

Desired(s) ==
    IF s = "running" THEN "processing"
    ELSE IF s = "awaiting_approval" THEN "suspended"
    ELSE "closed"

-----------------------------------------------------------------------------
(* sync_sessions *)

NotSyncing == [at |-> "off"]
Rows(left) == IF left = {} THEN NotSyncing ELSE [at |-> "rows", left |-> left]
SyncDue(t) == sync' = [sync EXCEPT ![t] = [at |-> "due"]]
Idle(t) == sync[t].at = "off"

Expired(i) == row[i].state = "awaiting_approval" /\ age[i] = "day"

\* Mutant of ToSync: a session marked suspended is left to the decision.
ToSyncRunning(r) ==
    {[inv |-> i, desired |-> Desired(r[i].state)] :
        i \in {k \in Investigations : r[k] # NoRow /\ session[k] # "suspended"
                                      /\ Desired(r[k].state) # session[k]}}

\* The rows whose session is out of date, in the rows r.
ToSync(r) ==
    {[inv |-> i, desired |-> Desired(r[i].state)] :
        i \in {k \in Investigations : r[k] # NoRow /\ Desired(r[k].state) # session[k]}}

\* A processing session is sent again every 20 minutes.
Heartbeats(r) ==
    {[inv |-> i, desired |-> "processing"] :
        i \in {k \in Investigations : r[k].state = "running"}}

SyncRead(t) ==
    /\ sync[t].at = "due"
    /\ row' = [i \in Investigations |->
                  IF Expired(i) THEN [row[i] EXCEPT !.state = "expired"] ELSE row[i]]
    /\ \E beats \in SUBSET Heartbeats(row') :
          sync' = [sync EXCEPT ![t] = Rows(ToSync(row') \union beats)]
    /\ UNCHANGED session

SyncSent(t, x) ==
    /\ sync[t].at = "rows"
    /\ x \in sync[t].left
    /\ sync' = [sync EXCEPT ![t] = [at |-> "sent", left |-> @.left \ {x}, row |-> x]]
    /\ UNCHANGED <<row, session>>

\* Slack refused, or its answer was lost: the next round sends it again.
SyncFails(t, x) ==
    /\ sync[t].at = "rows"
    /\ x \in sync[t].left
    /\ sync' = [sync EXCEPT ![t] = Rows(@.left \ {x})]
    /\ UNCHANGED <<row, session>>

SyncWrite(t) ==
    /\ sync[t].at = "sent"
    /\ session' = [session EXCEPT ![sync[t].row.inv] = sync[t].row.desired]
    /\ sync' = [sync EXCEPT ![t] = Rows(@.left)]
    /\ UNCHANGED row

SyncStep(t) ==
    /\ \/ SyncRead(t) \/ SyncWrite(t)
       \/ sync[t].at = "rows" /\ \E x \in sync[t].left : SyncSent(t, x) \/ SyncFails(t, x)
    /\ UNCHANGED <<posted, asked, sergeVars, age, handler, poll, restarts>>

-----------------------------------------------------------------------------
(* begin *)

NoTask == [at |-> "idle", inv |-> NoOne]
Handle(h, task) == handler' = [handler EXCEPT ![h] = task]
At(h, step) == handler[h].at = step /\ Idle(h)
Beginning(i) == \E h \in Handlers : handler[h].inv = i /\ handler[h].at \in {"call", "refused"}

\* The row, with the task's id, is on file before Serge is asked.
BeginInsert(h, i) ==
    /\ At(h, "idle")
    /\ ~Recorded(i)
    /\ row' = [row EXCEPT ![i] = [state |-> "running", cursor |-> 0]]
    /\ Handle(h, [at |-> "call", inv |-> i])
    /\ SyncDue(h)
    /\ UNCHANGED job

\* The answer may be lost on its way there, on its way back, or arrive.
BeginCall(h) ==
    /\ At(h, "call")
    /\ \/ job' = [job EXCEPT ![handler[h].inv] = "running"]
       \/ UNCHANGED job
    /\ Handle(h, NoTask)
    /\ UNCHANGED <<row, sync>>

BeginRefused(h) ==
    /\ At(h, "call")
    /\ Handle(h, [handler[h] EXCEPT !.at = "refused"])
    /\ UNCHANGED <<row, job, sync>>

BeginFailed(h) ==
    /\ At(h, "refused")
    /\ SetState(handler[h].inv, "error")
    /\ Handle(h, NoTask)
    /\ UNCHANGED <<job, sync>>

(* decide *)

\* Somebody presses a button, or answers yes or no in the thread.
StartDecision(h, i, verb) ==
    /\ At(h, "idle")
    /\ asked[i]
    /\ Handle(h, [at |-> "decide", inv |-> i, status |-> Verb[verb]])
    /\ UNCHANGED <<row, job, sync>>

\* Serge takes one decision, and takes it again.
DecideCall(h) ==
    LET i == handler[h].inv IN
    /\ At(h, "decide")
    /\ job[i] \in {"awaiting_approval", handler[h].status}
    /\ job' = [job EXCEPT ![i] = handler[h].status]
    /\ \/ Handle(h, [handler[h] EXCEPT !.at = "write"])
       \/ Handle(h, NoTask)     \* the answer is lost
    /\ UNCHANGED <<row, sync>>

DecideRefused(h) ==
    /\ At(h, "decide")
    /\ Handle(h, NoTask)
    /\ UNCHANGED <<row, job, sync>>

DecideWrite(h) ==
    /\ At(h, "write")
    /\ SetState(handler[h].inv, handler[h].status)
    /\ Handle(h, NoTask)
    /\ SyncDue(h)
    /\ UNCHANGED job

GetOn(h) ==
    \/ BeginCall(h) \/ BeginRefused(h) \/ BeginFailed(h)
    \/ DecideCall(h) \/ DecideRefused(h) \/ DecideWrite(h)

Handling ==
    /\ \E h \in Handlers :
          \/ GetOn(h)
          \/ \E i \in Investigations :
                BeginInsert(h, i) \/ \E verb \in DOMAIN Verb : StartDecision(h, i, verb)
    /\ UNCHANGED <<session, slackVars, phases, age, poll, restarts>>

-----------------------------------------------------------------------------
(* The poller *)

NotPolling == [at |-> "rest", todo |-> {}]
PollAt(step) == poll.at = step /\ Idle(Poller)
Goto(step) == poll' = [poll EXCEPT !.at = step]
\* On to the next row, this one's call or message having failed or not.
NextRow == poll' = [at |-> "next", todo |-> poll.todo]

PollStart ==
    /\ PollAt("rest")
    /\ Goto("read")
    /\ SyncDue(Poller)
    /\ UNCHANGED <<row, posted, asked>>

PollRead ==
    /\ PollAt("read")
    /\ poll' = [at |-> "next",
                todo |-> {[inv |-> i, cursor |-> row[i].cursor] :
                             i \in {k \in Investigations : row[k].state = "running"}}]
    /\ UNCHANGED <<row, posted, asked, sync>>

PollFails(x) ==
    /\ PollAt("next")
    /\ x \in poll.todo
    /\ poll' = [poll EXCEPT !.todo = @ \ {x}]
    /\ UNCHANGED <<row, posted, asked, sync>>

\* Mutant of Gone: a task Serge does not know may still be on its way.
GoneIfKnown(i) == age[i] = "day" /\ job[i] # "none"

\* Serge says it does not know the task, or has said nothing for a day.
Gone(i) == age[i] = "day" \/ (age[i] = "old" /\ job[i] = "none")

PollGone(x) ==
    /\ PollAt("next")
    /\ x \in poll.todo
    /\ Gone(x.inv)
    /\ poll' = [at |-> "gone", todo |-> poll.todo \ {x}, inv |-> x.inv]
    /\ UNCHANGED <<row, posted, asked, sync>>

PollAnswer(x) ==
    /\ PollAt("next")
    /\ x \in poll.todo
    /\ job[x.inv] # "none"
    /\ poll' = [at |-> "phases", todo |-> poll.todo \ {x}, inv |-> x.inv,
                cursor |-> x.cursor, upto |-> phases[x.inv], status |-> job[x.inv]]
    /\ UNCHANGED <<row, posted, asked, sync>>

MorePhases == poll.cursor < poll.upto
AtEnd == poll.cursor = poll.upto /\ poll.status # "running"

\* Mutant of Posted: the phase of the cursor the round began with.
PostedAgain ==
    posted' = [posted EXCEPT ![poll.inv] = @ \union {row[poll.inv].cursor}]

Posted == posted' = [posted EXCEPT ![poll.inv] = @ \union {poll.cursor + 1}]

PostPhase ==
    /\ PollAt("phases")
    /\ MorePhases
    /\ Posted
    /\ poll' = [poll EXCEPT !.at = "cursor", !.cursor = @ + 1]
    /\ UNCHANGED <<row, asked, sync>>

\* Mutant of NewCursor: the phase after the one posted.
NewCursorNext == poll.cursor + 1

NewCursor == poll.cursor

WriteCursor ==
    /\ PollAt("cursor")
    /\ row' = [row EXCEPT ![poll.inv].cursor = NewCursor]
    /\ Goto("phases")
    /\ UNCHANGED <<posted, asked, sync>>

StillRunning ==
    /\ PollAt("phases")
    /\ poll.cursor = poll.upto
    /\ poll.status = "running"
    /\ NextRow
    /\ UNCHANGED <<row, posted, asked, sync>>

\* The proposal with its buttons, or how it ended.
Asked ==
    asked' = [asked EXCEPT ![poll.inv] = @ \/ poll.status = "awaiting_approval"]

PostEnd ==
    /\ PollAt("phases")
    /\ AtEnd
    /\ Asked
    /\ Goto("state")
    /\ UNCHANGED <<row, posted, sync>>

\* Mutant of EndState: whatever Serge ended with, the approval is pending.
EndStateAsked == IF poll.status = "running" THEN "running" ELSE "awaiting_approval"

EndState == poll.status

WriteState ==
    /\ PollAt("state")
    /\ SetState(poll.inv, EndState)
    /\ NextRow
    /\ UNCHANGED <<posted, asked, sync>>

PostGone ==
    /\ PollAt("gone")
    /\ Goto("error")
    /\ UNCHANGED <<row, posted, asked, sync>>

WriteGone ==
    /\ PollAt("error")
    /\ SetState(poll.inv, "error")
    /\ NextRow
    /\ UNCHANGED <<posted, asked, sync>>

\* A message raises, delivered or not: the row is left for the next round.
MessageFails ==
    /\ PollAt("phases") \/ PollAt("gone")
    /\ \/ UNCHANGED <<posted, asked>>
       \/ poll.at = "phases" /\ MorePhases /\ Posted /\ UNCHANGED asked
       \/ poll.at = "phases" /\ AtEnd /\ Asked /\ UNCHANGED posted
    /\ NextRow
    /\ UNCHANGED <<row, sync>>

PollEnd ==
    /\ PollAt("next")
    /\ poll.todo = {}
    /\ Goto("rest")
    /\ SyncDue(Poller)
    /\ UNCHANGED <<row, posted, asked>>

PollStep ==
    \/ PollStart \/ PollRead \/ PostPhase \/ WriteCursor \/ StillRunning \/ PostEnd
    \/ WriteState \/ PostGone \/ WriteGone \/ MessageFails \/ PollEnd
    \/ \E x \in poll.todo : PollFails(x) \/ PollGone(x) \/ PollAnswer(x)

Polling ==
    /\ PollStep
    /\ UNCHANGED <<session, sergeVars, age, handler, restarts>>

-----------------------------------------------------------------------------
(* Serge, time, restarts *)

SergePhase(i) ==
    /\ job[i] = "running"
    /\ phases[i] < MaxPhases
    /\ phases' = [phases EXCEPT ![i] = @ + 1]
    /\ UNCHANGED job

SergeEnds(i) ==
    /\ job[i] = "running"
    /\ \E status \in {"awaiting_approval", "no_fix"} : job' = [job EXCEPT ![i] = status]
    /\ UNCHANGED phases

Serge ==
    /\ \E i \in Investigations : SergePhase(i) \/ SergeEnds(i)
    /\ UNCHANGED <<row, session, slackVars, age, handler, poll, sync, restarts>>

\* Five minutes, then a day: far beyond what a handler's calls may take.
Age(i) ==
    /\ Recorded(i)
    /\ age[i] # "day"
    /\ ~Beginning(i)
    /\ age' = [age EXCEPT ![i] = IF @ = "new" THEN "old" ELSE "day"]

Time ==
    /\ \E i \in Investigations : Age(i)
    /\ UNCHANGED <<row, session, slackVars, sergeVars, handler, poll, sync, restarts>>

Restart ==
    /\ restarts < MaxRestarts
    /\ restarts' = restarts + 1
    /\ handler' = [h \in Handlers |-> NoTask]
    /\ poll' = NotPolling
    /\ sync' = [t \in Threads |-> NotSyncing]
    /\ UNCHANGED <<row, session, slackVars, sergeVars, age>>

Init ==
    /\ row = [i \in Investigations |-> NoRow]
    /\ session = [i \in Investigations |-> NoSession]
    /\ posted = [i \in Investigations |-> {}]
    /\ asked = [i \in Investigations |-> FALSE]
    /\ job = [i \in Investigations |-> "none"]
    /\ phases = [i \in Investigations |-> 0]
    /\ age = [i \in Investigations |-> "new"]
    /\ handler = [h \in Handlers |-> NoTask]
    /\ poll = NotPolling
    /\ sync = [t \in Threads |-> NotSyncing]
    /\ restarts = 0

Syncing == \E t \in Threads : SyncStep(t)

Next == Syncing \/ Handling \/ Polling \/ Serge \/ Time \/ Restart

Spec == Init /\ [][Next]_vars

\* The poller goes round for ever; every call returns or raises, and one made
\* again and again is in the end answered.  Serge's tasks end; a day passes.
FairSpec ==
    /\ Spec
    /\ WF_vars(Polling)
    /\ \A t \in Threads : WF_vars(SyncStep(t))
    /\ \A h \in Handlers : WF_vars(GetOn(h) /\ Handling)
    /\ SF_vars((PostPhase \/ PostEnd \/ PostGone) /\ Polling)
    /\ \A i \in Investigations :
          /\ WF_vars(SergeEnds(i) /\ Serge)
          /\ WF_vars(Age(i) /\ Time)
          /\ SF_vars((\E x \in poll.todo : x.inv = i /\ (PollAnswer(x) \/ PollGone(x)))
                     /\ Polling)
          /\ SF_vars((\E x \in ToSync(row) : x.inv = i /\ SyncSent(Poller, x)) /\ Syncing)

-----------------------------------------------------------------------------
(* Correctness *)

States == {"running", "error", "expired", "awaiting_approval"} \union Ended
Sessions == {"processing", "suspended", "closed"}
Jobs == {"none", "running", "awaiting_approval"} \union Ended

Row == {NoRow} \union [state : States, cursor : 0..MaxPhases]
Task == {NoTask}
    \union [at : {"call", "refused"}, inv : Investigations]
    \union [at : {"decide", "write"}, inv : Investigations, status : Decided]
Todo == [inv : Investigations, cursor : 0..MaxPhases]
Poll ==
    [at : {"rest", "read", "next"}, todo : SUBSET Todo]
    \union [at : {"gone", "error"}, todo : SUBSET Todo, inv : Investigations]
    \union [at : {"phases", "cursor", "state"}, todo : SUBSET Todo,
            inv : Investigations, cursor : 0..MaxPhases, upto : 0..MaxPhases,
            status : Jobs \ {"none"}]
ToSend == [inv : Investigations, desired : Sessions]
Sync == {NotSyncing, [at |-> "due"]}
    \union [at : {"rows"}, left : SUBSET ToSend]
    \union [at : {"sent"}, left : SUBSET ToSend, row : ToSend]

\* Every variable holds a value of its kind.
TypeOK ==
    /\ row \in [Investigations -> Row]
    /\ session \in [Investigations -> Sessions \union {NoSession}]
    /\ posted \in [Investigations -> SUBSET (1..MaxPhases)]
    /\ asked \in [Investigations -> BOOLEAN]
    /\ job \in [Investigations -> Jobs]
    /\ phases \in [Investigations -> 0..MaxPhases]
    /\ age \in [Investigations -> {"new", "old", "day"}]
    /\ handler \in [Handlers -> Task]
    /\ poll \in Poll
    /\ sync \in [Threads -> Sync]
    /\ restarts \in 0..MaxRestarts

\* No phase is skipped, whatever fails or dies: the cursor passes what was
\* posted only, and nobody is asked, or told the end, before all of it was.
NoPhaseLost ==
    \A i \in Investigations :
        /\ 1..row[i].cursor \subseteq posted[i]
        /\ asked[i] \/ row[i].state \in Ended => 1..phases[i] \subseteq posted[i]

\* The table never says more than Serge does: an approval is pending, or a
\* decision taken, only where Serge has got that far.
NeverAheadOfSerge ==
    \A i \in Investigations :
        /\ row[i].state = "awaiting_approval" =>
              asked[i] /\ job[i] \in {"awaiting_approval"} \union Decided
        /\ row[i].state \in Ended => job[i] = row[i].state

\* What is on file and in the thread follows Serge, without a gap and not ahead.
PhasesFollowSerge == NoPhaseLost /\ NeverAheadOfSerge

\* An investigation on file does not run for ever, and once its state is final
\* its session is in the end recorded closed.
Followed == \A i \in Investigations : (row[i].state = "running") ~> (row[i].state # "running")
SessionClosed ==
    \A i \in Investigations :
        <>[](row[i].state \in {"error", "expired"} \union Ended) => <>[](session[i] = "closed")

\* An investigation is followed to its end, and so is its session.
FollowedToTheEnd == Followed /\ SessionClosed

\* README.md: "Sessions show processing during work, suspended for approval, and
\* closed on completion": once decided, an investigation stays decided.
DecisionKept ==
    [][\A i \in Investigations :
          row[i].state \in Decided => row'[i].state = row[i].state]_vars

-----------------------------------------------------------------------------
(* The inductive invariant                                                   *)

\* What row, thread and task of one investigation say together: the cursor is
\* behind what was posted, and nobody was asked or told before all of it was.
Truth(i) ==
    /\ 1..row[i].cursor \subseteq posted[i]
    /\ asked[i] => /\ job[i] \in {"awaiting_approval"} \union Decided
                   /\ 1..phases[i] \subseteq posted[i]
    /\ row[i].state = "awaiting_approval" => asked[i]
    /\ row[i].state \in Ended => /\ job[i] = row[i].state
                                 /\ 1..phases[i] \subseteq posted[i]

\* Serge is not asked for a task before it is on file, and then by one handler.
Unasked(i) == ~Recorded(i) => job[i] = "none"
CallTrue(h) ==
    handler[h].at = "call" =>
        Recorded(handler[h].inv) /\ job[handler[h].inv] = "none"
SameCall(h, g) ==
    /\ handler[h].at = "call" /\ handler[g].at = "call"
    /\ handler[h].inv = handler[g].inv

\* A decision is carried for a task somebody was asked about, and written once
\* Serge has taken it.
DecideTrue(h) ==
    /\ handler[h].at \in {"decide", "write"} => asked[handler[h].inv]
    /\ handler[h].at = "write" => job[handler[h].inv] = handler[h].status

\* Serge's task said s and says j now.
Since(s, j) == s = j \/ (s = "awaiting_approval" /\ j \in Decided)

\* What the poller holds of a task's answer is still so, or the task went on;
\* it has posted as far as its own cursor.
TodoTrue(x) == Recorded(x.inv) /\ 1..x.cursor \subseteq posted[x.inv]
SeenTrue(r) ==
    r.at \in {"phases", "cursor", "state"} =>
        /\ Recorded(r.inv)
        /\ 1..r.cursor \subseteq posted[r.inv]
        /\ r.status # "running" => /\ r.upto = phases[r.inv]
                                   /\ Since(r.status, job[r.inv])
StateTrue(r) ==
    r.at = "state" =>
        /\ r.cursor = r.upto
        /\ r.status # "running"
        /\ r.status = "awaiting_approval" => asked[r.inv]

\* What holds of all of them in every state the program can reach.
Followings ==
    /\ TypeOK
    /\ \A i \in Investigations : Truth(i) /\ Unasked(i)
    /\ \A h \in Handlers : CallTrue(h) /\ DecideTrue(h)
    /\ \A h, g \in Handlers : SameCall(h, g) => h = g
    /\ \A x \in poll.todo : TodoTrue(x)
    /\ SeenTrue(poll) /\ StateTrue(poll)

-----------------------------------------------------------------------------
(* Proofs, for any investigations, handlers, phases and restarts.  First what *)
(* the parts of the state rely on.                                           *)

LEMMA RecordedTyped ==
    ASSUME NEW i \in Investigations, row \in [Investigations -> Row]
    PROVE  /\ row[i].cursor \in 0..MaxPhases
           /\ Recorded(i) => row[i] \in [state : States, cursor : 0..MaxPhases]
           /\ ~Recorded(i) => row[i].state = "none" /\ row[i].cursor = 0
BY BoundsAssumption DEF Recorded, Row, NoRow

\* A state written on a row leaves a recorded row, with the cursor it had.
LEMMA StateWritten ==
    ASSUME NEW i \in Investigations, row \in [Investigations -> Row],
           NEW s \in States, SetState(i, s)
    PROVE  /\ row' \in [Investigations -> Row]
           /\ \A k \in Investigations : k # i => row'[k] = row[k]
           /\ row'[i].state = s /\ row'[i].cursor = row[i].cursor
           /\ \A k \in Investigations : Recorded(k) => Recorded(k)'
<1>1. row' = [row EXCEPT ![i] = [row[i] EXCEPT !.state = s]]
    BY DEF SetState
<1>2. row[i] \in [state : States \union {"none"}, cursor : 0..MaxPhases]
    BY BoundsAssumption DEF Row, NoRow
<1>3. /\ [row[i] EXCEPT !.state = s] \in [state : States, cursor : 0..MaxPhases]
      /\ [row[i] EXCEPT !.state = s].state = s
      /\ [row[i] EXCEPT !.state = s].cursor = row[i].cursor
    BY <1>2
<1>4. row'[i] = [row[i] EXCEPT !.state = s] /\ row'[i] \in Row
    BY <1>1, <1>3 DEF Row
<1>5. \A k \in Investigations : k # i => row'[k] = row[k]
    BY <1>1
<1>6. row' \in [Investigations -> Row]
    BY <1>1, <1>4
<1>7. row'[i].state # "none"
    BY <1>3, <1>4 DEF States, Ended, Decided
<1>8. \A k \in Investigations : Recorded(k) => Recorded(k)'
    BY <1>5, <1>7 DEF Recorded, NoRow
<1>9. QED
    BY <1>3, <1>4, <1>5, <1>6, <1>8

\* Serge's task of i goes on: it starts, runs, or is decided; only while it runs
\* does it go through phases.
GoesOn(i) ==
    /\ \/ job'[i] = job[i]
       \/ job[i] \in {"none", "running"}
       \/ job[i] = "awaiting_approval" /\ job'[i] \in Decided
    /\ phases'[i] = phases[i] \/ job[i] = "running"

LEMMA TruthGoesOn ==
    ASSUME NEW i \in Investigations, Truth(i), GoesOn(i),
           row'[i] = row[i], posted'[i] = posted[i], asked'[i] = asked[i]
    PROVE  Truth(i)'
BY DEF Truth, GoesOn, Ended, Decided

\* What the poller holds stays true whatever Serge does and whoever writes.
LEMMA SeenGoesOn ==
    ASSUME TypeOK, SeenTrue(poll), StateTrue(poll), poll' = poll,
           \A x \in poll.todo : TodoTrue(x),
           \A i \in Investigations :
              /\ GoesOn(i)
              /\ Recorded(i) => Recorded(i)'
              /\ posted'[i] = posted[i] /\ asked'[i] = asked[i]
    PROVE  SeenTrue(poll)' /\ StateTrue(poll)' /\ \A x \in poll'.todo : TodoTrue(x)'
<1>1. \A x \in poll.todo : x.inv \in Investigations
    BY DEF TypeOK, Poll, Todo
<1>2. \A x \in poll'.todo : TodoTrue(x)'
    BY <1>1 DEF TodoTrue
<1>3. CASE poll.at \notin {"phases", "cursor", "state"}
    BY <1>2, <1>3 DEF SeenTrue, StateTrue
<1>4. CASE poll.at \in {"phases", "cursor", "state"}
    <2>1. poll.inv \in Investigations /\ poll.status \in Jobs \ {"none"}
        BY <1>4 DEF TypeOK, Poll
    <2>2. Recorded(poll.inv)' /\ 1..poll.cursor \subseteq posted'[poll.inv]
        BY <1>4, <2>1 DEF SeenTrue
    <2>3. ASSUME poll.status # "running"
          PROVE  poll.upto = phases'[poll.inv] /\ Since(poll.status, job'[poll.inv])
        <3>1. poll.upto = phases[poll.inv] /\ Since(poll.status, job[poll.inv])
            BY <1>4, <2>3 DEF SeenTrue
        <3>2. job[poll.inv] \notin {"none", "running"}
            BY <2>1, <2>3, <3>1 DEF Since, Decided
        <3>3. phases'[poll.inv] = phases[poll.inv]
            BY <2>1, <3>2 DEF GoesOn
        <3>4. Since(poll.status, job'[poll.inv])
            BY <2>1, <3>1, <3>2 DEF GoesOn, Since, Decided
        <3> QED
            BY <3>1, <3>3, <3>4
    <2>4. SeenTrue(poll)'
        BY <2>2, <2>3 DEF SeenTrue
    <2>5. StateTrue(poll)'
        BY <2>1 DEF StateTrue
    <2> QED
        BY <1>2, <2>4, <2>5
<1>5. QED
    BY <1>3, <1>4

LEMMA HandlersGoOn ==
    ASSUME TypeOK, handler' = handler, job' = job, asked' = asked,
           \A h \in Handlers : CallTrue(h) /\ DecideTrue(h),
           \A h, g \in Handlers : SameCall(h, g) => h = g,
           \A i \in Investigations : Recorded(i) => Recorded(i)'
    PROVE  /\ \A h \in Handlers : CallTrue(h)' /\ DecideTrue(h)'
           /\ \A h, g \in Handlers : SameCall(h, g)' => h = g
<1>1. \A h, g \in Handlers : SameCall(h, g)' => h = g
    BY DEF SameCall
<1>2. ASSUME NEW h \in Handlers PROVE CallTrue(h)' /\ DecideTrue(h)'
    <2>1. DecideTrue(h)'
        BY DEF DecideTrue
    <2>2. handler[h].at = "call" => handler[h].inv \in Investigations
        BY DEF TypeOK, Task, NoTask
    <2>3. CallTrue(h)'
        BY <2>2 DEF CallTrue
    <2> QED
        BY <2>1, <2>3
<1>3. QED
    BY <1>1, <1>2

LEMMA FollowingsInit == Init => Followings
<1> SUFFICES ASSUME Init PROVE Followings
    OBVIOUS
<1>1. TypeOK
    <2>1. /\ row \in [Investigations -> Row]
          /\ session \in [Investigations -> Sessions \union {NoSession}]
          /\ posted \in [Investigations -> SUBSET (1..MaxPhases)]
          /\ asked \in [Investigations -> BOOLEAN]
          /\ job \in [Investigations -> Jobs]
          /\ phases \in [Investigations -> 0..MaxPhases]
          /\ age \in [Investigations -> {"new", "old", "day"}]
        BY BoundsAssumption DEF Init, Row, Jobs
    <2>2. handler \in [Handlers -> Task] /\ sync \in [Threads -> Sync]
        BY DEF Init, Task, Sync
    <2>3. poll \in Poll
        BY DEF Init, NotPolling, Poll
    <2> QED
        BY <2>1, <2>2, <2>3, BoundsAssumption DEF Init, TypeOK
<1>2. \A i \in Investigations : Truth(i) /\ Unasked(i)
    BY DEF Init, Truth, Unasked, NoRow, Ended, Decided
<1>3. \A h \in Handlers : handler[h].at = "idle"
    BY DEF Init, NoTask
<1>4. /\ \A h \in Handlers : CallTrue(h) /\ DecideTrue(h)
      /\ \A h, g \in Handlers : SameCall(h, g) => h = g
    BY <1>3 DEF CallTrue, DecideTrue, SameCall
<1>5. poll.at = "rest" /\ poll.todo = {}
    BY DEF Init, NotPolling
<1>6. (\A x \in poll.todo : TodoTrue(x)) /\ SeenTrue(poll) /\ StateTrue(poll)
    BY <1>5 DEF SeenTrue, StateTrue
<1>7. QED
    BY <1>1, <1>2, <1>4, <1>6 DEF Followings

-----------------------------------------------------------------------------
(* Sessions                                                                  *)

LEMMA ToSendTyped ==
    ASSUME NEW r \in [Investigations -> Row]
    PROVE  ToSync(r) \subseteq ToSend /\ Heartbeats(r) \subseteq ToSend
<1>1. \A s : Desired(s) \in Sessions
    BY DEF Desired, Sessions
<1>2. QED
    BY <1>1 DEF ToSync, Heartbeats, ToSend, Sessions

LEMMA RowsTyped ==
    ASSUME NEW left \in SUBSET ToSend PROVE Rows(left) \in Sync
BY DEF Rows, Sync

\* The rows a round reads are those on file, overdue approvals expired.
LEMMA SyncReadRows ==
    ASSUME TypeOK, NEW t \in Threads, SyncRead(t)
    PROVE  /\ row' \in [Investigations -> Row]
           /\ \A i \in Investigations :
                 \/ row'[i] = row[i]
                 \/ /\ row[i].state = "awaiting_approval"
                    /\ row'[i].state = "expired" /\ row'[i].cursor = row[i].cursor
<1> DEFINE expired(i) == [row[i] EXCEPT !.state = "expired"]
<1>1. ASSUME NEW i \in Investigations, Expired(i)
      PROVE  /\ expired(i) \in Row
             /\ expired(i).state = "expired" /\ expired(i).cursor = row[i].cursor
             /\ row[i].state = "awaiting_approval"
    <2>1. row[i] \in [state : States, cursor : 0..MaxPhases]
        BY <1>1 DEF TypeOK, Expired, Row, NoRow
    <2> QED
        BY <1>1, <2>1 DEF Expired, Row, States
<1>2. \A i \in Investigations : row'[i] = IF Expired(i) THEN expired(i) ELSE row[i]
    BY DEF SyncRead
<1>3. row' = [i \in Investigations |-> row'[i]]
    BY DEF SyncRead
<1>4. row' \in [Investigations -> Row]
    BY <1>1, <1>2, <1>3 DEF TypeOK
<1>5. QED
    BY <1>1, <1>2, <1>4

LEMMA SyncFollows == Followings /\ Syncing => Followings'
<1> SUFFICES ASSUME Followings, Syncing PROVE Followings'
    OBVIOUS
<1> USE DEF Followings
<1>1. PICK t \in Threads : SyncStep(t)
    BY DEF Syncing
<1>2. UNCHANGED <<posted, asked, job, phases, age, handler, poll, restarts>>
    BY <1>1 DEF SyncStep, sergeVars
<1>3. /\ row' \in [Investigations -> Row]
      /\ \A i \in Investigations :
            \/ row'[i] = row[i]
            \/ /\ row[i].state = "awaiting_approval"
               /\ row'[i].state = "expired" /\ row'[i].cursor = row[i].cursor
    BY <1>1, SyncReadRows DEF SyncStep, SyncWrite, SyncSent, SyncFails, TypeOK
<1>4. \A i \in Investigations : Recorded(i) <=> Recorded(i)'
    BY <1>3 DEF Recorded, NoRow
<1>5. sync' \in [Threads -> Sync] /\ session' \in [Investigations -> Sessions \union {NoSession}]
    <2>1. CASE SyncRead(t)
        <3>1. PICK beats \in SUBSET Heartbeats(row') :
                  sync' = [sync EXCEPT ![t] = Rows(ToSync(row') \union beats)]
            BY <2>1 DEF SyncRead
        <3>2. ToSync(row') \union beats \in SUBSET ToSend
            BY <1>3, ToSendTyped
        <3>3. Rows(ToSync(row') \union beats) \in Sync
            BY <3>2, RowsTyped
        <3> QED
            BY <2>1, <3>1, <3>3 DEF SyncRead, TypeOK
    <2>2. CASE SyncWrite(t)
        <3>1. sync[t] \in [at : {"sent"}, left : SUBSET ToSend, row : ToSend]
            BY <2>2 DEF SyncWrite, TypeOK, Sync, NotSyncing
        <3>2. Rows(sync[t].left) \in Sync
            BY <3>1, RowsTyped
        <3>3. sync[t].row.inv \in Investigations /\ sync[t].row.desired \in Sessions
            BY <3>1 DEF ToSend
        <3> QED
            BY <2>2, <3>2, <3>3 DEF SyncWrite, TypeOK
    <2>3. ASSUME sync[t].at = "rows", NEW x \in sync[t].left,
                 SyncSent(t, x) \/ SyncFails(t, x)
          PROVE  /\ sync' \in [Threads -> Sync]
                 /\ session' \in [Investigations -> Sessions \union {NoSession}]
        <3>1. sync[t] \in [at : {"rows"}, left : SUBSET ToSend]
            BY <2>3 DEF TypeOK, Sync, NotSyncing
        <3>2. x \in ToSend /\ sync[t].left \ {x} \in SUBSET ToSend
            BY <3>1
        <3>3. [at |-> "sent", left |-> sync[t].left \ {x}, row |-> x] \in Sync
            BY <3>2 DEF Sync
        <3>4. Rows(sync[t].left \ {x}) \in Sync
            BY <3>2, RowsTyped
        <3> QED
            BY <2>3, <3>3, <3>4 DEF SyncSent, SyncFails, TypeOK
    <2> QED
        BY <1>1, <2>1, <2>2, <2>3 DEF SyncStep
<1>6. TypeOK'
    BY <1>2, <1>3, <1>5 DEF TypeOK
<1>7. ASSUME NEW i \in Investigations PROVE Truth(i)' /\ Unasked(i)'
    <2>1. Unasked(i)'
        BY <1>2, <1>4 DEF Unasked
    <2>2. Truth(i)'
        BY <1>2, <1>3 DEF Truth, Ended, Decided
    <2> QED
        BY <2>1, <2>2
<1>8. \A i \in Investigations : GoesOn(i)
    BY <1>2 DEF GoesOn
<1>9. SeenTrue(poll)' /\ StateTrue(poll)' /\ \A x \in poll'.todo : TodoTrue(x)'
    BY <1>2, <1>4, <1>8, SeenGoesOn
<1>10. /\ \A h \in Handlers : CallTrue(h)' /\ DecideTrue(h)'
       /\ \A h, g \in Handlers : SameCall(h, g)' => h = g
    BY <1>2, <1>4, HandlersGoOn
<1>11. QED
    BY <1>6, <1>7, <1>9, <1>10

-----------------------------------------------------------------------------
(* The handlers                                                              *)

\* What a handler's step must do for the invariant, row by row, task by task.
LEMMA HandlingFrame ==
    ASSUME Followings, NEW h \in Handlers, NEW task \in Task, Handle(h, task),
           UNCHANGED <<session, posted, asked, phases, age, poll, restarts>>,
           row' \in [Investigations -> Row], job' \in [Investigations -> Jobs],
           sync' \in [Threads -> Sync],
           \A i \in Investigations :
              /\ GoesOn(i)
              /\ Recorded(i) => Recorded(i)'
              /\ Truth(i)' /\ Unasked(i)',
           CallTrue(h)' /\ DecideTrue(h)',
           \A g \in Handlers : g # h => CallTrue(g)' /\ DecideTrue(g)' /\ ~SameCall(h, g)'
    PROVE  Followings'
<1> USE DEF Followings
<1>1. handler' \in [Handlers -> Task]
    BY DEF Handle, TypeOK
<1>2. TypeOK'
    BY <1>1 DEF TypeOK
<1>3. SeenTrue(poll)' /\ StateTrue(poll)' /\ \A x \in poll'.todo : TodoTrue(x)'
    BY SeenGoesOn
<1>4. \A g \in Handlers : CallTrue(g)' /\ DecideTrue(g)'
    OBVIOUS
<1>5. \A g \in Handlers : g # h => handler'[g] = handler[g]
    BY DEF Handle, TypeOK
<1>6. ASSUME NEW f \in Handlers, NEW g \in Handlers, SameCall(f, g)', f # g PROVE FALSE
    <2>1. SameCall(g, f)'
        BY <1>6 DEF SameCall
    <2>2. f # h /\ g # h
        BY <1>6, <2>1
    <2> QED
        BY <1>5, <1>6, <2>2 DEF SameCall
<1>7. QED
    BY <1>2, <1>3, <1>4, <1>6

\* A handler that does not move is in the same case as before, when its own
\* task on Serge does not change.
LEMMA OtherHandler ==
    ASSUME Followings, NEW h \in Handlers, NEW g \in Handlers, g # h,
           NEW task \in Task, Handle(h, task), asked' = asked,
           \A i \in Investigations : Recorded(i) => Recorded(i)',
           handler[g].at = "call" => job'[handler[g].inv] = job[handler[g].inv],
           handler[g].at = "write" => job'[handler[g].inv] = job[handler[g].inv]
    PROVE  CallTrue(g)' /\ DecideTrue(g)' /\ handler'[g] = handler[g]
<1> USE DEF Followings
<1>1. handler'[g] = handler[g]
    BY DEF Handle, TypeOK
<1>2. handler[g].at = "call" => handler[g].inv \in Investigations
    BY DEF TypeOK, Task, NoTask
<1>3. CallTrue(g)'
    BY <1>1, <1>2 DEF CallTrue
<1>4. DecideTrue(g)'
    BY <1>1 DEF DecideTrue
<1>5. QED
    BY <1>1, <1>3, <1>4

LEMMA TasksTyped ==
    /\ NoTask \in Task /\ NoTask.at = "idle"
    /\ \A i \in Investigations :
          /\ [at |-> "call", inv |-> i] \in Task
          /\ \A status \in Decided : [at |-> "decide", inv |-> i, status |-> status] \in Task
BY DEF NoTask, Task

LEMMA SyncDueTyped ==
    ASSUME NEW t, sync \in [Threads -> Sync], SyncDue(t)
    PROVE  sync' \in [Threads -> Sync]
BY DEF SyncDue, Sync

\* The steps of begin.
LEMMA BeginFollows ==
    ASSUME Followings, NEW h \in Handlers,
           \/ \E i \in Investigations : BeginInsert(h, i)
           \/ BeginCall(h) \/ BeginRefused(h) \/ BeginFailed(h),
           UNCHANGED <<session, slackVars, phases, age, poll, restarts>>
    PROVE  Followings'
<1> USE DEF Followings
<1>1. UNCHANGED <<session, posted, asked, phases, age, poll, restarts>>
    BY DEF slackVars
<1>2. ASSUME NEW i \in Investigations, BeginInsert(h, i) PROVE Followings'
    <2> DEFINE new == [state |-> "running", cursor |-> 0]
               task == [at |-> "call", inv |-> i]
    <2>1. /\ row' = [row EXCEPT ![i] = new] /\ job' = job
          /\ Handle(h, task) /\ ~Recorded(i) /\ SyncDue(h)
        BY <1>2 DEF BeginInsert
    <2>2. new \in Row /\ new # NoRow
        BY BoundsAssumption DEF Row, States, NoRow
    <2>3. task \in Task
        BY TasksTyped
    <2>4. row' \in [Investigations -> Row] /\ row'[i] = new
        BY <2>1, <2>2 DEF TypeOK
    <2>5. \A k \in Investigations : k # i => row'[k] = row[k]
        BY <2>1 DEF TypeOK
    <2>6. \A k \in Investigations : Recorded(k) => Recorded(k)'
        BY <2>2, <2>4, <2>5 DEF Recorded
    <2>7. \A k \in Investigations : GoesOn(k)
        BY <1>1, <2>1 DEF GoesOn
    <2>8. job[i] = "none" /\ ~asked[i]
        BY <2>1 DEF Unasked, Truth, Decided
    <2>9. Truth(i)' /\ Unasked(i)'
        BY <1>1, <2>1, <2>4, <2>8 DEF Truth, Unasked, Ended, Decided
    <2>10. ASSUME NEW k \in Investigations, k # i PROVE Truth(k)' /\ Unasked(k)'
        BY <1>1, <2>1, <2>5, <2>7, <2>10, TruthGoesOn DEF Unasked, Recorded
    <2>11. handler'[h] = task
        BY <2>1 DEF Handle, TypeOK
    <2>12. CallTrue(h)' /\ DecideTrue(h)'
        BY <2>1, <2>2, <2>4, <2>8, <2>11 DEF CallTrue, DecideTrue, Recorded
    <2>13. ASSUME NEW g \in Handlers, g # h
           PROVE  CallTrue(g)' /\ DecideTrue(g)' /\ ~SameCall(h, g)'
        <3>1. CallTrue(g)' /\ DecideTrue(g)' /\ handler'[g] = handler[g]
            BY <1>1, <2>1, <2>3, <2>6, <2>13, OtherHandler
        <3>2. ~SameCall(h, g)'
            BY <2>1, <2>11, <3>1 DEF SameCall, CallTrue
        <3> QED
            BY <3>1, <3>2
    <2>14. sync' \in [Threads -> Sync] /\ job' \in [Investigations -> Jobs]
        BY <2>1, SyncDueTyped DEF TypeOK
    <2> HIDE DEF new, task
    <2> QED
        BY <1>1, <2>1, <2>3, <2>4, <2>6, <2>7, <2>9, <2>10, <2>12, <2>13, <2>14,
           HandlingFrame
<1>3. ASSUME UNCHANGED <<row, job>>, sync' \in [Threads -> Sync],
             NEW task \in Task, Handle(h, task), CallTrue(h)', DecideTrue(h)',
             task.at # "call"
      PROVE  Followings'
    <2>1. \A k \in Investigations : GoesOn(k) /\ (Recorded(k) => Recorded(k)')
        BY <1>1, <1>3 DEF GoesOn, Recorded
    <2>2. \A k \in Investigations : Truth(k)' /\ Unasked(k)'
        BY <1>1, <1>3, <2>1, TruthGoesOn DEF Unasked, Recorded
    <2>3. handler'[h] = task
        BY <1>3 DEF Handle, TypeOK
    <2>4. ASSUME NEW g \in Handlers, g # h
          PROVE  CallTrue(g)' /\ DecideTrue(g)' /\ ~SameCall(h, g)'
        BY <1>1, <1>3, <2>1, <2>3, <2>4, OtherHandler DEF SameCall
    <2>5. row' \in [Investigations -> Row] /\ job' \in [Investigations -> Jobs]
        BY <1>3 DEF TypeOK
    <2> QED
        BY <1>1, <1>3, <2>1, <2>2, <2>4, <2>5, HandlingFrame
<1>4. CASE BeginCall(h)
    <2> DEFINE i == handler[h].inv
    <2>1. i \in Investigations /\ handler[h].at = "call"
        BY <1>4 DEF BeginCall, At, TypeOK, Task, NoTask
    <2>2. Recorded(i) /\ job[i] = "none"
        BY <2>1 DEF CallTrue
    <2>3. /\ row' = row /\ sync' = sync /\ Handle(h, NoTask)
          /\ job' = [job EXCEPT ![i] = "running"] \/ job' = job
        BY <1>4 DEF BeginCall
    <2>4. job' \in [Investigations -> Jobs]
        BY <2>3 DEF TypeOK, Jobs
    <2>5. /\ job'[i] \in {"none", "running"}
          /\ \A k \in Investigations : k # i => job'[k] = job[k]
        BY <2>1, <2>2, <2>3 DEF TypeOK
    <2>6. ASSUME NEW k \in Investigations
          PROVE  GoesOn(k) /\ (Recorded(k) => Recorded(k)') /\ Truth(k)' /\ Unasked(k)'
        <3>1. GoesOn(k)
            BY <1>1, <2>2, <2>5 DEF GoesOn
        <3>2. Truth(k)'
            BY <1>1, <2>3, <3>1, TruthGoesOn
        <3>3. (Recorded(k) => Recorded(k)') /\ Unasked(k)'
            BY <2>2, <2>3, <2>5 DEF Recorded, Unasked
        <3> QED
            BY <3>1, <3>2, <3>3
    <2>7. handler'[h] = NoTask
        BY <2>3 DEF Handle, TypeOK
    <2>8. CallTrue(h)' /\ DecideTrue(h)'
        BY <2>7, TasksTyped DEF CallTrue, DecideTrue
    <2>9. ASSUME NEW g \in Handlers, g # h
          PROVE  CallTrue(g)' /\ DecideTrue(g)' /\ ~SameCall(h, g)'
        <3>1. handler[g].at = "call" => handler[g].inv \in Investigations /\ handler[g].inv # i
            BY <2>1, <2>9 DEF SameCall, TypeOK, Task, NoTask
        <3>2. handler[g].at = "write" => handler[g].inv \in Investigations /\ handler[g].inv # i
            BY <2>2 DEF TypeOK, Task, NoTask, DecideTrue, Decided
        <3>3. CallTrue(g)' /\ DecideTrue(g)'
            BY <1>1, <2>3, <2>5, <2>6, <2>9, <3>1, <3>2, TasksTyped, OtherHandler
        <3>4. ~SameCall(h, g)'
            BY <2>7, TasksTyped DEF SameCall
        <3> QED
            BY <3>3, <3>4
    <2>10. row' \in [Investigations -> Row] /\ sync' \in [Threads -> Sync]
        BY <2>3 DEF TypeOK
    <2> HIDE DEF i
    <2> QED
        BY <1>1, <2>3, <2>4, <2>6, <2>8, <2>9, <2>10, TasksTyped, HandlingFrame
<1>5. CASE BeginRefused(h)
    <2> DEFINE task == [handler[h] EXCEPT !.at = "refused"]
    <2>1. handler[h] \in [at : {"call", "refused"}, inv : Investigations]
        BY <1>5 DEF BeginRefused, At, TypeOK, Task, NoTask
    <2>2. task \in Task /\ task.at = "refused"
        BY <2>1 DEF Task
    <2>3. Handle(h, task) /\ UNCHANGED <<row, job, sync>>
        BY <1>5 DEF BeginRefused
    <2>4. handler'[h] = task
        BY <2>3 DEF Handle, TypeOK
    <2>5. CallTrue(h)' /\ DecideTrue(h)'
        BY <2>2, <2>4 DEF CallTrue, DecideTrue
    <2> HIDE DEF task
    <2> QED
        BY <1>3, <2>2, <2>3, <2>5 DEF TypeOK
<1>6. CASE BeginFailed(h)
    <2>1. PICK i \in Investigations : i = handler[h].inv
        BY <1>6 DEF BeginFailed, At, TypeOK, Task, NoTask
    <2>2. SetState(i, "error") /\ UNCHANGED <<job, sync>> /\ Handle(h, NoTask)
        BY <1>6, <2>1 DEF BeginFailed
    <2>3. /\ row' \in [Investigations -> Row]
          /\ \A k \in Investigations : k # i => row'[k] = row[k]
          /\ row'[i].state = "error" /\ row'[i].cursor = row[i].cursor
          /\ \A k \in Investigations : Recorded(k) => Recorded(k)'
        BY <2>1, <2>2, StateWritten DEF TypeOK, States
    <2>4. ASSUME NEW k \in Investigations PROVE GoesOn(k) /\ Truth(k)' /\ Unasked(k)'
        <3>1. GoesOn(k)
            BY <1>1, <2>2 DEF GoesOn
        <3>2. CASE k = i
            <4>1. Truth(i)'
                BY <1>1, <2>1, <2>2, <2>3 DEF Truth, Ended, Decided
            <4>2. Recorded(i)'
                BY <2>3 DEF Recorded, NoRow
            <4> QED
                BY <3>1, <3>2, <4>1, <4>2 DEF Unasked
        <3>3. CASE k # i
            BY <1>1, <2>2, <2>3, <3>1, <3>3, TruthGoesOn DEF Unasked, Recorded
        <3> QED
            BY <3>1, <3>2, <3>3
    <2>5. handler'[h] = NoTask
        BY <2>2 DEF Handle, TypeOK
    <2>6. CallTrue(h)' /\ DecideTrue(h)'
        BY <2>5, TasksTyped DEF CallTrue, DecideTrue
    <2>7. ASSUME NEW g \in Handlers, g # h
          PROVE  CallTrue(g)' /\ DecideTrue(g)' /\ ~SameCall(h, g)'
        <3>1. CallTrue(g)' /\ DecideTrue(g)'
            BY <1>1, <2>2, <2>3, <2>7, TasksTyped, OtherHandler
        <3>2. ~SameCall(h, g)'
            BY <2>5, TasksTyped DEF SameCall
        <3> QED
            BY <3>1, <3>2
    <2>8. job' \in [Investigations -> Jobs] /\ sync' \in [Threads -> Sync]
        BY <2>2 DEF TypeOK
    <2> QED
        BY <1>1, <2>2, <2>3, <2>4, <2>6, <2>7, <2>8, TasksTyped, HandlingFrame
<1>7. QED
    BY <1>2, <1>4, <1>5, <1>6

\* The steps of decide.
LEMMA DecideFollows ==
    ASSUME Followings, NEW h \in Handlers,
           \/ \E i \in Investigations, verb \in DOMAIN Verb : StartDecision(h, i, verb)
           \/ DecideCall(h) \/ DecideRefused(h) \/ DecideWrite(h),
           UNCHANGED <<session, slackVars, phases, age, poll, restarts>>
    PROVE  Followings'
<1> USE DEF Followings
<1>1. UNCHANGED <<session, posted, asked, phases, age, poll, restarts>>
    BY DEF slackVars
<1>2. ASSUME UNCHANGED <<row, job>>, sync' \in [Threads -> Sync],
             NEW task \in Task, Handle(h, task), CallTrue(h)', DecideTrue(h)',
             task.at # "call"
      PROVE  Followings'
    <2>1. \A k \in Investigations : GoesOn(k) /\ (Recorded(k) => Recorded(k)')
        BY <1>1, <1>2 DEF GoesOn, Recorded
    <2>2. \A k \in Investigations : Truth(k)' /\ Unasked(k)'
        BY <1>1, <1>2, <2>1, TruthGoesOn DEF Unasked, Recorded
    <2>3. handler'[h] = task
        BY <1>2 DEF Handle, TypeOK
    <2>4. ASSUME NEW g \in Handlers, g # h
          PROVE  CallTrue(g)' /\ DecideTrue(g)' /\ ~SameCall(h, g)'
        BY <1>1, <1>2, <2>1, <2>3, <2>4, OtherHandler DEF SameCall
    <2>5. row' \in [Investigations -> Row] /\ job' \in [Investigations -> Jobs]
        BY <1>2 DEF TypeOK
    <2> QED
        BY <1>1, <1>2, <2>1, <2>2, <2>4, <2>5, HandlingFrame
<1>3. ASSUME NEW i \in Investigations, NEW verb \in DOMAIN Verb, StartDecision(h, i, verb)
      PROVE  Followings'
    <2>1. PICK status \in Decided : status = Verb[verb]
        BY DEF Verb, Decided
    <2>2. PICK task : task = [at |-> "decide", inv |-> i, status |-> status]
        OBVIOUS
    <2>3. task \in Task
        BY <2>2, TasksTyped
    <2>4. asked[i] /\ Handle(h, task) /\ UNCHANGED <<row, job, sync>>
        BY <1>3, <2>1, <2>2 DEF StartDecision
    <2>5. handler'[h] = task
        BY <2>4 DEF Handle, TypeOK
    <2>6. CallTrue(h)' /\ DecideTrue(h)'
        BY <1>1, <2>2, <2>4, <2>5 DEF CallTrue, DecideTrue
    <2> QED
        BY <1>2, <2>2, <2>3, <2>4, <2>6 DEF TypeOK
<1>4. CASE DecideRefused(h)
    <2>1. Handle(h, NoTask) /\ UNCHANGED <<row, job, sync>>
        BY <1>4 DEF DecideRefused
    <2>2. handler'[h] = NoTask
        BY <2>1 DEF Handle, TypeOK
    <2>3. CallTrue(h)' /\ DecideTrue(h)'
        BY <2>2, TasksTyped DEF CallTrue, DecideTrue
    <2> QED
        BY <1>2, <2>1, <2>3, TasksTyped DEF TypeOK
<1>5. CASE DecideCall(h)
    <2>1. handler[h] \in [at : {"decide", "write"}, inv : Investigations, status : Decided]
          /\ handler[h].at = "decide"
        BY <1>5 DEF DecideCall, At, TypeOK, Task, NoTask
    <2>2. PICK i \in Investigations, status \in Decided :
              i = handler[h].inv /\ status = handler[h].status
        BY <2>1
    <2>3. /\ job[i] \in {"awaiting_approval", status}
          /\ job' = [job EXCEPT ![i] = status] /\ UNCHANGED <<row, sync>>
          /\ \/ Handle(h, [handler[h] EXCEPT !.at = "write"])
             \/ Handle(h, NoTask)
        BY <1>5, <2>2 DEF DecideCall
    <2>4. PICK task : task = [handler[h] EXCEPT !.at = "write"]
        OBVIOUS
    <2>5. task \in Task /\ task.at = "write" /\ task.inv = i /\ task.status = status
        BY <2>1, <2>2, <2>4 DEF Task
    <2>6. asked[i]
        BY <2>1, <2>2 DEF DecideTrue
    <2>7. /\ job' \in [Investigations -> Jobs]
          /\ job'[i] = status /\ \A k \in Investigations : k # i => job'[k] = job[k]
        BY <2>3 DEF TypeOK, Jobs, Ended
    <2>8. ASSUME NEW k \in Investigations
          PROVE  GoesOn(k) /\ (Recorded(k) => Recorded(k)') /\ Truth(k)' /\ Unasked(k)'
        <3>1. GoesOn(k)
            BY <1>1, <2>3, <2>7 DEF GoesOn
        <3>2. Truth(k)'
            BY <1>1, <2>3, <3>1, TruthGoesOn
        <3>3. job[i] # "none"
            BY <2>3 DEF Decided
        <3>4. (Recorded(k) => Recorded(k)') /\ Unasked(k)'
            BY <2>3, <2>7, <3>3 DEF Recorded, Unasked
        <3> QED
            BY <3>1, <3>2, <3>4
    <2>9. ASSUME NEW next \in {task, NoTask}, Handle(h, next) PROVE Followings'
        <3>1. handler'[h] = next /\ next \in Task
            BY <2>5, <2>9, TasksTyped DEF Handle, TypeOK
        <3>2. CallTrue(h)' /\ DecideTrue(h)'
            BY <1>1, <2>5, <2>6, <2>7, <2>9, <3>1, TasksTyped DEF CallTrue, DecideTrue
        <3>3. ASSUME NEW g \in Handlers, g # h
              PROVE  CallTrue(g)' /\ DecideTrue(g)' /\ ~SameCall(h, g)'
            <4>1. handler[g].at = "call" => handler[g].inv \in Investigations /\ handler[g].inv # i
                BY <2>3 DEF CallTrue, TypeOK, Task, NoTask, Decided
            <4>2. handler[g].at = "write" => job'[handler[g].inv] = job[handler[g].inv]
                <5>1. ASSUME handler[g].at = "write", handler[g].inv = i
                      PROVE  job[i] = status
                    <6>1. handler[g].status \in Decided /\ job[i] = handler[g].status
                        BY <5>1 DEF DecideTrue, TypeOK, Task, NoTask
                    <6> QED
                        BY <2>3, <6>1 DEF Decided
                <5>2. handler[g].at = "write" => handler[g].inv \in Investigations
                    BY DEF TypeOK, Task, NoTask
                <5> QED
                    BY <2>7, <5>1, <5>2
            <4>3. handler[g].at = "call" => job'[handler[g].inv] = job[handler[g].inv]
                BY <2>7, <4>1
            <4>4. CallTrue(g)' /\ DecideTrue(g)'
                BY <1>1, <2>8, <2>9, <3>1, <3>3, <4>2, <4>3, OtherHandler
            <4>5. ~SameCall(h, g)'
                BY <2>5, <2>9, <3>1, TasksTyped DEF SameCall
            <4> QED
                BY <4>4, <4>5
        <3>4. row' \in [Investigations -> Row] /\ sync' \in [Threads -> Sync]
            BY <2>3 DEF TypeOK
        <3> QED
            BY <1>1, <2>7, <2>8, <2>9, <3>1, <3>2, <3>3, <3>4, HandlingFrame
    <2> QED
        BY <2>3, <2>4, <2>9
<1>6. CASE DecideWrite(h)
    <2>1. handler[h] \in [at : {"decide", "write"}, inv : Investigations, status : Decided]
          /\ handler[h].at = "write"
        BY <1>6 DEF DecideWrite, At, TypeOK, Task, NoTask
    <2>2. PICK i \in Investigations, status \in Decided :
              i = handler[h].inv /\ status = handler[h].status
        BY <2>1
    <2>3. SetState(i, status) /\ job' = job /\ Handle(h, NoTask) /\ SyncDue(h)
        BY <1>6, <2>2 DEF DecideWrite
    <2>4. asked[i] /\ job[i] = status
        BY <2>1, <2>2 DEF DecideTrue
    <2>5. /\ row' \in [Investigations -> Row]
          /\ \A k \in Investigations : k # i => row'[k] = row[k]
          /\ row'[i].state = status /\ row'[i].cursor = row[i].cursor
          /\ \A k \in Investigations : Recorded(k) => Recorded(k)'
        BY <2>3, StateWritten DEF TypeOK, States, Ended
    <2>6. ASSUME NEW k \in Investigations PROVE GoesOn(k) /\ Truth(k)' /\ Unasked(k)'
        <3>1. GoesOn(k)
            BY <1>1, <2>3 DEF GoesOn
        <3>2. CASE k = i
            <4>1. Truth(i)'
                BY <1>1, <2>3, <2>4, <2>5 DEF Truth, Decided
            <4>2. Recorded(i)'
                BY <2>5 DEF Recorded, NoRow, Decided
            <4> QED
                BY <3>1, <3>2, <4>1, <4>2 DEF Unasked
        <3>3. CASE k # i
            BY <1>1, <2>3, <2>5, <3>1, <3>3, TruthGoesOn DEF Unasked, Recorded
        <3> QED
            BY <3>1, <3>2, <3>3
    <2>7. handler'[h] = NoTask
        BY <2>3 DEF Handle, TypeOK
    <2>8. CallTrue(h)' /\ DecideTrue(h)'
        BY <2>7, TasksTyped DEF CallTrue, DecideTrue
    <2>9. ASSUME NEW g \in Handlers, g # h
          PROVE  CallTrue(g)' /\ DecideTrue(g)' /\ ~SameCall(h, g)'
        <3>1. CallTrue(g)' /\ DecideTrue(g)'
            BY <1>1, <2>3, <2>5, <2>9, TasksTyped, OtherHandler
        <3>2. ~SameCall(h, g)'
            BY <2>7, TasksTyped DEF SameCall
        <3> QED
            BY <3>1, <3>2
    <2>10. job' \in [Investigations -> Jobs] /\ sync' \in [Threads -> Sync]
        BY <2>3, SyncDueTyped DEF TypeOK
    <2> QED
        BY <1>1, <2>3, <2>5, <2>6, <2>8, <2>9, <2>10, TasksTyped, HandlingFrame
<1>7. QED
    BY <1>3, <1>4, <1>5, <1>6

LEMMA HandlingFollows == Followings /\ Handling => Followings'
BY BeginFollows, DecideFollows DEF Handling, GetOn

-----------------------------------------------------------------------------
(* The poller                                                                *)

LEMMA SettledPoll ==
    ASSUME NEW todo \in SUBSET Todo
    PROVE  \A at \in {"rest", "read", "next"} : [at |-> at, todo |-> todo] \in Poll
BY DEF Poll

\* What the poller's step must do for the invariant, row by row.
LEMMA PollingFrame ==
    ASSUME Followings, UNCHANGED <<session, job, phases, age, handler, restarts>>,
           row' \in [Investigations -> Row],
           posted' \in [Investigations -> SUBSET (1..MaxPhases)],
           asked' \in [Investigations -> BOOLEAN],
           poll' \in Poll, sync' \in [Threads -> Sync],
           \A i \in Investigations :
              /\ Recorded(i) => Recorded(i)'
              /\ Truth(i)'
              /\ asked[i] => asked'[i],
           \A x \in poll'.todo : x \in poll.todo \/ TodoTrue(x)',
           \A i \in Investigations : posted[i] \subseteq posted'[i],
           SeenTrue(poll)', StateTrue(poll)'
    PROVE  Followings'
<1> USE DEF Followings
<1>1. TypeOK'
    BY DEF TypeOK
<1>2. \A i \in Investigations : Unasked(i)'
    BY DEF Unasked
<1>3. ASSUME NEW h \in Handlers PROVE CallTrue(h)' /\ DecideTrue(h)'
    <2>1. handler[h].at \in {"call", "decide", "write"} => handler[h].inv \in Investigations
        BY DEF TypeOK, Task, NoTask
    <2>2. CallTrue(h)'
        BY <2>1 DEF CallTrue
    <2>3. DecideTrue(h)'
        BY <2>1 DEF DecideTrue
    <2> QED
        BY <2>2, <2>3
<1>4. \A h, g \in Handlers : SameCall(h, g)' => h = g
    BY DEF SameCall
<1>5. \A x \in poll.todo : x.inv \in Investigations
    BY DEF TypeOK, Poll, Todo
<1>6. \A x \in poll'.todo : TodoTrue(x)'
    BY <1>5 DEF TodoTrue
<1>7. QED
    BY <1>1, <1>2, <1>3, <1>4, <1>6

LEMMA SergesAnswer ==
    ASSUME poll \in Poll, poll.at \in {"phases", "cursor", "state"}
    PROVE  poll \in [at : {"phases", "cursor", "state"}, todo : SUBSET Todo,
                     inv : Investigations, cursor : 0..MaxPhases,
                     upto : 0..MaxPhases, status : Jobs \ {"none"}]
BY DEF Poll

\* The poller's steps that write and post nothing.
LEMMA QuietPollFollows ==
    ASSUME Followings, UNCHANGED <<session, job, phases, age, handler, restarts>>,
           \/ PollStart \/ PollRead \/ StillRunning \/ PostGone \/ PollEnd
           \/ \E x \in poll.todo : PollFails(x) \/ PollGone(x) \/ PollAnswer(x)
    PROVE  Followings'
<1> USE DEF Followings
<1>1. UNCHANGED <<row, posted, asked>>
    BY DEF PollStart, PollRead, StillRunning, PostGone, PollEnd, PollFails, PollGone,
       PollAnswer
<1>2. /\ row' \in [Investigations -> Row]
      /\ posted' \in [Investigations -> SUBSET (1..MaxPhases)]
      /\ asked' \in [Investigations -> BOOLEAN]
      /\ \A i \in Investigations : posted[i] \subseteq posted'[i]
      /\ \A i \in Investigations :
            (Recorded(i) => Recorded(i)') /\ Truth(i)' /\ (asked[i] => asked'[i])
    BY <1>1 DEF TypeOK, Recorded, Truth
<1>3. ASSUME poll' \in Poll, sync' \in [Threads -> Sync],
             \A x \in poll'.todo : x \in poll.todo \/ TodoTrue(x)',
             SeenTrue(poll)', StateTrue(poll)'
      PROVE  Followings'
    BY <1>2, <1>3, PollingFrame
<1>4. ASSUME poll' \in Poll, sync' \in [Threads -> Sync],
             \A x \in poll'.todo : x \in poll.todo \/ TodoTrue(x)',
             poll'.at \in {"rest", "read", "next", "gone", "error"}
      PROVE  Followings'
    BY <1>3, <1>4 DEF SeenTrue, StateTrue
<1>5. CASE PollStart
    <2>1. poll \in [at : {"rest", "read", "next"}, todo : SUBSET Todo]
        BY <1>5 DEF PollStart, PollAt, TypeOK, Poll
    <2>2. poll' = [poll EXCEPT !.at = "read"] /\ SyncDue(Poller)
        BY <1>5 DEF PollStart, Goto
    <2>3. poll' \in Poll /\ poll'.at = "read" /\ poll'.todo = poll.todo
        BY <2>1, <2>2 DEF Poll
    <2> QED
        BY <1>4, <2>2, <2>3, SyncDueTyped DEF TypeOK
<1>6. CASE PollRead
    <2> DEFINE todo == {[inv |-> i, cursor |-> row[i].cursor] :
                           i \in {k \in Investigations : row[k].state = "running"}}
    <2>1. poll' = [at |-> "next", todo |-> todo] /\ sync' = sync
        BY <1>6 DEF PollRead
    <2>2. todo \in SUBSET Todo
        BY RecordedTyped DEF TypeOK, Todo
    <2>3. ASSUME NEW x \in todo PROVE TodoTrue(x)'
        <3>1. PICK i \in Investigations :
                  row[i].state = "running" /\ x = [inv |-> i, cursor |-> row[i].cursor]
            BY <2>3
        <3>2. Recorded(i)'
            BY <1>1, <3>1 DEF Recorded, NoRow
        <3>3. 1..row[i].cursor \subseteq posted'[i]
            BY <1>1 DEF Truth
        <3> QED
            BY <3>1, <3>2, <3>3 DEF TodoTrue
    <2> HIDE DEF todo
    <2>4. poll' \in Poll /\ poll'.at = "next" /\ poll'.todo = todo
        BY <2>1, <2>2, SettledPoll
    <2> QED
        BY <1>4, <2>1, <2>3, <2>4 DEF TypeOK
<1>7. CASE StillRunning
    <2>1. poll' = [at |-> "next", todo |-> poll.todo] /\ sync' = sync
        BY <1>7 DEF StillRunning, NextRow
    <2>2. poll.todo \in SUBSET Todo
        BY DEF TypeOK, Poll
    <2>3. poll' \in Poll /\ poll'.at = "next" /\ poll'.todo = poll.todo
        BY <2>1, <2>2, SettledPoll
    <2> QED
        BY <1>4, <2>1, <2>3 DEF TypeOK
<1>8. CASE PostGone
    <2>1. poll \in [at : {"gone", "error"}, todo : SUBSET Todo, inv : Investigations]
        BY <1>8 DEF PostGone, PollAt, TypeOK, Poll
    <2>2. poll' = [poll EXCEPT !.at = "error"] /\ sync' = sync
        BY <1>8 DEF PostGone, Goto
    <2>3. poll' \in Poll /\ poll'.at = "error" /\ poll'.todo = poll.todo
        BY <2>1, <2>2 DEF Poll
    <2> QED
        BY <1>4, <2>2, <2>3 DEF TypeOK
<1>9. CASE PollEnd
    <2>1. poll \in [at : {"rest", "read", "next"}, todo : SUBSET Todo]
        BY <1>9 DEF PollEnd, PollAt, TypeOK, Poll
    <2>2. poll' = [poll EXCEPT !.at = "rest"] /\ SyncDue(Poller)
        BY <1>9 DEF PollEnd, Goto
    <2>3. poll' \in Poll /\ poll'.at = "rest" /\ poll'.todo = poll.todo
        BY <2>1, <2>2 DEF Poll
    <2> QED
        BY <1>4, <2>2, <2>3, SyncDueTyped DEF TypeOK
<1>10. ASSUME NEW x \in poll.todo, PollFails(x) PROVE Followings'
    <2>1. poll \in [at : {"rest", "read", "next"}, todo : SUBSET Todo]
        BY <1>10 DEF PollFails, PollAt, TypeOK, Poll
    <2>2. poll' = [poll EXCEPT !.todo = poll.todo \ {x}] /\ sync' = sync
        BY <1>10 DEF PollFails
    <2>3. poll' \in Poll /\ poll'.at = poll.at /\ poll'.todo = poll.todo \ {x}
        BY <2>1, <2>2 DEF Poll
    <2> QED
        BY <1>4, <2>1, <2>2, <2>3 DEF TypeOK
<1>11. ASSUME NEW x \in poll.todo, PollGone(x) PROVE Followings'
    <2>1. poll.todo \in SUBSET Todo /\ x.inv \in Investigations
        BY DEF TypeOK, Poll, Todo
    <2>2. poll' = [at |-> "gone", todo |-> poll.todo \ {x}, inv |-> x.inv] /\ sync' = sync
        BY <1>11 DEF PollGone
    <2>3. poll' \in Poll /\ poll'.at = "gone" /\ poll'.todo = poll.todo \ {x}
        BY <2>1, <2>2 DEF Poll
    <2> QED
        BY <1>4, <2>2, <2>3 DEF TypeOK
<1>12. ASSUME NEW x \in poll.todo, PollAnswer(x) PROVE Followings'
    <2>1. poll.todo \in SUBSET Todo /\ x \in Todo
        BY DEF TypeOK, Poll, Todo
    <2>2. PICK i \in Investigations, c \in 0..MaxPhases : i = x.inv /\ c = x.cursor
        BY <2>1 DEF Todo
    <2>3. /\ poll' = [at |-> "phases", todo |-> poll.todo \ {x}, inv |-> i,
                      cursor |-> c, upto |-> phases[i], status |-> job[i]]
          /\ job[i] # "none" /\ sync' = sync
        BY <1>12, <2>2 DEF PollAnswer
    <2>4. phases[i] \in 0..MaxPhases /\ job[i] \in Jobs \ {"none"}
        BY <2>3 DEF TypeOK
    <2>5. poll' \in Poll
        BY <2>1, <2>3, <2>4 DEF Poll
    <2>6. /\ poll'.at = "phases" /\ poll'.todo = poll.todo \ {x} /\ poll'.inv = i
          /\ poll'.cursor = c /\ poll'.upto = phases[i] /\ poll'.status = job[i]
        BY <2>3
    <2>7. TodoTrue(x)
        OBVIOUS
    <2>8. Recorded(i)' /\ 1..c \subseteq posted'[i]
        BY <1>1, <2>2, <2>7 DEF TodoTrue, Recorded
    <2>9. SeenTrue(poll)'
        BY <2>6, <2>8 DEF SeenTrue, Since
    <2>10. StateTrue(poll)'
        BY <2>6 DEF StateTrue
    <2> QED
        BY <1>3, <2>3, <2>5, <2>6, <2>9, <2>10 DEF TypeOK
<1>13. QED
    BY <1>5, <1>6, <1>7, <1>8, <1>9, <1>10, <1>11, <1>12

\* A phase is posted as the one after the poller's cursor, whether or not the
\* message is then known to have been taken.
LEMMA PhasePosted ==
    ASSUME Followings, poll.at = "phases", MorePhases, Posted, row' = row,
           UNCHANGED <<job, phases, asked>>
    PROVE  /\ posted' \in [Investigations -> SUBSET (1..MaxPhases)]
           /\ \A i \in Investigations : posted[i] \subseteq posted'[i] /\ Truth(i)'
           /\ 1..(poll.cursor + 1) \subseteq posted'[poll.inv]
<1> USE DEF Followings
<1>1. /\ poll.inv \in Investigations
      /\ poll.cursor \in 0..MaxPhases /\ poll.upto \in 0..MaxPhases
    BY SergesAnswer DEF TypeOK
<1>2. poll.cursor + 1 \in 1..MaxPhases
    BY <1>1, BoundsAssumption DEF MorePhases
<1>3. posted' = [posted EXCEPT ![poll.inv] = posted[poll.inv] \union {poll.cursor + 1}]
    BY DEF Posted
<1>4. posted' \in [Investigations -> SUBSET (1..MaxPhases)]
    BY <1>1, <1>2, <1>3 DEF TypeOK
<1>5. \A i \in Investigations : posted[i] \subseteq posted'[i]
    BY <1>1, <1>3 DEF TypeOK
<1>6. \A i \in Investigations : Truth(i)'
    BY <1>5 DEF Truth
<1>7. 1..poll.cursor \subseteq posted[poll.inv]
    BY DEF SeenTrue
<1>8. poll.cursor + 1 \in posted'[poll.inv]
    BY <1>1, <1>3 DEF TypeOK
<1>9. 1..(poll.cursor + 1) = (1..poll.cursor) \union {poll.cursor + 1}
    BY <1>1, BoundsAssumption
<1>10. 1..(poll.cursor + 1) \subseteq posted'[poll.inv]
    BY <1>1, <1>5, <1>7, <1>8, <1>9
<1>11. QED
    BY <1>4, <1>5, <1>6, <1>10

\* The buttons are posted only where Serge waits for the approval and every
\* phase was posted.
LEMMA EndAsked ==
    ASSUME Followings, poll.at = "phases", AtEnd, Asked, row' = row,
           UNCHANGED <<job, phases, posted>>
    PROVE  /\ asked' \in [Investigations -> BOOLEAN]
           /\ \A i \in Investigations : (asked[i] => asked'[i]) /\ Truth(i)'
           /\ poll.status = "awaiting_approval" => asked'[poll.inv]
<1> USE DEF Followings
<1>1. PICK i \in Investigations : i = poll.inv
    BY SergesAnswer DEF TypeOK
<1>2. asked' = [asked EXCEPT ![i] = asked[i] \/ poll.status = "awaiting_approval"]
    BY <1>1 DEF Asked
<1>3. /\ asked' \in [Investigations -> BOOLEAN]
      /\ asked'[i] <=> asked[i] \/ poll.status = "awaiting_approval"
      /\ \A k \in Investigations : k # i => asked'[k] = asked[k]
    BY <1>2 DEF TypeOK
<1>4. 1..poll.cursor \subseteq posted[i] /\ poll.cursor = phases[i]
      /\ Since(poll.status, job[i])
    BY <1>1 DEF SeenTrue, AtEnd
<1>5. Truth(i)'
    BY <1>1, <1>3, <1>4 DEF Truth, Since
<1>6. \A k \in Investigations : Truth(k)'
    BY <1>3, <1>5 DEF Truth
<1>7. QED
    BY <1>1, <1>3, <1>6

\* The poller's steps that post or write.
LEMMA ActivePollFollows ==
    ASSUME Followings, UNCHANGED <<session, job, phases, age, handler, restarts>>,
           \/ PostPhase \/ WriteCursor \/ PostEnd \/ WriteState \/ WriteGone
           \/ MessageFails
    PROVE  Followings'
<1> USE DEF Followings
<1>1. \A i \in Investigations : posted[i] \subseteq posted[i] /\ Truth(i)
    OBVIOUS
<1>2. poll.todo \in SUBSET Todo
    BY DEF TypeOK, Poll
<1>3. CASE PostPhase
    <2>1. poll.at = "phases" /\ MorePhases /\ Posted /\ UNCHANGED <<row, asked, sync>>
        BY <1>3 DEF PostPhase, PollAt
    <2>2. poll \in [at : {"phases", "cursor", "state"}, todo : SUBSET Todo,
                    inv : Investigations, cursor : 0..MaxPhases,
                    upto : 0..MaxPhases, status : Jobs \ {"none"}]
        BY <2>1, SergesAnswer DEF TypeOK
    <2>3. poll' = [poll EXCEPT !.at = "cursor", !.cursor = poll.cursor + 1]
        BY <1>3 DEF PostPhase
    <2>4. poll.cursor + 1 \in 0..MaxPhases
        BY <2>1, <2>2, BoundsAssumption DEF MorePhases
    <2>5. /\ poll' \in Poll /\ poll'.at = "cursor" /\ poll'.todo = poll.todo
          /\ poll'.inv = poll.inv /\ poll'.cursor = poll.cursor + 1
          /\ poll'.upto = poll.upto /\ poll'.status = poll.status
        BY <2>2, <2>3, <2>4 DEF Poll
    <2>6. /\ posted' \in [Investigations -> SUBSET (1..MaxPhases)]
          /\ \A i \in Investigations : posted[i] \subseteq posted'[i] /\ Truth(i)'
          /\ 1..(poll.cursor + 1) \subseteq posted'[poll.inv]
        BY <2>1, PhasePosted
    <2>7. SeenTrue(poll)' /\ StateTrue(poll)'
        BY <2>1, <2>5, <2>6 DEF SeenTrue, StateTrue, Recorded
    <2>8. \A i \in Investigations : (Recorded(i) => Recorded(i)') /\ (asked[i] => asked'[i])
        BY <2>1 DEF Recorded
    <2> QED
        BY <2>1, <2>5, <2>6, <2>7, <2>8, PollingFrame DEF TypeOK
<1>4. CASE WriteCursor
    <2>1. poll.at = "cursor" /\ UNCHANGED <<posted, asked, sync>>
        BY <1>4 DEF WriteCursor, PollAt
    <2>2. poll \in [at : {"phases", "cursor", "state"}, todo : SUBSET Todo,
                    inv : Investigations, cursor : 0..MaxPhases,
                    upto : 0..MaxPhases, status : Jobs \ {"none"}]
        BY <2>1, SergesAnswer DEF TypeOK
    <2>3. PICK i \in Investigations : i = poll.inv
        BY <2>2
    <2>4. PICK c \in 0..MaxPhases : c = poll.cursor
        BY <2>2
    <2>5. poll' = [poll EXCEPT !.at = "phases"]
        BY <1>4 DEF WriteCursor, Goto
    <2>6. /\ poll' \in Poll /\ poll'.at = "phases" /\ poll'.todo = poll.todo
          /\ poll'.inv = i /\ poll'.cursor = c
          /\ poll'.upto = poll.upto /\ poll'.status = poll.status
        BY <2>2, <2>3, <2>4, <2>5 DEF Poll
    <2>7. Recorded(i) /\ 1..c \subseteq posted[i]
        BY <2>1, <2>3, <2>4 DEF SeenTrue
    <2>8. row[i] \in [state : States, cursor : 0..MaxPhases]
        BY <2>7, RecordedTyped DEF TypeOK
    <2>9. row' = [row EXCEPT ![i] = [row[i] EXCEPT !.cursor = c]]
        BY <1>4, <2>3, <2>4 DEF WriteCursor, NewCursor
    <2>10. PICK new \in [state : States, cursor : 0..MaxPhases] :
               /\ new = [row[i] EXCEPT !.cursor = c]
               /\ new.state = row[i].state /\ new.cursor = c
        <3>1. /\ [row[i] EXCEPT !.cursor = c] \in [state : States, cursor : 0..MaxPhases]
              /\ [row[i] EXCEPT !.cursor = c].state = row[i].state
              /\ [row[i] EXCEPT !.cursor = c].cursor = c
            BY <2>8
        <3> QED
            BY <3>1
    <2>11. /\ row' \in [Investigations -> Row] /\ row'[i] = new
           /\ \A k \in Investigations : k # i => row'[k] = row[k]
        <3>1. new \in Row
            BY DEF Row
        <3>2. row' = [row EXCEPT ![i] = new]
            BY <2>9, <2>10
        <3> QED
            BY <3>1, <3>2 DEF TypeOK
    <2>12. Recorded(i)'
        BY <2>10, <2>11 DEF Recorded, NoRow, States, Ended, Decided
    <2>13. Truth(i)'
        BY <2>1, <2>7, <2>10, <2>11 DEF Truth
    <2>14. \A k \in Investigations :
              (Recorded(k) => Recorded(k)') /\ Truth(k)' /\ (asked[k] => asked'[k])
        BY <2>1, <2>11, <2>12, <2>13 DEF Recorded, Truth
    <2>15. SeenTrue(poll)' /\ StateTrue(poll)'
        BY <2>1, <2>3, <2>6, <2>7, <2>12 DEF SeenTrue, StateTrue
    <2>16. \A k \in Investigations : posted[k] \subseteq posted'[k]
        BY <2>1
    <2> QED
        BY <2>1, <2>6, <2>11, <2>14, <2>15, <2>16, PollingFrame DEF TypeOK
<1>5. CASE PostEnd
    <2>1. poll.at = "phases" /\ AtEnd /\ Asked /\ UNCHANGED <<row, posted, sync>>
        BY <1>5 DEF PostEnd, PollAt
    <2>2. poll \in [at : {"phases", "cursor", "state"}, todo : SUBSET Todo,
                    inv : Investigations, cursor : 0..MaxPhases,
                    upto : 0..MaxPhases, status : Jobs \ {"none"}]
        BY <2>1, SergesAnswer DEF TypeOK
    <2>3. poll' = [poll EXCEPT !.at = "state"]
        BY <1>5 DEF PostEnd, Goto
    <2>4. /\ poll' \in Poll /\ poll'.at = "state" /\ poll'.todo = poll.todo
          /\ poll'.inv = poll.inv /\ poll'.cursor = poll.cursor
          /\ poll'.upto = poll.upto /\ poll'.status = poll.status
        BY <2>2, <2>3 DEF Poll
    <2>5. /\ asked' \in [Investigations -> BOOLEAN]
          /\ \A i \in Investigations : (asked[i] => asked'[i]) /\ Truth(i)'
          /\ poll.status = "awaiting_approval" => asked'[poll.inv]
        BY <2>1, EndAsked
    <2>6. SeenTrue(poll)'
        BY <2>1, <2>4 DEF SeenTrue, Recorded
    <2>7. StateTrue(poll)'
        BY <2>1, <2>4, <2>5 DEF StateTrue, AtEnd
    <2>8. \A i \in Investigations :
              (Recorded(i) => Recorded(i)') /\ posted[i] \subseteq posted'[i]
        BY <2>1 DEF Recorded
    <2> QED
        BY <2>1, <2>4, <2>5, <2>6, <2>7, <2>8, PollingFrame DEF TypeOK
<1>6. ASSUME NEW i \in Investigations, NEW s \in States, SetState(i, s), NextRow,
             UNCHANGED <<posted, asked, sync>>,
             s = "awaiting_approval" => asked[i],
             s \in Ended => job[i] = s /\ 1..phases[i] \subseteq posted[i]
      PROVE  Followings'
    <2>1. /\ row' \in [Investigations -> Row]
          /\ \A k \in Investigations : k # i => row'[k] = row[k]
          /\ row'[i].state = s /\ row'[i].cursor = row[i].cursor
          /\ \A k \in Investigations : Recorded(k) => Recorded(k)'
        BY <1>6, StateWritten DEF TypeOK
    <2>2. Truth(i)'
        BY <1>6, <2>1 DEF Truth
    <2>3. \A k \in Investigations : Truth(k)'
        BY <1>6, <2>1, <2>2 DEF Truth
    <2>4. poll' = [at |-> "next", todo |-> poll.todo]
        BY <1>6 DEF NextRow
    <2>5. poll' \in Poll /\ poll'.at = "next" /\ poll'.todo = poll.todo
        BY <1>2, <2>4, SettledPoll
    <2>6. SeenTrue(poll)' /\ StateTrue(poll)'
        BY <2>5 DEF SeenTrue, StateTrue
    <2>7. \A k \in Investigations : posted[k] \subseteq posted'[k] /\ (asked[k] => asked'[k])
        BY <1>6
    <2> QED
        BY <1>6, <2>1, <2>3, <2>5, <2>6, <2>7, PollingFrame DEF TypeOK
<1>7. CASE WriteState
    <2>1. poll.at = "state" /\ NextRow /\ UNCHANGED <<posted, asked, sync>>
        BY <1>7 DEF WriteState, PollAt
    <2>2. poll.inv \in Investigations /\ poll.status \in Jobs \ {"none"}
        BY <2>1, SergesAnswer DEF TypeOK
    <2>3. PICK i \in Investigations, s \in Jobs \ {"none"} : i = poll.inv /\ s = poll.status
        BY <2>2
    <2>4. s \in States /\ SetState(i, s)
        BY <1>7, <2>3 DEF WriteState, EndState, Jobs, States
    <2>5. /\ s # "running" /\ poll.cursor = phases[i] /\ Since(s, job[i])
          /\ 1..poll.cursor \subseteq posted[i]
          /\ s = "awaiting_approval" => asked[i]
        BY <2>1, <2>3 DEF SeenTrue, StateTrue
    <2>6. s \in Ended => job[i] = s /\ 1..phases[i] \subseteq posted[i]
        BY <2>5 DEF Since, Ended, Decided
    <2> QED
        BY <1>6, <2>1, <2>4, <2>5, <2>6
<1>8. CASE WriteGone
    <2>1. poll.at = "error" /\ NextRow /\ UNCHANGED <<posted, asked, sync>>
        BY <1>8 DEF WriteGone, PollAt
    <2>2. PICK i \in Investigations : i = poll.inv
        BY <2>1 DEF TypeOK, Poll
    <2>3. SetState(i, "error") /\ "error" \in States
        BY <1>8, <2>2 DEF WriteGone, States
    <2>4. "error" # "awaiting_approval" /\ "error" \notin Ended
        BY DEF Ended, Decided
    <2> QED
        BY <1>6, <2>1, <2>3, <2>4
<1>9. CASE MessageFails
    <2>1. /\ poll' = [at |-> "next", todo |-> poll.todo] /\ UNCHANGED <<row, sync>>
          /\ \/ UNCHANGED <<posted, asked>>
             \/ poll.at = "phases" /\ MorePhases /\ Posted /\ UNCHANGED asked
             \/ poll.at = "phases" /\ AtEnd /\ Asked /\ UNCHANGED posted
        BY <1>9 DEF MessageFails, NextRow
    <2>2. poll' \in Poll /\ poll'.at = "next" /\ poll'.todo = poll.todo
        BY <1>2, <2>1, SettledPoll
    <2>3. SeenTrue(poll)' /\ StateTrue(poll)'
        BY <2>2 DEF SeenTrue, StateTrue
    <2>4. \A k \in Investigations : Recorded(k) => Recorded(k)'
        BY <2>1 DEF Recorded
    <2>5. /\ posted' \in [Investigations -> SUBSET (1..MaxPhases)]
          /\ asked' \in [Investigations -> BOOLEAN]
          /\ \A k \in Investigations :
                posted[k] \subseteq posted'[k] /\ Truth(k)' /\ (asked[k] => asked'[k])
        <3>1. CASE UNCHANGED <<posted, asked>>
            BY <2>1, <3>1 DEF TypeOK, Truth
        <3>2. CASE poll.at = "phases" /\ MorePhases /\ Posted /\ UNCHANGED asked
            BY <2>1, <3>2, PhasePosted DEF TypeOK
        <3>3. CASE poll.at = "phases" /\ AtEnd /\ Asked /\ UNCHANGED posted
            BY <2>1, <3>3, EndAsked DEF TypeOK
        <3> QED
            BY <2>1, <3>1, <3>2, <3>3
    <2> QED
        BY <2>1, <2>2, <2>3, <2>4, <2>5, PollingFrame DEF TypeOK
<1>10. QED
    BY <1>3, <1>4, <1>5, <1>7, <1>8, <1>9

LEMMA PollingFollows == Followings /\ Polling => Followings'
<1> SUFFICES ASSUME Followings, Polling PROVE Followings'
    OBVIOUS
<1>1. UNCHANGED <<session, job, phases, age, handler, restarts>>
    BY DEF Polling, sergeVars
<1>2. QED
    BY <1>1, QuietPollFollows, ActivePollFollows DEF Polling, PollStep

-----------------------------------------------------------------------------
(* Serge, time, restarts                                                     *)

LEMMA SergeFollows == Followings /\ Serge => Followings'
<1> SUFFICES ASSUME Followings, Serge PROVE Followings'
    OBVIOUS
<1> USE DEF Followings
<1>1. UNCHANGED <<row, session, posted, asked, age, handler, poll, sync, restarts>>
    BY DEF Serge, slackVars
<1>2. PICK i \in Investigations : SergePhase(i) \/ SergeEnds(i)
    BY DEF Serge
<1>3. /\ job[i] = "running"
      /\ \A k \in Investigations : k # i => job'[k] = job[k] /\ phases'[k] = phases[k]
      /\ job' \in [Investigations -> Jobs] /\ phases' \in [Investigations -> 0..MaxPhases]
    <2>1. CASE SergePhase(i)
        BY <2>1, BoundsAssumption DEF SergePhase, TypeOK
    <2>2. CASE SergeEnds(i)
        BY <2>2 DEF SergeEnds, TypeOK, Jobs, Ended
    <2> QED
        BY <1>2, <2>1, <2>2
<1>4. TypeOK'
    BY <1>1, <1>3 DEF TypeOK
<1>5. \A k \in Investigations : GoesOn(k)
    BY <1>3 DEF GoesOn
<1>6. \A k \in Investigations : Recorded(k) <=> Recorded(k)'
    BY <1>1 DEF Recorded
<1>7. \A k \in Investigations : Truth(k)' /\ Unasked(k)'
    BY <1>1, <1>3, <1>5, <1>6, TruthGoesOn DEF Unasked
<1>8. SeenTrue(poll)' /\ StateTrue(poll)' /\ \A x \in poll'.todo : TodoTrue(x)'
    BY <1>1, <1>5, <1>6, SeenGoesOn
<1>9. ASSUME NEW h \in Handlers PROVE CallTrue(h)' /\ DecideTrue(h)'
    <2>1. CallTrue(h)'
        <3>1. handler[h].at = "call" => /\ handler[h].inv \in Investigations
                                        /\ handler[h].inv # i
            BY <1>3 DEF CallTrue, TypeOK, Task, NoTask
        <3> QED
            BY <1>1, <1>3, <1>6, <3>1 DEF CallTrue
    <2>2. DecideTrue(h)'
        <3>1. handler[h].at = "write" => /\ handler[h].inv \in Investigations
                                         /\ handler[h].inv # i
            BY <1>3 DEF DecideTrue, TypeOK, Task, NoTask, Decided
        <3> QED
            BY <1>1, <1>3, <3>1 DEF DecideTrue
    <2> QED
        BY <2>1, <2>2
<1>10. \A h, g \in Handlers : SameCall(h, g)' => h = g
    BY <1>1 DEF SameCall
<1>11. QED
    BY <1>4, <1>7, <1>8, <1>9, <1>10

LEMMA StillFollows ==
    ASSUME Followings, TypeOK', UNCHANGED <<row, posted, asked, job, phases, handler, poll>>
    PROVE  Followings'
BY DEF Followings, Truth, Unasked, Recorded, CallTrue, DecideTrue, SameCall, TodoTrue,
   SeenTrue, StateTrue

LEMMA TimeFollows == Followings /\ Time => Followings'
<1> SUFFICES ASSUME Followings, Time PROVE Followings'
    OBVIOUS
<1>1. UNCHANGED <<row, session, posted, asked, job, phases, handler, poll, sync, restarts>>
    BY DEF Time, slackVars, sergeVars
<1>2. age' \in [Investigations -> {"new", "old", "day"}]
    BY DEF Time, Age, Followings, TypeOK
<1>3. TypeOK'
    BY <1>1, <1>2 DEF Followings, TypeOK
<1>4. QED
    BY <1>1, <1>3, StillFollows

LEMMA RestartFollows == Followings /\ Restart => Followings'
<1> SUFFICES ASSUME Followings, Restart PROVE Followings'
    OBVIOUS
<1> USE DEF Followings
<1>1. UNCHANGED <<row, session, posted, asked, job, phases, age>>
    BY DEF Restart, slackVars, sergeVars
<1>2. /\ handler' \in [Handlers -> Task] /\ sync' \in [Threads -> Sync]
      /\ restarts' \in 0..MaxRestarts
    BY BoundsAssumption, TasksTyped DEF Restart, TypeOK, Sync
<1>3. poll' \in Poll /\ poll'.at = "rest" /\ poll'.todo = {}
    BY DEF Restart, NotPolling, Poll
<1>4. TypeOK'
    BY <1>1, <1>2, <1>3 DEF TypeOK
<1>5. \A h \in Handlers : handler'[h].at = "idle"
    BY TasksTyped DEF Restart
<1>6. /\ \A h \in Handlers : CallTrue(h)' /\ DecideTrue(h)'
      /\ \A h, g \in Handlers : SameCall(h, g)' => h = g
    BY <1>5 DEF CallTrue, DecideTrue, SameCall
<1>7. \A i \in Investigations : Truth(i)' /\ Unasked(i)'
    BY <1>1 DEF Truth, Unasked, Recorded
<1>8. SeenTrue(poll)' /\ StateTrue(poll)' /\ \A x \in poll'.todo : TodoTrue(x)'
    BY <1>3 DEF SeenTrue, StateTrue
<1>9. QED
    BY <1>4, <1>6, <1>7, <1>8

LEMMA FollowingsNext == Followings /\ [Next]_vars => Followings'
<1> SUFFICES ASSUME Followings, [Next]_vars PROVE Followings'
    OBVIOUS
<1>1. CASE UNCHANGED vars
    <2>1. UNCHANGED <<row, session, posted, asked, job, phases, age, handler, poll,
                      sync, restarts>>
        BY <1>1 DEF vars, slackVars, sergeVars
    <2>2. TypeOK'
        BY <2>1 DEF Followings, TypeOK
    <2> QED
        BY <2>1, <2>2, StillFollows
<1>2. CASE Next
    BY <1>2, SyncFollows, HandlingFollows, PollingFollows, SergeFollows, TimeFollows,
       RestartFollows DEF Next
<1>3. QED
    BY <1>1, <1>2

-----------------------------------------------------------------------------
(* Theorems                                                                  *)

\* The inductive invariant holds in every state the program can reach.
THEOREM FollowingsCorrect == Spec => []Followings
BY FollowingsInit, FollowingsNext, PTL DEF Spec

\* Every variable holds a value of its kind (the table, the threads' progress).
THEOREM TypeCorrect == Spec => []TypeOK
<1>1. Followings => TypeOK
    BY DEF Followings
<1>2. QED
    BY <1>1, FollowingsCorrect, PTL

\* The table and the thread follow Serge without a gap and not ahead, for any
\* number of investigations, handlers and phases, whatever message is lost and
\* however often the process restarts (_poll_one, begin, decide).
THEOREM PhasesFollowSergeCorrect == Spec => []PhasesFollowSerge
<1>1. Followings => PhasesFollowSerge
    <2> SUFFICES ASSUME Followings, NEW i \in Investigations
                 PROVE  /\ 1..row[i].cursor \subseteq posted[i]
                        /\ asked[i] \/ row[i].state \in Ended => 1..phases[i] \subseteq posted[i]
                        /\ row[i].state = "awaiting_approval" =>
                              asked[i] /\ job[i] \in {"awaiting_approval"} \union Decided
                        /\ row[i].state \in Ended => job[i] = row[i].state
        BY DEF PhasesFollowSerge, NoPhaseLost, NeverAheadOfSerge
    <2>1. Truth(i)
        BY DEF Followings
    <2> QED
        BY <2>1 DEF Truth
<1>2. QED
    BY <1>1, FollowingsCorrect, PTL

=============================================================================
