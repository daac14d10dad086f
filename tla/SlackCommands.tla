--------------------------- MODULE SlackCommands ----------------------------
(***************************************************************************)
(* Commands sent from Slack (slack_bot.py handle, slack_commands.py): a    *)
(* request takes one of a few slots, records its command once in a         *)
(* database, works in a pool or in the handler's thread, saves the result, *)
(* tells the user and gives the slot back. Slack sends a delivery again    *)
(* until it has an answer, so several requests carry the same command.     *)
(* The process may be killed, and the database may fail, at any step.      *)
(***************************************************************************)
EXTENDS Naturals, FiniteSets

CONSTANTS
    Requests,       \* [command, text, via]: several requests may carry one command
    SentAt,         \* command -> the hour its owner sends it
    Slots, Hourly,  \* commands at work at once; commands of an owner in an hour
    Retry, Keep,    \* hours Slack goes on sending it; hours a command is remembered
    MaxTime, MaxFaults

VARIABLES
    now,
    linked,         \* the owner's Slack account is linked to GitHub
    stored,         \* the table: command -> its result, and the hour it was recorded
    free,           \* the semaphore
    at,             \* request -> away, slotted, recorded, verified, worked, saved
    static,         \* request -> its answer is fixed, nothing is executed
    executed,       \* command -> times its work was started
    faults

commandVars == <<now, linked, stored, free, at, static, executed, faults>>

Commands == {q.command : q \in Requests}
NoRow == [result |-> "none", since |-> 0]
Rows == {c \in Commands : stored[c] # NoRow}
Holding == {q \in Requests : at[q] # "away"}

-----------------------------------------------------------------------------
(* What the text of a request asks for: Work needs a linked account. A slash command *)
(* is answered in its own response, anything else with a message.                  *)

Asks(q) ==
    IF q.text \in {"connect", "disconnect", "help"} THEN q.text
    ELSE IF ~linked THEN "connect" ELSE q.text

\* A slash command whose answer is known takes no slot and is not recorded.
AnsweredAtOnce(q) == linked /\ q.via = "slash" /\ Asks(q) = "help"

\* "Fix it!" on the dashboard queues a command for the one Slack account its viewer is
\* linked with; without one it is refused.
Deliverable(q) == q.via = "dashboard" => linked

StillSent(c) == SentAt[c] <= now /\ now <= SentAt[c] + Retry

\* Slack delivers, or delivers again. A busy bot answers so and takes no part.
Arrive(q) ==
    /\ at[q] = "away" /\ StillSent(q.command) /\ free > 0
    /\ ~AnsweredAtOnce(q) /\ Deliverable(q)
    /\ free' = free - 1
    /\ at' = [at EXCEPT ![q] = "slotted"]
    /\ static' = [static EXCEPT ![q] = Asks(q) = "help"]
    /\ UNCHANGED <<now, linked, stored, executed, faults>>

-----------------------------------------------------------------------------
(* The transaction that records a command *)

Fresh == [c \in Commands |-> IF now > stored[c].since + Keep THEN NoRow ELSE stored[c]]
\* Mutant of Known: a command whose work has not ended is not found.
KnownWhenDone(c) == Fresh[c].result = "done"
Known(c) == Fresh[c] # NoRow

InLastHour == {c \in Commands : Fresh[c] # NoRow /\ Fresh[c].since + 1 > now}
Limited == Cardinality(InLastHour) >= Hourly

\* Mutant of GiveBack: the path keeps its slot.
GiveBackForgotten == free' = free
GiveBack == free' = free + 1

\* A delivery already recorded is answered with the result so far.
Repeated(q) ==
    /\ at[q] = "slotted" /\ Known(q.command)
    /\ stored' = Fresh
    /\ at' = [at EXCEPT ![q] = "away"]
    /\ GiveBack
    /\ UNCHANGED <<now, linked, static, executed, faults>>

Refused(q) ==
    /\ at[q] = "slotted" /\ ~Known(q.command) /\ Limited /\ q.via = "slash"
    /\ stored' = Fresh
    /\ at' = [at EXCEPT ![q] = "away"]
    /\ GiveBack
    /\ UNCHANGED <<now, linked, static, executed, faults>>

Record(q) ==
    /\ at[q] = "slotted" /\ ~Known(q.command) /\ (q.via = "slash" => ~Limited)
    /\ stored' = [Fresh EXCEPT ![q.command] = [result |-> "accepted", since |-> now]]
    /\ at' = [at EXCEPT ![q] = "recorded"]
    /\ static' = [static EXCEPT ![q] = @ \/ Limited]
    /\ UNCHANGED <<now, linked, free, executed, faults>>

\* The database fails. When that is on the commit of a repeated delivery the slot was
\* given back already, and is given back again: the semaphore refuses past its bound.
RecordFails(q) ==
    /\ at[q] = "slotted" /\ faults < MaxFaults
    /\ faults' = faults + 1
    /\ at' = [at EXCEPT ![q] = "away"]
    /\ free' \in {free + 1} \cup (IF Known(q.command) /\ free + 2 <= Slots THEN {free + 2} ELSE {})
    /\ UNCHANGED <<now, linked, stored, static, executed>>

-----------------------------------------------------------------------------
(* The work *)

\* The account is looked up again before any work for it; without one there is none.
Verify(q) ==
    /\ at[q] = "recorded"
    /\ IF static[q] \/ (q.text = "work" /\ ~linked)
       THEN at' = [at EXCEPT ![q] = "worked"]
       ELSE at' = [at EXCEPT ![q] = "verified"]
    /\ UNCHANGED <<now, linked, stored, free, static, executed, faults>>

\* Whatever execute raises becomes the result.
Execute(q) ==
    /\ at[q] = "verified"
    /\ executed' = [executed EXCEPT ![q.command] = @ + 1]
    /\ linked' = IF q.text = "disconnect" THEN FALSE ELSE linked
    /\ at' = [at EXCEPT ![q] = "worked"]
    /\ UNCHANGED <<now, stored, free, static, faults>>

\* Saving the result may fail, and so may the message to the user: neither keeps the slot.
Save(q) ==
    /\ at[q] = "worked"
    /\ at' = [at EXCEPT ![q] = "saved"]
    /\ \/ /\ stored' = [stored EXCEPT ![q.command] =
                            IF stored[q.command] = NoRow THEN NoRow ELSE [@ EXCEPT !.result = "done"]]
          /\ UNCHANGED faults
       \/ /\ faults < MaxFaults /\ faults' = faults + 1
          /\ UNCHANGED stored
    /\ UNCHANGED <<now, linked, free, static, executed>>

NotifyAndRelease(q) ==
    /\ at[q] = "saved"
    /\ at' = [at EXCEPT ![q] = "away"]
    /\ GiveBack
    /\ UNCHANGED <<now, linked, stored, static, executed, faults>>

-----------------------------------------------------------------------------
(* Around it. A request reaches the database in less than an hour. *)

Tick ==
    /\ now < MaxTime /\ \A q \in Requests : at[q] # "slotted"
    /\ now' = now + 1
    /\ UNCHANGED <<linked, stored, free, at, static, executed, faults>>

\* The owner signs in and confirms (SlackAccounts).
Link ==
    /\ ~linked
    /\ linked' = TRUE
    /\ UNCHANGED <<now, stored, free, at, static, executed, faults>>

Killed ==
    /\ Holding # {} /\ faults < MaxFaults
    /\ faults' = faults + 1
    /\ free' = Slots
    /\ at' = [q \in Requests |-> "away"]
    /\ UNCHANGED <<now, linked, stored, static, executed>>

Init ==
    /\ now = 0 /\ linked \in BOOLEAN
    /\ stored = [c \in Commands |-> NoRow]
    /\ free = Slots
    /\ at = [q \in Requests |-> "away"]
    /\ static = [q \in Requests |-> FALSE]
    /\ executed = [c \in Commands |-> 0]
    /\ faults = 0

Next ==
    \/ \E q \in Requests :
           \/ Arrive(q) \/ Repeated(q) \/ Refused(q) \/ Record(q) \/ RecordFails(q)
           \/ Verify(q) \/ Execute(q) \/ Save(q) \/ NotifyAndRelease(q)
    \/ Tick \/ Link \/ Killed

Spec == Init /\ [][Next]_commandVars

-----------------------------------------------------------------------------
(* Properties *)

\* slack_commands.py's first line, "durable retry deduplication": however often Slack
\* delivers a command, at the same time or after a restart, its work starts at most once,
\* and no more commands start in an hour than the owner may send.
ExecutedOnce ==
    /\ \A c \in Commands : executed[c] <= 1
    /\ Cardinality({c \in Commands : executed[c] > 0 /\ stored[c] # NoRow /\ stored[c].since = now}) <= Hourly

\* A slot is never lost: whatever path a command takes, and whatever fails on it, the
\* slots that are not free are held by requests that will give them back.
NoSlotLost == free + Cardinality(Holding) >= Slots

-----------------------------------------------------------------------------
(* The inductive invariant.  A command is remembered longer than Slack sends *)
(* it again.                                                                 *)

Limits ==
    /\ IsFiniteSet(Requests)
    /\ SentAt \in [Commands -> Nat]
    /\ Slots \in Nat /\ Hourly \in Nat
    /\ Retry \in Nat /\ Keep \in Nat /\ Retry <= Keep

Stages == {"away", "slotted", "recorded", "verified", "worked", "saved"}

\* Every variable holds a value of its kind.
TypeOK ==
    /\ now \in Nat /\ linked \in BOOLEAN
    /\ stored \in [Commands -> [result : {"none", "accepted", "done"}, since : Nat]]
    /\ free \in Nat
    /\ at \in [Requests -> Stages]
    /\ static \in [Requests -> BOOLEAN]
    /\ executed \in [Commands -> Nat]
    /\ faults \in Nat

\* The request may still start its command's work.
MayStart(q) == at[q] \in {"recorded", "verified"}

\* Slack does not send the command any more.
Over(c) == now > SentAt[c] + Retry

\* A request reaches the transaction while Slack still sends its command; one
\* that may start the work is the one that recorded it, and it has not started.
RequestTrue(q) ==
    /\ at[q] = "slotted" => StillSent(q.command)
    /\ MayStart(q) =>
          /\ stored[q.command] # NoRow \/ Over(q.command)
          /\ executed[q.command] = 0
    /\ at[q] = "verified" => ~static[q]
Rival(q, r) == MayStart(q) /\ MayStart(r) /\ q.command = r.command

\* What was started is on file for as long as Slack sends it; a row on file has
\* a result, and is no older than its command.
CommandTrue(c) ==
    /\ stored[c] # NoRow =>
          /\ stored[c].result # "none"
          /\ SentAt[c] <= stored[c].since /\ stored[c].since <= now
    /\ executed[c] > 0 => executed[c] = 1 /\ (stored[c] # NoRow \/ Over(c))

\* The commands of this hour whose work has started or may still start.
Counted(c) ==
    /\ stored[c] # NoRow /\ stored[c].since = now
    /\ executed[c] > 0 \/ \E q \in Requests : q.command = c /\ MayStart(q) /\ ~static[q]
ThisHour == {c \in Commands : Counted(c)}

Once ==
    /\ TypeOK
    /\ \A q \in Requests : RequestTrue(q)
    /\ \A q, r \in Requests : Rival(q, r) => q = r
    /\ \A c \in Commands : CommandTrue(c)
    /\ Cardinality(ThisHour) <= Hourly

\* The table keeps its rows and their hours, or forgets what Slack stopped
\* sending; the result of a row may be written.
RowGoesOn(c) ==
    \/ stored'[c] = NoRow /\ (stored[c] = NoRow \/ Over(c))
    \/ /\ stored[c] # NoRow /\ stored'[c] # NoRow
       /\ stored'[c].since = stored[c].since /\ stored'[c].result # "none"
=============================================================================
