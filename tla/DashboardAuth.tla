--------------------------- MODULE DashboardAuth ----------------------------
(***************************************************************************)
(* Sign-in to the dashboard (dashboard_auth.py): a browser is sent to      *)
(* GitHub with a one-time state, and its callback turns the state into a   *)
(* session; a command-line client asks for a device code, a signed-in user *)
(* decides on it, and the client's polling turns it into a session. Every  *)
(* statement on the database is taken under the store's lock; a callback   *)
(* asks GitHub between two of them.                                        *)
(***************************************************************************)
EXTENDS Naturals, FiniteSets

CONSTANTS
    Users, Browsers,
    States, Codes,              \* login states and device codes that may be drawn
    StateLife, CodeLife, SessionLife,
    MaxTime, MaxRevokes

VARIABLES
    now,
    oauth,          \* login state -> its row: the browser it was drawn for, until when
    cookie,         \* browser -> the state its cookie holds
    holds,          \* browser -> the session its cookie names
    callback,       \* login state -> idle, or asking GitHub
    devices,        \* device code -> its row
    issued,         \* every session there has been: who, how, from which grant, until when
    live,           \* the sessions that are in the table
    decided,        \* device code -> its first decision, and who took it
    revokes

authVars == <<now, oauth, cookie, holds, callback, devices, issued, live, decided, revokes>>

None == "none"
NoRow == [browser |-> None, expires |-> 0]
\* The row of a state is gone: states are random, and none is drawn twice.
Spent == [browser |-> None, expires |-> 1]
NoCode == [decision |-> None, user |-> None, expires |-> 0, lastPoll |-> 0, interval |-> 1]
NoDecision == [decision |-> None, user |-> None]
Valid == {s \in live : s.expires > now}
IdentityOf(b) == {s \in Valid : s = holds[b]}

-----------------------------------------------------------------------------
(* Browsers *)

StartLogin(b, n) ==
    /\ oauth[n] = NoRow
    /\ oauth' = [oauth EXCEPT ![n] = [browser |-> b, expires |-> now + StateLife]]
    /\ cookie' = [cookie EXCEPT ![b] = n]
    /\ UNCHANGED <<now, holds, callback, devices, issued, live, decided, revokes>>

\* Mutant of Redeemed: the row of a state is left in the table.
RedeemedKept(table, n) == table
\* A state is good for one callback.
Redeemed(table, n) == [table EXCEPT ![n] = Spent]

FinishLogin(b, n) ==
    /\ oauth[n].expires > now
    /\ oauth[n].browser = b /\ cookie[b] = n
    /\ oauth' = Redeemed(oauth, n)
    /\ callback' = [callback EXCEPT ![n] = b]
    /\ UNCHANGED <<now, cookie, holds, devices, issued, live, decided, revokes>>

\* GitHub names the user, who is a member: the browser's session is replaced by a new one.
SignIn(n, u) ==
    LET b == callback[n]
        session == [user |-> u, kind |-> "browser", from |-> n, expires |-> now + SessionLife] IN
    /\ b # "idle"
    /\ callback' = [callback EXCEPT ![n] = "idle"]
    /\ issued' = issued \cup {session}
    /\ live' = (live \ IdentityOf(b)) \cup {session}
    /\ holds' = [holds EXCEPT ![b] = session]
    /\ UNCHANGED <<now, oauth, cookie, devices, decided, revokes>>

\* GitHub cannot be asked, refuses the code, or the user is no member.
SignInFails(n) ==
    /\ callback[n] # "idle"
    /\ callback' = [callback EXCEPT ![n] = "idle"]
    /\ UNCHANGED <<now, oauth, cookie, holds, devices, issued, live, decided, revokes>>

\* A signed-in user revokes one of their sessions: this one (logout) or another.
Revoke(b, s) ==
    /\ revokes < MaxRevokes /\ s \in live
    /\ \E own \in IdentityOf(b) : own.user = s.user
    /\ live' = live \ {s}
    /\ revokes' = revokes + 1
    /\ UNCHANGED <<now, oauth, cookie, holds, callback, devices, issued, decided>>

-----------------------------------------------------------------------------
(* The command line *)

DeviceStart(c) ==
    /\ devices[c] = NoCode
    /\ devices' = [devices EXCEPT ![c] = [NoCode EXCEPT !.decision = "pending", !.expires = now + CodeLife]]
    /\ UNCHANGED <<now, oauth, cookie, holds, callback, issued, live, decided, revokes>>

\* Mutant of Undecided: a code that was decided on may be decided on again.
UndecidedOrNot(row) == row.decision # None
Undecided(row) == row.decision = "pending"

Decide(b, c, decision) ==
    /\ Undecided(devices[c]) /\ devices[c].expires > now
    /\ \E own \in IdentityOf(b) :
           /\ own.kind = "browser"
           /\ devices' = [devices EXCEPT ![c].decision = decision, ![c].user = own.user]
           /\ decided' = IF decided[c] # NoDecision THEN decided
                         ELSE [decided EXCEPT ![c] = [decision |-> decision, user |-> own.user]]
    /\ UNCHANGED <<now, oauth, cookie, holds, callback, issued, live, revokes>>

Pollable(c) == devices[c] # NoCode /\ devices[c].expires > now /\ devices[c].decision # "consumed"
TooSoon(c) == devices[c].lastPoll # 0 /\ now < devices[c].lastPoll + devices[c].interval

\* An interval that outlasts the code is as good as any longer one.
Longer(interval) == IF interval > CodeLife THEN interval ELSE interval + 1

SlowDown(c) ==
    /\ Pollable(c) /\ TooSoon(c)
    /\ devices' = [devices EXCEPT ![c].interval = Longer(@), ![c].lastPoll = now]
    /\ UNCHANGED <<now, oauth, cookie, holds, callback, issued, live, decided, revokes>>

\* Pending and denied codes are answered so; an approved one is consumed for a session.
Poll(c) ==
    LET row == devices[c]
        session == [user |-> row.user, kind |-> "cli", from |-> c, expires |-> now + SessionLife] IN
    /\ Pollable(c) /\ ~TooSoon(c)
    /\ IF row.decision = "approve"
       THEN /\ devices' = [devices EXCEPT ![c].lastPoll = now, ![c].decision = "consumed"]
            /\ issued' = issued \cup {session}
            /\ live' = live \cup {session}
       ELSE /\ devices' = [devices EXCEPT ![c].lastPoll = now]
            /\ UNCHANGED <<issued, live>>
    /\ UNCHANGED <<now, oauth, cookie, holds, callback, decided, revokes>>

\* The client gives its own session back.
CliRevoke(s) ==
    /\ s \in Valid /\ s.kind = "cli" /\ revokes < MaxRevokes
    /\ live' = live \ {s}
    /\ revokes' = revokes + 1
    /\ UNCHANGED <<now, oauth, cookie, holds, callback, devices, issued, decided>>

-----------------------------------------------------------------------------
Tick ==
    /\ now < MaxTime
    /\ now' = now + 1
    /\ UNCHANGED <<oauth, cookie, holds, callback, devices, issued, live, decided, revokes>>

\* Every limited request removes the sessions that expired long ago. Login states and device
\* codes that expired are refused whether their rows are there or not.
Cleanup ==
    /\ live # Valid
    /\ live' = Valid
    /\ UNCHANGED <<now, oauth, cookie, holds, callback, devices, issued, decided, revokes>>

Init ==
    /\ now = 1
    /\ oauth = [n \in States |-> NoRow]
    /\ cookie = [b \in Browsers |-> None]
    /\ holds = [b \in Browsers |-> [user |-> None, kind |-> None, from |-> None, expires |-> 0]]
    /\ callback = [n \in States |-> "idle"]
    /\ devices = [c \in Codes |-> NoCode]
    /\ issued = {} /\ live = {}
    /\ decided = [c \in Codes |-> NoDecision]
    /\ revokes = 0

Next ==
    \/ \E b \in Browsers, n \in States : StartLogin(b, n) \/ FinishLogin(b, n)
    \/ \E n \in States : SignInFails(n) \/ \E u \in Users : SignIn(n, u)
    \/ \E b \in Browsers : \E s \in live : Revoke(b, s)
    \/ \E c \in Codes :
           \/ DeviceStart(c) \/ SlowDown(c) \/ Poll(c)
           \/ \E b \in Browsers, d \in {"approve", "deny"} : Decide(b, c, d)
    \/ \E s \in live : CliRevoke(s)
    \/ Tick \/ Cleanup

Spec == Init /\ [][Next]_authVars

-----------------------------------------------------------------------------
(* Properties *)

\* However callbacks, decisions and polls fall, a login state or a device code becomes at
\* most one session; a command-line session belongs to the user whose decision on its code
\* was the first, and that decision approved it.
SessionsEarned ==
    /\ \A s, t \in issued : s.from = t.from => s = t
    /\ \A s \in issued : s.kind = "cli" => decided[s.from] = [decision |-> "approve", user |-> s.user]
    /\ \A n \in States : callback[n] # "idle" => \A s \in issued : s.from # n

-----------------------------------------------------------------------------
(* The inductive invariant.  States and codes are drawn from different       *)
(* generators and are never each other.                                      *)

Lives ==
    /\ StateLife \in Nat /\ CodeLife \in Nat /\ SessionLife \in Nat
    /\ States \intersect Codes = {}

Decisions == {None, "pending", "approve", "deny", "consumed"}
Session == [user : Users \cup {None}, kind : {None, "browser", "cli"},
            from : States \cup Codes \cup {None}, expires : Nat]

\* Every variable holds a value of its kind, and the table holds issued sessions.
TypeOK ==
    /\ now \in Nat \ {0}
    /\ oauth \in [States -> [browser : Browsers \cup {None}, expires : Nat]]
    /\ cookie \in [Browsers -> States \cup {None}]
    /\ holds \in [Browsers -> Session]
    /\ callback \in [States -> Browsers \cup {"idle"}]
    /\ devices \in [Codes -> [decision : Decisions, user : Users \cup {None}, expires : Nat,
                              lastPoll : Nat, interval : Nat]]
    /\ issued \subseteq Session
    /\ live \subseteq issued
    /\ decided \in [Codes -> [decision : {None, "approve", "deny"}, user : Users \cup {None}]]
    /\ revokes \in Nat

\* A state at GitHub, or turned into a session, is spent: it starts no other.
StateSpent(n) ==
    callback[n] # "idle" => oauth[n] = Spent /\ \A s \in issued : s.from # n

\* A session names what it came from: a spent state, or a code that is consumed
\* and that its user was the first to decide on, by approving it.
SessionEarned(s) ==
    \/ s.kind = "browser" /\ s.from \in States /\ oauth[s.from] = Spent
    \/ /\ s.kind = "cli" /\ s.from \in Codes
       /\ devices[s.from].decision = "consumed"
       /\ decided[s.from] = [decision |-> "approve", user |-> s.user]

\* What a code's row says is its first decision.
FirstDecision(c) ==
    /\ devices[c].decision \in {None, "pending"} => decided[c] = NoDecision
    /\ devices[c].decision = "approve" =>
          decided[c] = [decision |-> "approve", user |-> devices[c].user]

Earned ==
    /\ TypeOK
    /\ \A n \in States : StateSpent(n)
    /\ \A c \in Codes : FirstDecision(c)
    /\ \A s \in issued : SessionEarned(s)
    /\ \A s, t \in issued : s.from = t.from => s = t
=============================================================================
