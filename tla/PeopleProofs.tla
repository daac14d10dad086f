---------------------------- MODULE PeopleProofs -----------------------------
(* Proofs of the properties of MCPeople, for any values of its constants that *)
(* its assumptions allow.                                                     *)
EXTENDS MCPeople, FiniteSetTheorems, WellFoundedInduction, TLAPS

-----------------------------------------------------------------------------
(* Proofs, for any users, browsers, states, codes and lives                  *)

LEMMA AuthTypeInit == Auth!Init => Auth!TypeOK
BY DEF Auth!Init, Auth!TypeOK, Auth!NoRow, Auth!NoCode, Auth!NoDecision, Auth!Decisions, Auth!Session, Auth!None

LEMMA AuthBrowserTyped ==
    ASSUME Auth!Lives, Auth!TypeOK, NEW b \in Browsers, NEW n \in LoginStates,
           Auth!StartLogin(b, n) \/ Auth!FinishLogin(b, n)
    PROVE  Auth!TypeOK'
<1>1. Auth!Spent \in [browser : Browsers \cup {Auth!None}, expires : Nat]
    BY DEF Auth!Spent
<1>2. oauth' \in [LoginStates -> [browser : Browsers \cup {Auth!None}, expires : Nat]]
    <2>1. authNow + StateLife \in Nat
        BY DEF Auth!TypeOK, Auth!Lives
    <2>2. [browser |-> b, expires |-> authNow + StateLife]
              \in [browser : Browsers \cup {Auth!None}, expires : Nat]
        BY <2>1
    <2>3. CASE Auth!StartLogin(b, n)
        BY <2>2, <2>3 DEF Auth!StartLogin, Auth!TypeOK
    <2>4. CASE Auth!FinishLogin(b, n)
        BY <1>1, <2>4 DEF Auth!FinishLogin, Auth!Redeemed, Auth!TypeOK
    <2> QED
        BY <2>3, <2>4
<1>3. cookie' \in [Browsers -> LoginStates \cup {Auth!None}]
    BY DEF Auth!StartLogin, Auth!FinishLogin, Auth!TypeOK
<1>4. callback' \in [LoginStates -> Browsers \cup {"idle"}]
    BY DEF Auth!StartLogin, Auth!FinishLogin, Auth!TypeOK
<1>5. UNCHANGED <<authNow, holds, devices, issued, live, decided, revokes>>
    BY DEF Auth!StartLogin, Auth!FinishLogin
<1>6. QED
    BY <1>2, <1>3, <1>4, <1>5 DEF Auth!TypeOK

LEMMA AuthSignInTyped ==
    ASSUME Auth!Lives, Auth!TypeOK, NEW n \in LoginStates, NEW u \in Visitors, Auth!SignIn(n, u)
    PROVE  Auth!TypeOK'
<1> DEFINE session == [user |-> u, kind |-> "browser", from |-> n, expires |-> authNow + SessionLife]
<1>1. session \in Auth!Session
    BY DEF Auth!Session, Auth!TypeOK, Auth!Lives
<1>2. issued' = issued \cup {session} /\ live' \subseteq live \cup {session}
    BY DEF Auth!SignIn
<1>3. holds' \in [Browsers -> Auth!Session]
    BY <1>1 DEF Auth!SignIn, Auth!TypeOK
<1>4. callback' \in [LoginStates -> Browsers \cup {"idle"}]
    BY DEF Auth!SignIn, Auth!TypeOK
<1>5. UNCHANGED <<authNow, oauth, cookie, devices, decided, revokes>>
    BY DEF Auth!SignIn
<1>6. QED
    BY <1>1, <1>2, <1>3, <1>4, <1>5 DEF Auth!TypeOK

LEMMA AuthDeviceTyped ==
    ASSUME Auth!Lives, Auth!TypeOK, NEW c \in Codes,
           \/ Auth!DeviceStart(c) \/ Auth!SlowDown(c) \/ Auth!Poll(c)
           \/ \E b \in Browsers, d \in {"approve", "deny"} : Auth!Decide(b, c, d)
    PROVE  Auth!TypeOK'
<1> DEFINE Device == [decision : Auth!Decisions, user : Visitors \cup {Auth!None}, expires : Nat,
                      lastPoll : Nat, interval : Nat]
<1>1. devices[c] \in Device /\ authNow \in Nat /\ live \subseteq issued /\ issued \subseteq Auth!Session
    BY DEF Auth!TypeOK
<1>2. CASE Auth!DeviceStart(c)
    <2>1. Auth!NoCode \in Device
        BY DEF Auth!NoCode, Auth!Decisions
    <2>2. authNow + CodeLife \in Nat
        BY <1>1 DEF Auth!Lives
    <2>3. [Auth!NoCode EXCEPT !.decision = "pending", !.expires = authNow + CodeLife] \in Device
        BY <2>1, <2>2 DEF Auth!Decisions
    <2> QED
        BY <1>2, <2>3 DEF Auth!DeviceStart, Auth!TypeOK
<1>3. CASE Auth!SlowDown(c)
    <2>1. Auth!Longer(devices[c].interval) \in Nat
        BY <1>1 DEF Auth!Longer
    <2>2. [devices[c] EXCEPT !.interval = Auth!Longer(@), !.lastPoll = authNow] \in Device
        BY <1>1, <2>1
    <2> QED
        BY <1>3, <2>2 DEF Auth!SlowDown, Auth!TypeOK
<1>4. CASE Auth!Poll(c)
    <2> DEFINE polled == [devices[c] EXCEPT !.lastPoll = authNow]
               consumed == [devices[c] EXCEPT !.lastPoll = authNow, !.decision = "consumed"]
    <2>1. polled \in Device /\ consumed \in Device
        BY <1>1 DEF Auth!Decisions
    <2>2. devices' \in [Codes -> Device]
        <3>1. devices' = [devices EXCEPT ![c] = polled] \/ devices' = [devices EXCEPT ![c] = consumed]
            BY <1>4 DEF Auth!Poll
        <3>2. devices \in [Codes -> Device]
            BY DEF Auth!TypeOK
        <3> HIDE DEF Device, polled, consumed
        <3> QED
            BY <2>1, <3>1, <3>2
    <2>3. [user |-> devices[c].user, kind |-> "cli", from |-> c, expires |-> authNow + SessionLife]
              \in Auth!Session
        BY <1>1 DEF Auth!Session, Auth!Lives
    <2>4. issued' \subseteq Auth!Session /\ live' \subseteq issued'
        BY <1>1, <1>4, <2>3 DEF Auth!Poll
    <2> QED
        BY <1>4, <2>2, <2>4 DEF Auth!Poll, Auth!TypeOK
<1>5. CASE \E b \in Browsers, d \in {"approve", "deny"} : Auth!Decide(b, c, d)
    <2>1. PICK b \in Browsers, d \in {"approve", "deny"} : Auth!Decide(b, c, d)
        BY <1>5
    <2>2. PICK own \in Auth!IdentityOf(b) :
              /\ devices' = [devices EXCEPT ![c].decision = d, ![c].user = own.user]
              /\ decided' = IF decided[c] # Auth!NoDecision THEN decided
                            ELSE [decided EXCEPT ![c] = [decision |-> d, user |-> own.user]]
        BY <2>1 DEF Auth!Decide
    <2>3. own \in Auth!Session
        BY <1>1 DEF Auth!IdentityOf, Auth!Valid
    <2>4. own.user \in Visitors \cup {Auth!None}
        BY <2>3 DEF Auth!Session
    <2>5. [devices[c] EXCEPT !.decision = d, !.user = own.user] \in Device
        BY <1>1, <2>4 DEF Auth!Decisions
    <2>6. devices' \in [Codes -> Device]
        BY <2>2, <2>5 DEF Auth!TypeOK
    <2>7. decided' \in [Codes -> [decision : {Auth!None, "approve", "deny"}, user : Visitors \cup {Auth!None}]]
        BY <2>2, <2>4 DEF Auth!TypeOK
    <2> QED
        BY <2>1, <2>6, <2>7 DEF Auth!Decide, Auth!TypeOK
<1>6. QED
    BY <1>2, <1>3, <1>4, <1>5

LEMMA AuthTypeNext == ASSUME Auth!Lives, Auth!TypeOK, [Auth!Next]_(Auth!authVars) PROVE Auth!TypeOK'
<1>1. CASE UNCHANGED Auth!authVars
    BY <1>1 DEF Auth!authVars, Auth!TypeOK
<1>2. ASSUME NEW n \in LoginStates, Auth!SignInFails(n) PROVE Auth!TypeOK'
    BY <1>2 DEF Auth!SignInFails, Auth!TypeOK
<1>3. ASSUME NEW b \in Browsers, NEW s \in live, Auth!Revoke(b, s) \/ Auth!CliRevoke(s) PROVE Auth!TypeOK'
    BY <1>3 DEF Auth!Revoke, Auth!CliRevoke, Auth!TypeOK
<1>4. ASSUME NEW s \in live, Auth!CliRevoke(s) PROVE Auth!TypeOK'
    BY <1>4 DEF Auth!CliRevoke, Auth!TypeOK
<1>5. CASE Auth!Tick \/ Auth!Cleanup
    BY <1>5 DEF Auth!Tick, Auth!Cleanup, Auth!Valid, Auth!TypeOK
<1>6. QED
    BY <1>1, <1>2, <1>3, <1>4, <1>5, AuthBrowserTyped, AuthSignInTyped, AuthDeviceTyped DEF Auth!Next

\* Steps that leave states, codes and issued sessions alone.
LEMMA AuthEarnedFrame ==
    ASSUME Auth!Earned, Auth!TypeOK', UNCHANGED <<oauth, callback, devices, issued, decided>>
    PROVE  Auth!Earned'
BY DEF Auth!Earned, Auth!StateSpent, Auth!FirstDecision, Auth!SessionEarned

\* A state becomes a session once: its row is spent before GitHub is asked, and
\* a spent state is neither drawn nor redeemed again.
LEMMA AuthStateEarned ==
    ASSUME Auth!Lives, Auth!Earned, Auth!TypeOK', NEW b \in Browsers, NEW n \in LoginStates,
           Auth!StartLogin(b, n) \/ Auth!FinishLogin(b, n)
    PROVE  Auth!Earned'
<1>1. oauth[n] # Auth!Spent
    BY DEF Auth!StartLogin, Auth!FinishLogin, Auth!NoRow, Auth!Spent, Auth!Earned, Auth!TypeOK
<1>2. callback[n] = "idle" /\ \A s \in issued : s.from # n
    <2>1. n \notin Codes
        BY DEF Auth!Lives
    <2>2. callback[n] = "idle"
        BY <1>1 DEF Auth!Earned, Auth!StateSpent
    <2>3. ASSUME NEW s \in issued, s.from = n PROVE FALSE
        <3>1. Auth!SessionEarned(s)
            BY DEF Auth!Earned
        <3> QED
            BY <1>1, <2>1, <2>3, <3>1 DEF Auth!SessionEarned
    <2> QED
        BY <2>2, <2>3
<1>3. \A m \in LoginStates \ {n} : oauth'[m] = oauth[m] /\ callback'[m] = callback[m]
    BY DEF Auth!StartLogin, Auth!FinishLogin, Auth!Redeemed, Auth!Earned, Auth!TypeOK
<1>4. UNCHANGED <<devices, issued, decided>>
    BY DEF Auth!StartLogin, Auth!FinishLogin
<1>5. callback'[n] # "idle" => oauth'[n] = Auth!Spent
    BY <1>2 DEF Auth!StartLogin, Auth!FinishLogin, Auth!Redeemed, Auth!Earned, Auth!TypeOK
<1>6. QED
    BY <1>2, <1>3, <1>4, <1>5 DEF Auth!Earned, Auth!StateSpent, Auth!FirstDecision, Auth!SessionEarned

LEMMA AuthCallbackEarned ==
    ASSUME Auth!Lives, Auth!Earned, Auth!TypeOK', NEW n \in LoginStates,
           Auth!SignInFails(n) \/ \E u \in Visitors : Auth!SignIn(n, u)
    PROVE  Auth!Earned'
<1>1. oauth[n] = Auth!Spent /\ \A s \in issued : s.from # n
    BY DEF Auth!SignIn, Auth!SignInFails, Auth!Earned, Auth!StateSpent
<1>2. UNCHANGED <<oauth, devices, decided>> /\ callback' = [callback EXCEPT ![n] = "idle"]
    BY DEF Auth!SignIn, Auth!SignInFails
<1>3. callback'[n] = "idle" /\ \A m \in LoginStates \ {n} : callback'[m] = callback[m]
    BY <1>2 DEF Auth!Earned, Auth!TypeOK
<1>4. \A s, t \in issued' \ issued : s.kind = "browser" /\ s.from = n /\ s = t
    <2>1. CASE Auth!SignInFails(n)
        BY <2>1 DEF Auth!SignInFails
    <2>2. CASE \E u \in Visitors : Auth!SignIn(n, u)
        <3>1. PICK u \in Visitors :
                  issued' = issued \cup {[user |-> u, kind |-> "browser", from |-> n,
                                          expires |-> authNow + SessionLife]}
            BY <2>2 DEF Auth!SignIn
        <3> QED
            BY <3>1
    <2> QED
        BY <2>1, <2>2
<1>7. \A m \in LoginStates : Auth!StateSpent(m)'
    BY <1>2, <1>3, <1>4 DEF Auth!Earned, Auth!StateSpent
<1>8. \A s \in issued' : Auth!SessionEarned(s)'
    BY <1>1, <1>2, <1>4 DEF Auth!Earned, Auth!SessionEarned
<1>9. \A s, t \in issued' : s.from = t.from => s = t
    BY <1>1, <1>4 DEF Auth!Earned
<1>10. QED
    BY <1>2, <1>7, <1>8, <1>9 DEF Auth!Earned, Auth!FirstDecision

\* A code becomes a session once, for who was the first to decide on it.
LEMMA AuthCodeEarned ==
    ASSUME Auth!Lives, Auth!Earned, Auth!TypeOK', NEW c \in Codes,
           \/ Auth!DeviceStart(c) \/ Auth!SlowDown(c) \/ Auth!Poll(c)
           \/ \E b \in Browsers, d \in {"approve", "deny"} : Auth!Decide(b, c, d)
    PROVE  Auth!Earned'
<1>1. UNCHANGED <<oauth, callback>>
    BY DEF Auth!DeviceStart, Auth!SlowDown, Auth!Poll, Auth!Decide
<1>2. \A e \in Codes \ {c} : devices'[e] = devices[e] /\ decided'[e] = decided[e]
    BY DEF Auth!DeviceStart, Auth!SlowDown, Auth!Poll, Auth!Decide, Auth!Earned, Auth!TypeOK
<1>3. devices[c].decision # "consumed" /\ \A s \in issued : s.from # c
    <2>1. devices[c].decision # "consumed"
        BY DEF Auth!DeviceStart, Auth!SlowDown, Auth!Poll, Auth!Decide, Auth!Pollable, Auth!Undecided, Auth!NoCode, Auth!None
    <2>2. c \notin LoginStates
        BY DEF Auth!Lives
    <2>3. ASSUME NEW s \in issued, s.from = c PROVE FALSE
        <3>1. Auth!SessionEarned(s)
            BY DEF Auth!Earned
        <3> QED
            BY <2>1, <2>2, <2>3, <3>1 DEF Auth!SessionEarned
    <2> QED
        BY <2>1, <2>3
<1>4. \A s \in issued' \ issued :
          /\ s.kind = "cli" /\ s.from = c
          /\ devices[c].decision = "approve" /\ s.user = devices[c].user
          /\ devices'[c].decision = "consumed"
    BY DEF Auth!DeviceStart, Auth!SlowDown, Auth!Poll, Auth!Decide, Auth!Earned, Auth!TypeOK
<1>5. \A s, t \in issued' \ issued : s = t
    BY DEF Auth!DeviceStart, Auth!SlowDown, Auth!Poll, Auth!Decide
<1>6. issued' # issued => decided' = decided
    BY DEF Auth!DeviceStart, Auth!SlowDown, Auth!Poll, Auth!Decide
<1>7. Auth!FirstDecision(c)'
    <2>1. CASE Auth!DeviceStart(c)
        BY <2>1 DEF Auth!DeviceStart, Auth!Earned, Auth!TypeOK, Auth!FirstDecision, Auth!NoCode
    <2>2. CASE Auth!SlowDown(c)
        BY <2>2 DEF Auth!SlowDown, Auth!Earned, Auth!TypeOK, Auth!FirstDecision
    <2>3. CASE Auth!Poll(c)
        BY <2>3 DEF Auth!Poll, Auth!Earned, Auth!TypeOK, Auth!FirstDecision, Auth!None
    <2>4. CASE \E b \in Browsers, d \in {"approve", "deny"} : Auth!Decide(b, c, d)
        <3>1. PICK b \in Browsers, d \in {"approve", "deny"} : Auth!Decide(b, c, d)
            BY <2>4
        <3>2. decided[c] = Auth!NoDecision
            BY <3>1 DEF Auth!Decide, Auth!Undecided, Auth!Earned, Auth!FirstDecision
        <3>3. PICK own \in Auth!IdentityOf(b) :
                  /\ devices' = [devices EXCEPT ![c].decision = d, ![c].user = own.user]
                  /\ decided' = [decided EXCEPT ![c] = [decision |-> d, user |-> own.user]]
            BY <3>1, <3>2 DEF Auth!Decide
        <3>4. /\ devices'[c].decision = d /\ devices'[c].user = own.user
              /\ decided'[c] = [decision |-> d, user |-> own.user]
            BY <3>3 DEF Auth!Earned, Auth!TypeOK
        <3> QED
            BY <3>4 DEF Auth!FirstDecision, Auth!None
    <2> QED
        BY <2>1, <2>2, <2>3, <2>4
<1>8. \A n \in LoginStates : Auth!StateSpent(n)'
    <2>1. c \notin LoginStates
        BY DEF Auth!Lives
    <2> QED
        BY <1>1, <1>4, <2>1 DEF Auth!Earned, Auth!StateSpent
<1>9. \A s \in issued' : Auth!SessionEarned(s)'
    <2> SUFFICES ASSUME NEW s \in issued' PROVE Auth!SessionEarned(s)'
        OBVIOUS
    <2>1. CASE s \in issued
        BY <2>1, <1>1, <1>2, <1>3 DEF Auth!Earned, Auth!SessionEarned
    <2>2. CASE s \notin issued
        <3>1. decided' = decided /\ decided[c] = [decision |-> "approve", user |-> devices[c].user]
            BY <2>2, <1>4, <1>6 DEF Auth!Earned, Auth!FirstDecision
        <3>2. /\ s.kind = "cli" /\ s.from = c /\ s.user = devices[c].user
              /\ devices'[c].decision = "consumed"
            BY <2>2, <1>4
        <3> QED
            BY <3>1, <3>2 DEF Auth!SessionEarned
    <2> QED
        BY <2>1, <2>2
<1>10. \A s, t \in issued' : s.from = t.from => s = t
    BY <1>3, <1>4, <1>5 DEF Auth!Earned
<1>11. QED
    BY <1>2, <1>7, <1>8, <1>9, <1>10 DEF Auth!Earned, Auth!FirstDecision

LEMMA AuthEarnedNext == ASSUME Auth!Lives, Auth!Earned, [Auth!Next]_(Auth!authVars) PROVE Auth!Earned'
<1>1. Auth!TypeOK'
    BY AuthTypeNext DEF Auth!Earned
<1>2. CASE UNCHANGED Auth!authVars
    BY <1>1, <1>2, AuthEarnedFrame DEF Auth!authVars
<1>3. ASSUME NEW b \in Browsers, NEW s \in live, Auth!Revoke(b, s) PROVE Auth!Earned'
    BY <1>1, <1>3, AuthEarnedFrame DEF Auth!Revoke
<1>4. ASSUME NEW s \in live, Auth!CliRevoke(s) PROVE Auth!Earned'
    BY <1>1, <1>4, AuthEarnedFrame DEF Auth!CliRevoke
<1>5. CASE Auth!Tick \/ Auth!Cleanup
    BY <1>1, <1>5, AuthEarnedFrame DEF Auth!Tick, Auth!Cleanup
<1>6. QED
    BY <1>1, <1>2, <1>3, <1>4, <1>5, AuthStateEarned, AuthCallbackEarned, AuthCodeEarned DEF Auth!Next

\* The inductive invariant holds in every state the program can reach.
THEOREM AuthEarnedCorrect == ASSUME Auth!Lives PROVE Auth!Spec => []Auth!Earned
<1>1. Auth!Init => Auth!Earned
    BY AuthTypeInit DEF Auth!Init, Auth!Earned, Auth!StateSpent, Auth!FirstDecision, Auth!NoCode, Auth!NoDecision, Auth!None
<1>2. Auth!Earned /\ [Auth!Next]_(Auth!authVars) => Auth!Earned'
    BY AuthEarnedNext
<1>3. QED
    BY <1>1, <1>2, PTL DEF Auth!Spec

\* A login state or a device code becomes at most one session, and a
\* command-line session is its first decider's, however callbacks, decisions,
\* polls, revocations and expiries fall (finish_login, device_decide, device_poll).
THEOREM AuthSessionsEarnedCorrect == ASSUME Auth!Lives PROVE Auth!Spec => []Auth!SessionsEarned
<1>1. Auth!Earned => Auth!SessionsEarned
    BY DEF Auth!Earned, Auth!StateSpent, Auth!SessionEarned, Auth!SessionsEarned
<1>2. QED
    BY <1>1, AuthEarnedCorrect, PTL

-----------------------------------------------------------------------------
(* Proofs, for any owners, identities, logins and mapping                    *)

LEMMA AccountsTypeInit == ASSUME Accounts!Named PROVE Accounts!Init => Accounts!Links
<1> SUFFICES ASSUME Accounts!Init PROVE Accounts!Links
    OBVIOUS
<1>1. Accounts!NoAccount \in Accounts!Account /\ Accounts!NoGrant \in Accounts!Grant
    BY DEF Accounts!NoAccount, Accounts!Account, Accounts!NoGrant, Accounts!Grant
<1>2. Accounts!TypeOK
    BY <1>1 DEF Accounts!Init, Accounts!Named, Accounts!TypeOK
<1>3. QED
    BY <1>2 DEF Accounts!Init, Accounts!Links, Accounts!AccountWhole, Accounts!GrantAsked, Accounts!LinkedOnce, Accounts!Linked, Accounts!NoGrant

LEMMA AccountsConnectTyped ==
    ASSUME Accounts!Named, Accounts!TypeOK, NEW o \in Owners,
           Accounts!Prompt(o) \/ Accounts!DrawGrant(o) \/ Accounts!Disconnect(o) \/ \E g \in Accounts!Grants : Accounts!Confirm(o, g)
    PROVE  Accounts!TypeOK'
<1>1. Accounts!NoAccount \in Accounts!Account /\ Accounts!NoGrant \in Accounts!Grant
    BY DEF Accounts!NoAccount, Accounts!Account, Accounts!NoGrant, Accounts!Grant
<1>2. CASE Accounts!Prompt(o)
    BY <1>2 DEF Accounts!Prompt, Accounts!TypeOK
<1>3. CASE Accounts!DrawGrant(o)
    <2>1. drawn + 1 \in Accounts!Grants /\ drawn' \in 0 .. MaxGrants
        BY <1>3 DEF Accounts!DrawGrant, Accounts!TypeOK, Accounts!Grants, Accounts!Named
    <2>2. [Accounts!NoGrant EXCEPT !.owner = o] \in Accounts!Grant
        BY DEF Accounts!NoGrant, Accounts!Grant
    <2>3. grants' \in [Accounts!Grants -> Accounts!Grant]
        BY <1>3, <2>2 DEF Accounts!DrawGrant, Accounts!TypeOK
    <2>4. accountsAsked' \in [Owners -> SUBSET Accounts!Grants]
        BY <1>3, <2>1 DEF Accounts!DrawGrant, Accounts!TypeOK
    <2> QED
        BY <1>3, <2>1, <2>3, <2>4 DEF Accounts!DrawGrant, Accounts!TypeOK
<1>4. CASE Accounts!Disconnect(o)
    <2>1. grants' \in [Accounts!Grants -> Accounts!Grant]
        BY <1>1, <1>4 DEF Accounts!Disconnect, Accounts!Withdrawn, Accounts!TypeOK
    <2>2. accounts' \in [Owners -> Accounts!Account] /\ accountsAsked' \in [Owners -> SUBSET Accounts!Grants]
        BY <1>1, <1>4 DEF Accounts!Disconnect, Accounts!TypeOK
    <2> QED
        BY <1>4, <2>1, <2>2 DEF Accounts!Disconnect, Accounts!TypeOK
<1>5. ASSUME NEW g \in Accounts!Grants, Accounts!Confirm(o, g) PROVE Accounts!TypeOK'
    <2>1. [github |-> grants[g].github, login |-> grants[g].login] \in Accounts!Account
        BY DEF Accounts!TypeOK, Accounts!Grant, Accounts!Account
    <2>2. \A h \in Accounts!Grants : [grants[h] EXCEPT !.confirmed = TRUE] \in Accounts!Grant
        BY DEF Accounts!TypeOK, Accounts!Grant
    <2>3. grants' \in [Accounts!Grants -> Accounts!Grant]
        BY <1>5, <2>2 DEF Accounts!Confirm, Accounts!TypeOK
    <2>4. accounts' \in [Owners -> Accounts!Account]
        BY <1>5, <2>1 DEF Accounts!Confirm, Accounts!TypeOK
    <2> QED
        BY <1>5, <2>3, <2>4 DEF Accounts!Confirm, Accounts!TypeOK
<1>6. QED
    BY <1>2, <1>3, <1>4, <1>5

LEMMA AccountsWorkTyped ==
    ASSUME Accounts!Named, Accounts!Links, NEW o \in Owners, Accounts!Ask(o) \/ Accounts!Authorize(o) \/ Accounts!Refuse(o)
    PROVE  Accounts!TypeOK'
<1>1. Accounts!NoAccount \in Accounts!Account /\ Accounts!TypeOK
    BY DEF Accounts!NoAccount, Accounts!Account, Accounts!Links
<1>2. CASE Accounts!Ask(o)
    <2>1. accounts[o].github \in Identities
        BY <1>1, <1>2 DEF Accounts!Ask, Accounts!Links, Accounts!AccountWhole, Accounts!TypeOK, Accounts!Account
    <2>2. [github |-> accounts[o].github, login |-> loginOf[accounts[o].github]] \in Accounts!Account
        BY <1>1, <2>1 DEF Accounts!TypeOK, Accounts!Account
    <2>3. asking' \in [Owners -> Accounts!Account]
        BY <1>1, <1>2, <2>2 DEF Accounts!Ask, Accounts!TypeOK
    <2> QED
        BY <1>1, <1>2, <2>3 DEF Accounts!Ask, Accounts!TypeOK
<1>3. CASE Accounts!Authorize(o)
    <2>1. asking[o].github \in Identities \cup {Accounts!None} /\ asking[o].login \in Logins \cup {Accounts!None}
        BY <1>1 DEF Accounts!TypeOK, Accounts!Account
    <2>2. [accounts[o] EXCEPT !.login = asking[o].login] \in Accounts!Account
        BY <1>1, <2>1 DEF Accounts!TypeOK, Accounts!Account
    <2>3. accounts' \in [Owners -> Accounts!Account] /\ asking' \in [Owners -> Accounts!Account]
        BY <1>1, <1>3, <2>2 DEF Accounts!Authorize, Accounts!TypeOK
    <2> QED
        BY <1>1, <1>3, <2>1, <2>3 DEF Accounts!Authorize, Accounts!TypeOK
<1>4. CASE Accounts!Refuse(o)
    BY <1>1, <1>4 DEF Accounts!Refuse, Accounts!TypeOK
<1>5. QED
    BY <1>2, <1>3, <1>4

LEMMA AccountsGrantTyped ==
    ASSUME Accounts!Named, Accounts!TypeOK, NEW g \in Accounts!Grants,
           Accounts!Expire(g) \/ \E who \in Identities : Accounts!Propose(g, who)
    PROVE  Accounts!TypeOK'
<1>1. Accounts!NoGrant \in Accounts!Grant
    BY DEF Accounts!NoGrant, Accounts!Grant
<1>2. CASE Accounts!Expire(g)
    BY <1>1, <1>2 DEF Accounts!Expire, Accounts!TypeOK
<1>3. ASSUME NEW who \in Identities, Accounts!Propose(g, who) PROVE Accounts!TypeOK'
    <2>1. [grants[g] EXCEPT !.github = who, !.login = loginOf[who]] \in Accounts!Grant
        BY DEF Accounts!TypeOK, Accounts!Grant
    <2>2. grants' \in [Accounts!Grants -> Accounts!Grant]
        BY <1>3, <2>1 DEF Accounts!Propose, Accounts!TypeOK
    <2> QED
        BY <1>3, <2>2 DEF Accounts!Propose, Accounts!TypeOK
<1>4. QED
    BY <1>2, <1>3

LEMMA AccountsTypeNext == ASSUME Accounts!Named, Accounts!Links, [Accounts!Next]_(Accounts!accountVars) PROVE Accounts!TypeOK'
<1>1. Accounts!TypeOK
    BY DEF Accounts!Links
<1>2. CASE UNCHANGED Accounts!accountVars
    BY <1>1, <1>2 DEF Accounts!accountVars, Accounts!TypeOK
<1>3. ASSUME NEW who \in Identities, NEW login \in Logins, Accounts!Rename(who, login) PROVE Accounts!TypeOK'
    BY <1>1, <1>3 DEF Accounts!Rename, Accounts!TypeOK
<1>4. QED
    BY <1>1, <1>2, <1>3, AccountsConnectTyped, AccountsWorkTyped, AccountsGrantTyped DEF Accounts!Next

\* A row appears by the confirmation of a grant only, and goes by a disconnection.
LEMMA AccountsAccountsNext ==
    ASSUME Accounts!Named, Accounts!Links, [Accounts!Next]_(Accounts!accountVars), NEW o \in Owners
    PROVE  \/ Accounts!Linked(o) /\ accounts'[o].github = accounts[o].github
           \/ accounts'[o] = accounts[o]
           \/ accounts'[o] = Accounts!NoAccount
           \/ \E g \in Accounts!Grants :
                 /\ Accounts!Confirm(o, g) /\ accounts'[o].github = grants[g].github
                 /\ grants[g].owner = o /\ grants[g].github # Accounts!None
                 /\ Accounts!Free(grants[g].github, o)
<1> DEFINE Goal ==
        \/ Accounts!Linked(o) /\ accounts'[o].github = accounts[o].github
        \/ accounts'[o] = accounts[o]
        \/ accounts'[o] = Accounts!NoAccount
        \/ \E g \in Accounts!Grants :
              /\ Accounts!Confirm(o, g) /\ accounts'[o].github = grants[g].github
              /\ grants[g].owner = o /\ grants[g].github # Accounts!None
              /\ Accounts!Free(grants[g].github, o)
<1>1. Accounts!TypeOK /\ Accounts!AccountWhole(o)
    BY DEF Accounts!Links
<1>2. CASE UNCHANGED accounts
    BY <1>2
<1>3. ASSUME NEW p \in Owners, Accounts!Disconnect(p) PROVE Goal
    BY <1>1, <1>3 DEF Accounts!Disconnect, Accounts!TypeOK
<1>4. ASSUME NEW p \in Owners, Accounts!Authorize(p) PROVE Goal
    <2>1. CASE p = o
        <3>1. accounts[o].github = asking[o].github /\ asking[o] # Accounts!NoAccount
            BY <1>4, <2>1 DEF Accounts!Authorize, Accounts!StillTheirs
        <3>2. accounts[o].github # Accounts!None
            BY <1>1, <3>1 DEF Accounts!AccountWhole
        <3>3. accounts'[o] = [accounts[o] EXCEPT !.login = asking[o].login]
            BY <1>1, <1>4, <2>1 DEF Accounts!Authorize, Accounts!TypeOK
        <3>4. accounts'[o].github = accounts[o].github
            BY <1>1, <3>3 DEF Accounts!TypeOK, Accounts!Account
        <3> QED
            BY <3>2, <3>4 DEF Accounts!Linked, Accounts!NoAccount
    <2>2. CASE p # o
        BY <1>1, <1>4, <2>2 DEF Accounts!Authorize, Accounts!TypeOK
    <2> QED
        BY <2>1, <2>2
<1>5. ASSUME NEW p \in Owners, NEW g \in Accounts!Grants, Accounts!Confirm(p, g) PROVE Goal
    <2>1. CASE p = o
        <3>1. accounts'[o] = [github |-> grants[g].github, login |-> grants[g].login]
            BY <1>1, <1>5, <2>1 DEF Accounts!Confirm, Accounts!TypeOK
        <3>2. /\ grants[g].owner = o /\ grants[g].github # Accounts!None
              /\ Accounts!Free(grants[g].github, o)
            BY <1>5, <2>1 DEF Accounts!Confirm
        <3>3. accounts'[o].github = grants[g].github
            BY <3>1
        <3> QED
            BY <1>5, <2>1, <3>2, <3>3
    <2>2. CASE p # o
        BY <1>1, <1>5, <2>2 DEF Accounts!Confirm, Accounts!TypeOK
    <2> QED
        BY <2>1, <2>2
<1>6. CASE UNCHANGED Accounts!accountVars
    BY <1>2, <1>6 DEF Accounts!accountVars
<1>7. ASSUME NEW p \in Owners, Accounts!Prompt(p) \/ Accounts!DrawGrant(p) \/ Accounts!Ask(p) \/ Accounts!Refuse(p) PROVE Goal
    BY <1>2, <1>7 DEF Accounts!Prompt, Accounts!DrawGrant, Accounts!Ask, Accounts!Refuse
<1>8. ASSUME NEW g \in Accounts!Grants, Accounts!Expire(g) \/ \E who \in Identities : Accounts!Propose(g, who) PROVE Goal
    BY <1>2, <1>8 DEF Accounts!Expire, Accounts!Propose
<1>9. ASSUME NEW who \in Identities, NEW login \in Logins, Accounts!Rename(who, login) PROVE Goal
    BY <1>2, <1>9 DEF Accounts!Rename
<1>10. Goal
    BY <1>3, <1>4, <1>5, <1>6, <1>7, <1>8, <1>9 DEF Accounts!Next
<1>11. QED
    BY <1>10

LEMMA AccountsLinkedNext ==
    ASSUME Accounts!Named, Accounts!Links, [Accounts!Next]_(Accounts!accountVars)
    PROVE  (\A o \in Owners : Accounts!Linked(o)' => accounts'[o].github # Accounts!None) /\ Accounts!LinkedOnce'
<1>1. ASSUME NEW o \in Owners, Accounts!Linked(o)' PROVE accounts'[o].github # Accounts!None
    BY <1>1, AccountsAccountsNext DEF Accounts!Links, Accounts!AccountWhole, Accounts!Linked
<1>2. ASSUME NEW o \in Owners, NEW p \in Owners, o # p, Accounts!Linked(o)'
      PROVE  accounts'[o].github # accounts'[p].github
    <2>1. accounts'[o].github # Accounts!None
        BY <1>1, <1>2
    <2>2. CASE accounts'[p] = Accounts!NoAccount
        BY <2>1, <2>2 DEF Accounts!NoAccount
    <2>3. CASE /\ accounts'[o].github = accounts[o].github /\ Accounts!Linked(o)
               /\ accounts'[p].github = accounts[p].github
        BY <1>2, <2>3 DEF Accounts!Links, Accounts!LinkedOnce
    <2>4. ASSUME NEW g \in Accounts!Grants, Accounts!Confirm(o, g), accounts'[o].github = grants[g].github,
                 Accounts!Free(grants[g].github, o)
          PROVE  accounts'[o].github # accounts'[p].github
        <3>1. accounts'[p] = accounts[p]
            BY <1>2, <2>4 DEF Accounts!Confirm, Accounts!Links, Accounts!TypeOK
        <3> QED
            BY <1>2, <2>4, <3>1 DEF Accounts!Free
    <2>5. ASSUME NEW g \in Accounts!Grants, Accounts!Confirm(p, g), accounts'[p].github = grants[g].github,
                 Accounts!Free(grants[g].github, p)
          PROVE  accounts'[o].github # accounts'[p].github
        <3>1. accounts'[o] = accounts[o]
            BY <1>2, <2>5 DEF Accounts!Confirm, Accounts!Links, Accounts!TypeOK
        <3> QED
            BY <1>2, <2>5, <3>1 DEF Accounts!Free
    <2>6. \/ Accounts!Linked(o) /\ accounts'[o].github = accounts[o].github
          \/ \E g \in Accounts!Grants :
                /\ Accounts!Confirm(o, g) /\ accounts'[o].github = grants[g].github
                /\ Accounts!Free(grants[g].github, o)
        BY <1>2, AccountsAccountsNext DEF Accounts!Linked
    <2>7. \/ accounts'[p].github = accounts[p].github
          \/ accounts'[p] = Accounts!NoAccount
          \/ \E g \in Accounts!Grants :
                /\ Accounts!Confirm(p, g) /\ accounts'[p].github = grants[g].github
                /\ Accounts!Free(grants[g].github, p)
        BY AccountsAccountsNext
    <2> QED
        BY <2>2, <2>3, <2>4, <2>5, <2>6, <2>7
<1>3. QED
    BY <1>1, <1>2 DEF Accounts!LinkedOnce

LEMMA AccountsAskingNext ==
    ASSUME Accounts!Named, Accounts!Links, [Accounts!Next]_(Accounts!accountVars), NEW o \in Owners, asking'[o] # Accounts!NoAccount
    PROVE  asking'[o].github # Accounts!None
<1>1. Accounts!TypeOK /\ Accounts!AccountWhole(o)
    BY DEF Accounts!Links
<1>2. CASE asking'[o] = asking[o]
    BY <1>1, <1>2 DEF Accounts!AccountWhole
<1>3. CASE Accounts!Ask(o)
    <2>1. asking'[o] = [github |-> accounts[o].github, login |-> loginOf[accounts[o].github]]
        BY <1>1, <1>3 DEF Accounts!Ask, Accounts!TypeOK
    <2> QED
        BY <1>1, <1>3, <2>1 DEF Accounts!Ask, Accounts!AccountWhole
<1>4. ASSUME NEW p \in Owners, Accounts!Authorize(p) \/ Accounts!Refuse(p) \/ (Accounts!Ask(p) /\ p # o)
      PROVE  asking'[o] = asking[o] \/ asking'[o] = Accounts!NoAccount
    BY <1>1, <1>4 DEF Accounts!Authorize, Accounts!Refuse, Accounts!Ask, Accounts!TypeOK
<1>5. CASE UNCHANGED asking
    BY <1>2, <1>5
<1>6. \/ UNCHANGED asking
      \/ \E p \in Owners : Accounts!Ask(p) \/ Accounts!Authorize(p) \/ Accounts!Refuse(p)
    BY DEF Accounts!Next, Accounts!accountVars, Accounts!Prompt, Accounts!DrawGrant, Accounts!Disconnect, Accounts!Confirm, Accounts!Expire, Accounts!Propose, Accounts!Rename
<1>7. QED
    BY <1>2, <1>3, <1>4, <1>5, <1>6


LEMMA AccountsGrantsNext ==
    ASSUME Accounts!Named, Accounts!Links, [Accounts!Next]_(Accounts!accountVars), NEW g \in Accounts!Grants
    PROVE  Accounts!GrantAsked(g)' /\ Accounts!FirstOpener(g)
<1>1. /\ Accounts!TypeOK /\ Accounts!GrantAsked(g) /\ grants[g] \in Accounts!Grant /\ Accounts!Grants = 1 .. MaxGrants
      /\ Accounts!NoGrant.owner = Accounts!None /\ Accounts!NoGrant.github = Accounts!None /\ Accounts!None \notin Owners
    BY DEF Accounts!Links, Accounts!TypeOK, Accounts!NoGrant, Accounts!Grants, Accounts!Named
<1>2. CASE UNCHANGED <<grants, accountsAsked, drawn>>
    BY <1>1, <1>2 DEF Accounts!GrantAsked, Accounts!FirstOpener
<1>3. ASSUME NEW o \in Owners, Accounts!DrawGrant(o) PROVE Accounts!GrantAsked(g)' /\ Accounts!FirstOpener(g)
    <2>1. drawn + 1 \in Accounts!Grants /\ drawn \in Nat /\ g \in Nat /\ drawn' = drawn + 1
        BY <1>1, <1>3 DEF Accounts!DrawGrant, Accounts!TypeOK, Accounts!Named
    <2>2. CASE g = drawn + 1
        <3>1. grants[g] = Accounts!NoGrant
            BY <1>1, <2>1, <2>2 DEF Accounts!GrantAsked
        <3>2. grants'[g] = [Accounts!NoGrant EXCEPT !.owner = o]
            BY <1>1, <1>3, <2>1, <2>2 DEF Accounts!DrawGrant, Accounts!TypeOK
        <3>3. g \in accountsAsked'[o]
            BY <1>1, <1>3, <2>1, <2>2 DEF Accounts!DrawGrant, Accounts!TypeOK
        <3>4. grants'[g].owner = o
            BY <3>2 DEF Accounts!NoGrant
        <3> QED
            BY <1>1, <2>1, <2>2, <3>1, <3>3, <3>4 DEF Accounts!GrantAsked, Accounts!FirstOpener
    <2>3. CASE g # drawn + 1
        <3>1. grants'[g] = grants[g]
            BY <1>1, <1>3, <2>1, <2>3 DEF Accounts!DrawGrant, Accounts!TypeOK
        <3>2. \A p \in Owners : accountsAsked[p] \subseteq accountsAsked'[p]
            BY <1>1, <1>3 DEF Accounts!DrawGrant, Accounts!TypeOK
        <3>3. grants[g].owner \in Owners \cup {Accounts!None}
            BY <1>1 DEF Accounts!Grant
        <3> QED
            BY <1>1, <2>1, <2>3, <3>1, <3>2, <3>3 DEF Accounts!GrantAsked, Accounts!FirstOpener
    <2> QED
        BY <2>2, <2>3
<1>4. ASSUME NEW o \in Owners, Accounts!Disconnect(o) PROVE Accounts!GrantAsked(g)' /\ Accounts!FirstOpener(g)
    <2>1. grants'[g] = IF grants[g].owner = o THEN Accounts!NoGrant ELSE grants[g]
        BY <1>1, <1>4 DEF Accounts!Disconnect, Accounts!Withdrawn
    <2>2. \A p \in Owners \ {o} : accountsAsked'[p] = accountsAsked[p]
        BY <1>1, <1>4 DEF Accounts!Disconnect, Accounts!TypeOK
    <2>3. drawn' = drawn
        BY <1>4 DEF Accounts!Disconnect
    <2>4. grants[g].owner \in Owners \cup {Accounts!None}
        BY <1>1 DEF Accounts!Grant
    <2> QED
        BY <1>1, <2>1, <2>2, <2>3, <2>4 DEF Accounts!GrantAsked, Accounts!FirstOpener
<1>5. ASSUME NEW o \in Owners, NEW h \in Accounts!Grants, Accounts!Confirm(o, h)
      PROVE  Accounts!GrantAsked(g)' /\ Accounts!FirstOpener(g)
    <2>1. UNCHANGED <<accountsAsked, drawn>>
        BY <1>5 DEF Accounts!Confirm
    <2>2. grants'[g] = IF grants[g].owner = o THEN [grants[g] EXCEPT !.confirmed = TRUE]
                       ELSE grants[g]
        BY <1>1, <1>5 DEF Accounts!Confirm
    <2>3. grants'[g].owner = grants[g].owner /\ grants'[g].github = grants[g].github
        BY <1>1, <2>2 DEF Accounts!Grant
    <2>4. grants[g] = Accounts!NoGrant => grants'[g] = Accounts!NoGrant
        BY <1>1, <2>2
    <2> QED
        BY <1>1, <2>1, <2>3, <2>4 DEF Accounts!GrantAsked, Accounts!FirstOpener
<1>6. ASSUME NEW h \in Accounts!Grants, Accounts!Expire(h) PROVE Accounts!GrantAsked(g)' /\ Accounts!FirstOpener(g)
    <2>1. UNCHANGED <<accountsAsked, drawn>> /\ (grants'[g] = grants[g] \/ grants'[g] = Accounts!NoGrant)
        BY <1>1, <1>6 DEF Accounts!Expire, Accounts!TypeOK
    <2> QED
        BY <1>1, <2>1 DEF Accounts!GrantAsked, Accounts!FirstOpener
<1>7. ASSUME NEW h \in Accounts!Grants, NEW who \in Identities, Accounts!Propose(h, who)
      PROVE  Accounts!GrantAsked(g)' /\ Accounts!FirstOpener(g)
    <2>1. UNCHANGED <<accountsAsked, drawn>>
        BY <1>7 DEF Accounts!Propose
    <2>2. CASE h # g
        <3>1. grants'[g] = grants[g]
            BY <1>1, <1>7, <2>2 DEF Accounts!Propose, Accounts!TypeOK
        <3> QED
            BY <1>1, <2>1, <3>1 DEF Accounts!GrantAsked, Accounts!FirstOpener
    <2>3. CASE h = g
        <3>1. grants'[g] = [grants[g] EXCEPT !.github = who, !.login = loginOf[who]]
            BY <1>1, <1>7, <2>3 DEF Accounts!Propose, Accounts!TypeOK
        <3>2. grants'[g].owner = grants[g].owner /\ grants'[g].github = who
            BY <1>1, <3>1 DEF Accounts!Grant
        <3>3. grants[g] # Accounts!NoGrant /\ grants[g].github \in {Accounts!None, who}
            BY <1>7, <2>3 DEF Accounts!Propose, Accounts!Claimable
        <3> QED
            BY <1>1, <2>1, <3>2, <3>3 DEF Accounts!GrantAsked, Accounts!FirstOpener
    <2> QED
        BY <2>2, <2>3
<1>8. \/ UNCHANGED <<grants, accountsAsked, drawn>>
      \/ \E o \in Owners : Accounts!DrawGrant(o) \/ Accounts!Disconnect(o) \/ \E h \in Accounts!Grants : Accounts!Confirm(o, h)
      \/ \E h \in Accounts!Grants : Accounts!Expire(h) \/ \E who \in Identities : Accounts!Propose(h, who)
    BY DEF Accounts!Next, Accounts!accountVars, Accounts!Prompt, Accounts!Ask, Accounts!Authorize, Accounts!Refuse, Accounts!Rename
<1>9. QED
    BY <1>2, <1>3, <1>4, <1>5, <1>6, <1>7, <1>8

LEMMA AccountsLinksNext == ASSUME Accounts!Named, Accounts!Links, [Accounts!Next]_(Accounts!accountVars) PROVE Accounts!Links'
<1>1. \A o \in Owners : Accounts!AccountWhole(o)'
    BY AccountsLinkedNext, AccountsAskingNext DEF Accounts!AccountWhole
<1>2. QED
    BY <1>1, AccountsTypeNext, AccountsGrantsNext, AccountsLinkedNext DEF Accounts!Links

\* The inductive invariant holds in every state the program can reach.
THEOREM AccountsLinksCorrect == ASSUME Accounts!Named PROVE Accounts!Spec => []Accounts!Links
<1>1. Accounts!Init => Accounts!Links
    BY AccountsTypeInit
<1>2. Accounts!Links /\ [Accounts!Next]_(Accounts!accountVars) => Accounts!Links'
    BY AccountsLinksNext
<1>3. QED
    BY <1>1, <1>2, PTL DEF Accounts!Spec

\* A Slack user is linked only by confirming a link of theirs that the identity
\* opened first, and no identity is linked twice (confirm, resolve_grant).
THEOREM AccountsLinkedByBothCorrect == ASSUME Accounts!Named PROVE Accounts!Spec => Accounts!LinkedByBoth
<1> DEFINE Step ==
        /\ \A o \in Owners :
             (~Accounts!Linked(o) /\ accounts'[o] # Accounts!NoAccount)
                 => \E g \in accountsAsked[o] : grants[g].owner = o /\ grants[g].github = accounts'[o].github
        /\ \A o, p \in Owners : (o # p /\ accounts'[o] # Accounts!NoAccount) => accounts'[o].github # accounts'[p].github
        /\ \A g \in Accounts!Grants : grants[g].github # Accounts!None /\ grants'[g] # Accounts!NoGrant => grants'[g].github = grants[g].github
<1>1. Accounts!Links /\ [Accounts!Next]_(Accounts!accountVars) => Step
  <2> SUFFICES ASSUME Accounts!Links, [Accounts!Next]_(Accounts!accountVars) PROVE Step
    OBVIOUS
  <2>1. ASSUME NEW o \in Owners, ~Accounts!Linked(o), accounts'[o] # Accounts!NoAccount
        PROVE  \E g \in accountsAsked[o] : grants[g].owner = o /\ grants[g].github = accounts'[o].github
    <3>1. PICK g \in Accounts!Grants : grants[g].owner = o /\ grants[g].github = accounts'[o].github
        BY <2>1, AccountsAccountsNext DEF Accounts!Linked
    <3>2. g \in accountsAsked[o]
        BY <3>1 DEF Accounts!Links, Accounts!GrantAsked, Accounts!Named
    <3> QED
        BY <3>1, <3>2
  <2>2. \A o, p \in Owners : (o # p /\ accounts'[o] # Accounts!NoAccount) => accounts'[o].github # accounts'[p].github
    BY AccountsLinkedNext DEF Accounts!LinkedOnce, Accounts!Linked
  <2>3. \A g \in Accounts!Grants : grants[g].github # Accounts!None /\ grants'[g] # Accounts!NoGrant => grants'[g].github = grants[g].github
    BY AccountsGrantsNext DEF Accounts!FirstOpener
  <2>4. QED
    BY <2>1, <2>2, <2>3
<1>2. Accounts!Links /\ [Accounts!Next]_(Accounts!accountVars) => [Step]_(Accounts!accountVars)
    BY <1>1
<1> HIDE DEF Step
<1>3. Accounts!Spec => [][Step]_(Accounts!accountVars)
    BY <1>2, AccountsLinksCorrect, PTL DEF Accounts!Spec
<1>4. QED
    BY <1>3 DEF Step, Accounts!LinkedByBoth

\* Work is authorized only while its owner is linked to the identity that GitHub
\* gave the login for (authorize_command, lookup).
THEOREM AccountsActsAsLinkedCorrect == ASSUME Accounts!Named PROVE Accounts!Spec => Accounts!ActsAsLinked
<1> DEFINE Step ==
        acting' # acting => /\ accounts[acting'.owner].github = acting'.github
                            /\ asking[acting'.owner].login = acting'.login
<1>1. [Accounts!Next]_(Accounts!accountVars) => Step
  <2> SUFFICES ASSUME [Accounts!Next]_(Accounts!accountVars), acting' # acting
               PROVE  /\ accounts[acting'.owner].github = acting'.github
                      /\ asking[acting'.owner].login = acting'.login
    OBVIOUS
  <2>1. PICK o \in Owners : Accounts!Authorize(o)
    BY DEF Accounts!Next, Accounts!accountVars, Accounts!Prompt, Accounts!DrawGrant, Accounts!Disconnect, Accounts!Confirm, Accounts!Ask, Accounts!Refuse, Accounts!Expire,
           Accounts!Propose, Accounts!Rename
  <2>2. QED
    BY <2>1 DEF Accounts!Authorize, Accounts!StillTheirs
<1> HIDE DEF Step
<1>2. Accounts!Spec => [][Step]_(Accounts!accountVars)
    BY <1>1, PTL DEF Accounts!Spec
<1>3. QED
    BY <1>2 DEF Step, Accounts!ActsAsLinked

-----------------------------------------------------------------------------
(* Proofs, for any requests, hours, slots and faults                         *)

\* The sizes SlackCommands counts are those of any other module.
LEMMA CommandsSizes ==
    \A S : Commands!IsFiniteSet(S) = IsFiniteSet(S) /\ Commands!Cardinality(S) = Cardinality(S)
BY Zenon DEF Commands!IsFiniteSet, IsFiniteSet, Commands!Cardinality, Cardinality

LEMMA CommandsFinite ==
    ASSUME Commands!Limits
    PROVE  IsFiniteSet(Commands!Commands) /\ \A q \in CommandRequests : q.command \in Commands!Commands
<1> DEFINE commandOf == [q \in CommandRequests |-> q.command]
<1>1. commandOf \in Surjection(CommandRequests, Commands!Commands)
    BY DEF Surjection, Commands!Commands
<1>2. IsFiniteSet(Commands!Commands)
    BY <1>1, FS_Surjection, CommandsSizes DEF Commands!Limits
<1>3. QED
    BY <1>2 DEF Commands!Commands

\* The commands of the hour, and the requests that hold a slot, can be counted.
LEMMA CommandsCounts ==
    ASSUME Commands!Limits
    PROVE  /\ IsFiniteSet(Commands!InLastHour) /\ Cardinality(Commands!InLastHour) \in Nat
           /\ IsFiniteSet(Commands!ThisHour) /\ Cardinality(Commands!ThisHour) \in Nat
           /\ IsFiniteSet(Commands!Holding) /\ Cardinality(Commands!Holding) \in Nat
<1>1. Commands!InLastHour \subseteq Commands!Commands /\ Commands!ThisHour \subseteq Commands!Commands /\ Commands!Holding \subseteq CommandRequests
    BY DEF Commands!InLastHour, Commands!ThisHour, Commands!Holding
<1>2. IsFiniteSet(Commands!InLastHour) /\ IsFiniteSet(Commands!ThisHour) /\ IsFiniteSet(Commands!Holding)
    BY <1>1, CommandsFinite, FS_Subset, CommandsSizes DEF Commands!Limits
<1>3. QED
    BY <1>2, FS_CardinalityType

\* Nothing that Slack still sends is forgotten.
LEMMA CommandsFreshKeeps ==
    ASSUME Commands!Limits, Commands!TypeOK, NEW c \in Commands!Commands, Commands!CommandTrue(c)
    PROVE  /\ Commands!Fresh[c] = stored[c] \/ (Commands!Fresh[c] = Commands!NoRow /\ Commands!Over(c))
           /\ Commands!StillSent(c) => Commands!Fresh[c] = stored[c] /\ ~Commands!Over(c)
<1>1. commandsNow \in Nat /\ stored[c].since \in Nat /\ Keep \in Nat /\ RetryHours \in Nat
      /\ SentAt[c] \in Nat /\ RetryHours <= Keep
    BY DEF Commands!TypeOK, Commands!Limits
<1>2. Commands!Fresh[c] = IF commandsNow > stored[c].since + Keep THEN Commands!NoRow ELSE stored[c]
    BY DEF Commands!Fresh
<1>3. CASE stored[c] = Commands!NoRow
    BY <1>1, <1>2, <1>3 DEF Commands!StillSent, Commands!Over
<1>4. CASE stored[c] # Commands!NoRow
    BY <1>1, <1>2, <1>4 DEF Commands!CommandTrue, Commands!StillSent, Commands!Over
<1>5. QED
    BY <1>3, <1>4

LEMMA CommandsFreshTyped ==
    ASSUME Commands!Limits, Commands!TypeOK
    PROVE  Commands!Fresh \in [Commands!Commands -> [result : {"none", "accepted", "done"}, since : Nat]]
BY DEF Commands!Fresh, Commands!TypeOK, Commands!NoRow

LEMMA CommandsTypeInit == ASSUME Commands!Limits, Commands!Init PROVE Commands!TypeOK
BY DEF Commands!Init, Commands!TypeOK, Commands!NoRow, Commands!Stages, Commands!Limits

LEMMA CommandsRequestTyped ==
    ASSUME Commands!Limits, Commands!TypeOK, NEW q \in CommandRequests,
           \/ Commands!Arrive(q) \/ Commands!Repeated(q) \/ Commands!Refused(q) \/ Commands!Record(q) \/ Commands!RecordFails(q)
           \/ Commands!Verify(q) \/ Commands!Execute(q) \/ Commands!Save(q) \/ Commands!NotifyAndRelease(q)
    PROVE  Commands!TypeOK'
<1> DEFINE Row == [result : {"none", "accepted", "done"}, since : Nat]
<1>1. q.command \in Commands!Commands
    BY CommandsFinite
<1>2. CASE Commands!Arrive(q)
    BY <1>2 DEF Commands!Arrive, Commands!TypeOK, Commands!Stages
<1>3. CASE Commands!Repeated(q) \/ Commands!Refused(q)
    BY <1>3, CommandsFreshTyped DEF Commands!Repeated, Commands!Refused, Commands!GiveBack, Commands!TypeOK, Commands!Stages
<1>4. CASE Commands!Record(q)
    <2>1. [result |-> "accepted", since |-> commandsNow] \in Row
        BY DEF Commands!TypeOK
    <2>2. stored' \in [Commands!Commands -> Row]
        BY <1>1, <1>4, <2>1, CommandsFreshTyped DEF Commands!Record
    <2>3. at' \in [CommandRequests -> Commands!Stages] /\ static' \in [CommandRequests -> BOOLEAN]
        BY <1>4 DEF Commands!Record, Commands!Limited, Commands!TypeOK, Commands!Stages
    <2> QED
        BY <1>4, <2>2, <2>3 DEF Commands!Record, Commands!TypeOK
<1>5. CASE Commands!RecordFails(q)
    <2>1. commandsFree' \in Nat /\ commandsFaults' \in Nat
        BY <1>5 DEF Commands!RecordFails, Commands!TypeOK
    <2>2. at' \in [CommandRequests -> Commands!Stages]
        BY <1>5 DEF Commands!RecordFails, Commands!TypeOK, Commands!Stages
    <2> QED
        BY <1>5, <2>1, <2>2 DEF Commands!RecordFails, Commands!TypeOK
<1>6. CASE Commands!Verify(q)
    BY <1>6 DEF Commands!Verify, Commands!TypeOK, Commands!Stages
<1>7. CASE Commands!Execute(q)
    <2>1. executed' \in [Commands!Commands -> Nat]
        BY <1>1, <1>7 DEF Commands!Execute, Commands!TypeOK
    <2>2. linked' \in BOOLEAN /\ at' \in [CommandRequests -> Commands!Stages]
        BY <1>7 DEF Commands!Execute, Commands!TypeOK, Commands!Stages
    <2> QED
        BY <1>7, <2>1, <2>2 DEF Commands!Execute, Commands!TypeOK
<1>8. CASE Commands!Save(q)
    <2>1. at' \in [CommandRequests -> Commands!Stages] /\ commandsFaults' \in Nat
        BY <1>8 DEF Commands!Save, Commands!TypeOK, Commands!Stages
    <2>2. [stored[q.command] EXCEPT !.result = "done"] \in Row /\ Commands!NoRow \in Row
        BY <1>1 DEF Commands!TypeOK, Commands!NoRow
    <2>3. stored' \in [Commands!Commands -> Row]
        BY <1>8, <2>2 DEF Commands!Save, Commands!TypeOK
    <2> QED
        BY <1>8, <2>1, <2>3 DEF Commands!Save, Commands!TypeOK
<1>9. CASE Commands!NotifyAndRelease(q)
    BY <1>9 DEF Commands!NotifyAndRelease, Commands!GiveBack, Commands!TypeOK, Commands!Stages
<1>10. QED
    BY <1>2, <1>3, <1>4, <1>5, <1>6, <1>7, <1>8, <1>9

LEMMA CommandsTypeNext == ASSUME Commands!Limits, Commands!TypeOK, [Commands!Next]_(Commands!commandVars) PROVE Commands!TypeOK'
<1>1. CASE UNCHANGED Commands!commandVars
    BY <1>1 DEF Commands!commandVars, Commands!TypeOK
<1>2. CASE Commands!Tick
    BY <1>2 DEF Commands!Tick, Commands!TypeOK
<1>3. CASE Commands!Link
    BY <1>3 DEF Commands!Link, Commands!TypeOK
<1>4. CASE Commands!Killed
    BY <1>4 DEF Commands!Killed, Commands!TypeOK, Commands!Stages, Commands!Limits
<1>5. QED
    BY <1>1, <1>2, <1>3, <1>4, CommandsRequestTyped DEF Commands!Next

-----------------------------------------------------------------------------
(* A command starts once                                                     *)


\* Steps that record and start nothing.
LEMMA CommandsOnceFrame ==
    ASSUME Commands!Limits, Commands!Once, Commands!TypeOK', UNCHANGED <<commandsNow, executed>>,
           \A c \in Commands!Commands : Commands!RowGoesOn(c),
           \A q \in CommandRequests :
               /\ Commands!MayStart(q)' => Commands!MayStart(q) /\ static'[q] = static[q]
               /\ at'[q] = "slotted" => at[q] = "slotted" \/ Commands!StillSent(q.command)
               /\ at'[q] = "verified" => ~static'[q]
    PROVE  Commands!Once'
<1>1. \A q \in CommandRequests : q.command \in Commands!Commands
    BY CommandsFinite
<1>2. \A c \in Commands!Commands : Commands!CommandTrue(c)'
    <2> SUFFICES ASSUME NEW c \in Commands!Commands PROVE Commands!CommandTrue(c)'
        OBVIOUS
    <2>1. Commands!CommandTrue(c) /\ Commands!RowGoesOn(c)
        BY DEF Commands!Once
    <2> QED
        BY <2>1 DEF Commands!CommandTrue, Commands!RowGoesOn, Commands!Over
<1>3. \A q \in CommandRequests : Commands!RequestTrue(q)'
    <2> SUFFICES ASSUME NEW q \in CommandRequests PROVE Commands!RequestTrue(q)'
        OBVIOUS
    <2>1. Commands!RequestTrue(q) /\ Commands!RowGoesOn(q.command)
        BY <1>1 DEF Commands!Once
    <2> QED
        BY <2>1 DEF Commands!RequestTrue, Commands!RowGoesOn, Commands!Over, Commands!StillSent
<1>4. \A q, r \in CommandRequests : Commands!Rival(q, r)' => q = r
    BY DEF Commands!Once, Commands!Rival
<1>5. Commands!ThisHour' \subseteq Commands!ThisHour
    <2> SUFFICES ASSUME NEW c \in Commands!Commands, Commands!Counted(c)' PROVE Commands!Counted(c)
        BY DEF Commands!ThisHour
    <2>1. Commands!RowGoesOn(c)
        OBVIOUS
    <2> QED
        BY <2>1 DEF Commands!Counted, Commands!RowGoesOn
<1>6. Cardinality(Commands!ThisHour') <= Cardinality(Commands!ThisHour) /\ Cardinality(Commands!ThisHour') \in Nat
    BY <1>5, CommandsCounts, FS_Subset, FS_CardinalityType
<1>7. Cardinality(Commands!ThisHour)' <= Hourly
    BY <1>6, CommandsCounts, CommandsSizes DEF Commands!Once, Commands!Limits
<1>8. QED
    BY <1>2, <1>3, <1>4, <1>7, CommandsSizes DEF Commands!Once

LEMMA CommandsFreshGoesOn ==
    ASSUME Commands!Limits, Commands!Once, stored' = Commands!Fresh
    PROVE  \A c \in Commands!Commands : Commands!RowGoesOn(c)
<1> SUFFICES ASSUME NEW c \in Commands!Commands PROVE Commands!RowGoesOn(c)
    OBVIOUS
<1>1. Commands!CommandTrue(c) /\ Commands!TypeOK
    BY DEF Commands!Once
<1>2. Commands!Fresh[c] = stored[c] \/ (Commands!Fresh[c] = Commands!NoRow /\ Commands!Over(c))
    BY <1>1, CommandsFreshKeeps
<1>3. QED
    BY <1>1, <1>2 DEF Commands!RowGoesOn, Commands!CommandTrue

LEMMA CommandsQuietOnce ==
    ASSUME Commands!Limits, Commands!Once, Commands!TypeOK', NEW q \in CommandRequests,
           \/ Commands!Arrive(q) \/ Commands!Repeated(q) \/ Commands!Refused(q) \/ Commands!RecordFails(q)
           \/ Commands!Verify(q) \/ Commands!Save(q) \/ Commands!NotifyAndRelease(q)
    PROVE  Commands!Once'
<1>1. Commands!TypeOK /\ UNCHANGED <<commandsNow, executed>> /\ q.command \in Commands!Commands
    BY CommandsFinite DEF Commands!Once, Commands!Arrive, Commands!Repeated, Commands!Refused, Commands!RecordFails, Commands!Verify, Commands!Save, Commands!NotifyAndRelease
<1>2. \A c \in Commands!Commands : Commands!RowGoesOn(c)
    <2>1. CASE Commands!Repeated(q) \/ Commands!Refused(q)
        BY <2>1, CommandsFreshGoesOn DEF Commands!Repeated, Commands!Refused
    <2>2. CASE Commands!Save(q)
        <3> SUFFICES ASSUME NEW c \in Commands!Commands PROVE Commands!RowGoesOn(c)
            OBVIOUS
        <3>1. Commands!CommandTrue(c)
            BY DEF Commands!Once
        <3>2. \/ stored'[c] = stored[c]
              \/ stored[c] # Commands!NoRow /\ stored'[c] = [stored[c] EXCEPT !.result = "done"]
            BY <1>1, <2>2 DEF Commands!Save, Commands!TypeOK
        <3>3. stored[c] # Commands!NoRow =>
                  /\ [stored[c] EXCEPT !.result = "done"].result = "done"
                  /\ [stored[c] EXCEPT !.result = "done"].since = stored[c].since
            BY <1>1 DEF Commands!TypeOK
        <3>4. CASE stored'[c] = stored[c]
            BY <3>1, <3>4 DEF Commands!RowGoesOn, Commands!CommandTrue
        <3>5. CASE stored'[c] # stored[c]
            <4>1. /\ stored[c] # Commands!NoRow /\ stored'[c].result = "done"
                  /\ stored'[c].since = stored[c].since
                BY <3>2, <3>3, <3>5
            <4>2. stored'[c] # Commands!NoRow
                BY <4>1 DEF Commands!NoRow
            <4> QED
                BY <4>1, <4>2 DEF Commands!RowGoesOn
        <3> QED
            BY <3>4, <3>5
    <2>3. CASE stored' = stored
        BY <2>3 DEF Commands!RowGoesOn, Commands!Once, Commands!CommandTrue
    <2> QED
        BY <2>1, <2>2, <2>3 DEF Commands!Arrive, Commands!RecordFails, Commands!Verify, Commands!NotifyAndRelease
<1>3. ASSUME NEW r \in CommandRequests
      PROVE  /\ Commands!MayStart(r)' => Commands!MayStart(r) /\ static'[r] = static[r]
             /\ at'[r] = "slotted" => at[r] = "slotted" \/ Commands!StillSent(r.command)
             /\ at'[r] = "verified" => ~static'[r]
    <2>1. Commands!RequestTrue(r)
        BY DEF Commands!Once
    <2>2. CASE r # q
        <3>1. at'[r] = at[r] /\ static'[r] = static[r]
            BY <1>1, <2>2 DEF Commands!Arrive, Commands!Repeated, Commands!Refused, Commands!RecordFails, Commands!Verify, Commands!Save,
                              Commands!NotifyAndRelease, Commands!TypeOK
        <3> QED
            BY <2>1, <3>1 DEF Commands!RequestTrue, Commands!MayStart
    <2>3. CASE r = q
        <3>1. CASE Commands!Arrive(q)
            BY <1>1, <2>3, <3>1 DEF Commands!Arrive, Commands!MayStart, Commands!TypeOK
        <3>2. CASE Commands!Verify(q)
            BY <1>1, <2>3, <3>2 DEF Commands!Verify, Commands!MayStart, Commands!TypeOK
        <3>3. CASE Commands!Repeated(q) \/ Commands!Refused(q) \/ Commands!RecordFails(q) \/ Commands!Save(q) \/ Commands!NotifyAndRelease(q)
            BY <1>1, <2>3, <3>3 DEF Commands!Repeated, Commands!Refused, Commands!RecordFails, Commands!Save, Commands!NotifyAndRelease,
                                    Commands!MayStart, Commands!TypeOK
        <3> QED
            BY <3>1, <3>2, <3>3
    <2> QED
        BY <2>2, <2>3
<1>4. QED
    BY <1>1, <1>2, <1>3, CommandsOnceFrame

\* What is recorded was not on file, nor started, and counts for this hour.
LEMMA CommandsRecordOnce ==
    ASSUME Commands!Limits, Commands!Once, Commands!TypeOK', NEW q \in CommandRequests, Commands!Record(q)
    PROVE  Commands!Once'
<1> DEFINE c == q.command
<1>1. Commands!TypeOK /\ c \in Commands!Commands /\ Commands!RequestTrue(q) /\ Commands!CommandTrue(c) /\ commandsNow \in Nat
    BY CommandsFinite DEF Commands!Once, Commands!TypeOK
<1>2. Commands!StillSent(c) /\ ~Commands!Over(c) /\ stored[c] = Commands!NoRow
    BY <1>1, CommandsFreshKeeps DEF Commands!Record, Commands!RequestTrue, Commands!Known
<1>3. executed[c] = 0 /\ \A r \in CommandRequests : r.command = c => ~Commands!MayStart(r)
    <2>1. executed[c] \in Nat
        BY <1>1 DEF Commands!TypeOK
    <2>2. \A r \in CommandRequests : Commands!RequestTrue(r)
        BY DEF Commands!Once
    <2> QED
        BY <1>1, <1>2, <2>1, <2>2 DEF Commands!RequestTrue, Commands!CommandTrue
<1>4. /\ at' = [at EXCEPT ![q] = "recorded"] /\ UNCHANGED <<commandsNow, executed>>
      /\ static' = [static EXCEPT ![q] = @ \/ Commands!Limited]
      /\ stored'[c] = [result |-> "accepted", since |-> commandsNow]
      /\ \A d \in Commands!Commands \ {c} : stored'[d] = Commands!Fresh[d]
    <2>1. Commands!Fresh \in [Commands!Commands -> [result : {"none", "accepted", "done"}, since : Nat]]
        BY <1>1, CommandsFreshTyped
    <2> QED
        BY <1>1, <2>1 DEF Commands!Record
<1>5. /\ at'[q] = "recorded"
      /\ \A r \in CommandRequests \ {q} : at'[r] = at[r] /\ static'[r] = static[r]
    BY <1>1, <1>4 DEF Commands!TypeOK
<1>6. stored'[c] # Commands!NoRow /\ stored'[c].result # "none" /\ stored'[c].since = commandsNow
    BY <1>4 DEF Commands!NoRow
<1>7. \A d \in Commands!Commands \ {c} : Commands!RowGoesOn(d)
    <2> SUFFICES ASSUME NEW d \in Commands!Commands \ {c} PROVE Commands!RowGoesOn(d)
        OBVIOUS
    <2>1. Commands!CommandTrue(d)
        BY DEF Commands!Once
    <2>2. Commands!Fresh[d] = stored[d] \/ (Commands!Fresh[d] = Commands!NoRow /\ Commands!Over(d))
        BY <1>1, <2>1, CommandsFreshKeeps
    <2> QED
        BY <1>4, <2>1, <2>2 DEF Commands!RowGoesOn, Commands!CommandTrue
<1>8. \A d \in Commands!Commands : Commands!CommandTrue(d)'
    <2> SUFFICES ASSUME NEW d \in Commands!Commands PROVE Commands!CommandTrue(d)'
        OBVIOUS
    <2>1. CASE d = c
        BY <1>1, <1>2, <1>3, <1>4, <1>6, <2>1 DEF Commands!CommandTrue, Commands!StillSent
    <2>2. CASE d # c
        <3>1. Commands!CommandTrue(d) /\ Commands!RowGoesOn(d)
            BY <1>7, <2>2 DEF Commands!Once
        <3> QED
            BY <1>4, <3>1 DEF Commands!CommandTrue, Commands!RowGoesOn, Commands!Over
    <2> QED
        BY <2>1, <2>2
<1>9. \A r \in CommandRequests : Commands!RequestTrue(r)'
    <2> SUFFICES ASSUME NEW r \in CommandRequests PROVE Commands!RequestTrue(r)'
        OBVIOUS
    <2>1. CASE r = q
        BY <1>3, <1>4, <1>5, <1>6, <2>1 DEF Commands!RequestTrue, Commands!MayStart
    <2>2. CASE r # q
        <3>1. Commands!RequestTrue(r) /\ r.command \in Commands!Commands
            BY CommandsFinite DEF Commands!Once
        <3>2. Commands!MayStart(r) => Commands!RowGoesOn(r.command)
            BY <1>3, <1>7, <3>1
        <3> QED
            BY <1>4, <1>5, <2>2, <3>1, <3>2 DEF Commands!RequestTrue, Commands!MayStart, Commands!RowGoesOn, Commands!Over, Commands!StillSent
    <2> QED
        BY <2>1, <2>2
<1>10. \A r, t \in CommandRequests : Commands!Rival(r, t)' => r = t
    BY <1>3, <1>5 DEF Commands!Once, Commands!Rival, Commands!MayStart
<1>11. Cardinality(Commands!ThisHour') <= Hourly
    <2>1. CASE Commands!Limited
        <3>1. Commands!ThisHour' \subseteq Commands!ThisHour
            <4> SUFFICES ASSUME NEW d \in Commands!Commands, Commands!Counted(d)' PROVE Commands!Counted(d)
                BY DEF Commands!ThisHour
            <4>1. static'[q]
                BY <1>1, <1>4, <2>1 DEF Commands!TypeOK
            <4>2. d # c
                BY <1>3, <1>4, <1>5, <4>1 DEF Commands!Counted, Commands!MayStart
            <4>3. Commands!RowGoesOn(d)
                BY <1>7, <4>2
            <4> QED
                BY <1>4, <1>5, <4>1, <4>2, <4>3 DEF Commands!Counted, Commands!RowGoesOn, Commands!MayStart
        <3>2. Cardinality(Commands!ThisHour') <= Cardinality(Commands!ThisHour) /\ Cardinality(Commands!ThisHour') \in Nat
            BY <3>1, CommandsCounts, FS_Subset, FS_CardinalityType
        <3> QED
            BY <3>2, CommandsCounts, CommandsSizes DEF Commands!Once, Commands!Limits
    <2>2. CASE ~Commands!Limited
        <3>1. Commands!ThisHour' \subseteq Commands!InLastHour \cup {c}
            <4> SUFFICES ASSUME NEW d \in Commands!Commands \ {c}, Commands!Counted(d)' PROVE d \in Commands!InLastHour
                BY DEF Commands!ThisHour
            <4>1. Commands!Fresh[d] # Commands!NoRow /\ Commands!Fresh[d].since = commandsNow
                BY <1>4 DEF Commands!Counted
            <4> QED
                BY <1>1, <4>1 DEF Commands!InLastHour
        <3>2. /\ IsFiniteSet(Commands!InLastHour \cup {c})
              /\ Cardinality(Commands!InLastHour \cup {c}) <= Cardinality(Commands!InLastHour) + 1
              /\ Cardinality(Commands!InLastHour \cup {c}) \in Nat
            <4>1. IsFiniteSet(Commands!InLastHour) /\ Cardinality(Commands!InLastHour) \in Nat
                BY CommandsCounts
            <4>2. /\ IsFiniteSet(Commands!InLastHour \cup {c})
                  /\ Cardinality(Commands!InLastHour \cup {c}) =
                        IF c \in Commands!InLastHour THEN Cardinality(Commands!InLastHour)
                        ELSE Cardinality(Commands!InLastHour) + 1
                BY <4>1, FS_AddElement
            <4> HIDE DEF c
            <4> QED
                BY <4>1, <4>2
        <3>3. Cardinality(Commands!ThisHour') <= Cardinality(Commands!InLastHour \cup {c})
              /\ Cardinality(Commands!ThisHour') \in Nat
            BY <3>1, <3>2, FS_Subset, FS_CardinalityType
        <3>4. Cardinality(Commands!InLastHour) < Hourly
            BY <2>2, CommandsCounts, CommandsSizes DEF Commands!Limited, Commands!Limits
        <3> QED
            BY <3>2, <3>3, <3>4, CommandsCounts DEF Commands!Limits
    <2> QED
        BY <2>1, <2>2
<1>12. QED
    BY <1>8, <1>9, <1>10, <1>11, CommandsSizes DEF Commands!Once

\* The one request that may start a command does, and it is counted already.
LEMMA CommandsExecuteOnce ==
    ASSUME Commands!Limits, Commands!Once, Commands!TypeOK', NEW q \in CommandRequests, Commands!Execute(q)
    PROVE  Commands!Once'
<1> DEFINE c == q.command
<1>1. Commands!TypeOK /\ c \in Commands!Commands /\ Commands!RequestTrue(q) /\ Commands!CommandTrue(c)
    BY CommandsFinite DEF Commands!Once
<1>2. Commands!MayStart(q) /\ ~static[q] /\ executed[c] = 0 /\ (stored[c] # Commands!NoRow \/ Commands!Over(c))
    BY <1>1 DEF Commands!Execute, Commands!RequestTrue, Commands!MayStart
<1>3. UNCHANGED <<commandsNow, stored, static>>
    BY DEF Commands!Execute
<1>4. executed'[c] = 1 /\ \A d \in Commands!Commands \ {c} : executed'[d] = executed[d]
    BY <1>1, <1>2 DEF Commands!Execute, Commands!TypeOK
<1>5. at'[q] = "worked" /\ \A r \in CommandRequests \ {q} : at'[r] = at[r]
    BY <1>1 DEF Commands!Execute, Commands!TypeOK
<1>6. \A r \in CommandRequests \ {q} : Commands!MayStart(r) => r.command # c
    BY <1>2 DEF Commands!Once, Commands!Rival
<1>7. \A d \in Commands!Commands : Commands!CommandTrue(d)'
    BY <1>2, <1>3, <1>4 DEF Commands!Once, Commands!CommandTrue, Commands!Over
<1>8. \A r \in CommandRequests : Commands!RequestTrue(r)'
    <2> SUFFICES ASSUME NEW r \in CommandRequests PROVE Commands!RequestTrue(r)'
        OBVIOUS
    <2>1. Commands!RequestTrue(r) /\ r.command \in Commands!Commands
        BY CommandsFinite DEF Commands!Once
    <2> QED
        BY <1>3, <1>4, <1>5, <1>6, <2>1 DEF Commands!RequestTrue, Commands!MayStart, Commands!Over, Commands!StillSent
<1>9. \A r, t \in CommandRequests : Commands!Rival(r, t)' => r = t
    BY <1>5 DEF Commands!Once, Commands!Rival, Commands!MayStart
<1>10. Commands!ThisHour' \subseteq Commands!ThisHour
    <2> SUFFICES ASSUME NEW d \in Commands!Commands, Commands!Counted(d)' PROVE Commands!Counted(d)
        BY DEF Commands!ThisHour
    <2>1. CASE d = c
        BY <1>2, <1>3, <2>1 DEF Commands!Counted
    <2>2. CASE d # c
        BY <1>3, <1>4, <1>5, <2>2 DEF Commands!Counted, Commands!MayStart
    <2> QED
        BY <2>1, <2>2
<1>11. Cardinality(Commands!ThisHour') <= Cardinality(Commands!ThisHour) /\ Cardinality(Commands!ThisHour') \in Nat
    BY <1>10, CommandsCounts, FS_Subset, FS_CardinalityType
<1>12. Cardinality(Commands!ThisHour') <= Hourly
    BY <1>11, CommandsCounts, CommandsSizes DEF Commands!Once, Commands!Limits
<1>13. QED
    BY <1>7, <1>8, <1>9, <1>12, CommandsSizes DEF Commands!Once

\* In a new hour nothing has started yet.
LEMMA CommandsTickOnce == ASSUME Commands!Limits, Commands!Once, Commands!TypeOK', Commands!Tick PROVE Commands!Once'
<1>1. UNCHANGED <<stored, at, static, executed>> /\ commandsNow' = commandsNow + 1 /\ commandsNow \in Nat
    BY DEF Commands!Tick, Commands!Once, Commands!TypeOK
<1>2. \A c \in Commands!Commands : Commands!Over(c) => Commands!Over(c)'
    BY <1>1 DEF Commands!Over, Commands!Limits
<1>3. \A c \in Commands!Commands : Commands!CommandTrue(c)' /\ stored[c].since \in Nat /\ SentAt[c] \in Nat
    BY <1>1, <1>2 DEF Commands!Once, Commands!CommandTrue, Commands!TypeOK, Commands!Limits
<1>4. \A q \in CommandRequests : Commands!RequestTrue(q)'
    <2> SUFFICES ASSUME NEW q \in CommandRequests PROVE Commands!RequestTrue(q)'
        OBVIOUS
    <2>1. Commands!RequestTrue(q) /\ q.command \in Commands!Commands /\ at[q] # "slotted"
        BY CommandsFinite DEF Commands!Once, Commands!Tick
    <2> QED
        BY <1>1, <1>2, <2>1 DEF Commands!RequestTrue, Commands!MayStart
<1>5. \A q, r \in CommandRequests : Commands!Rival(q, r)' => q = r
    BY <1>1 DEF Commands!Once, Commands!Rival, Commands!MayStart
<1>6. Commands!ThisHour' = {}
    BY <1>1, <1>3 DEF Commands!ThisHour, Commands!Counted, Commands!Once, Commands!CommandTrue
<1>7. Cardinality(Commands!ThisHour') <= Hourly
    BY <1>6, FS_EmptySet DEF Commands!Limits
<1>8. QED
    BY <1>3, <1>4, <1>5, <1>7, CommandsSizes DEF Commands!Once

LEMMA CommandsOnceNext == ASSUME Commands!Limits, Commands!Once, [Commands!Next]_(Commands!commandVars) PROVE Commands!Once'
<1>1. Commands!TypeOK /\ Commands!TypeOK'
    BY CommandsTypeNext DEF Commands!Once
<1>2. CASE UNCHANGED Commands!commandVars \/ Commands!Link \/ Commands!Killed
    <2>1. UNCHANGED <<commandsNow, stored, static, executed>>
        BY <1>2 DEF Commands!commandVars, Commands!Link, Commands!Killed
    <2>2. \A q \in CommandRequests : at'[q] \in {at[q], "away"}
        BY <1>2 DEF Commands!commandVars, Commands!Link, Commands!Killed
    <2>3. \A c \in Commands!Commands : Commands!RowGoesOn(c)
        BY <2>1 DEF Commands!RowGoesOn, Commands!Once, Commands!CommandTrue
    <2> QED
        BY <1>1, <2>1, <2>2, <2>3, CommandsOnceFrame DEF Commands!Once, Commands!RequestTrue, Commands!MayStart
<1>3. QED
    BY <1>1, <1>2, CommandsQuietOnce, CommandsRecordOnce, CommandsExecuteOnce, CommandsTickOnce DEF Commands!Next

\* The inductive invariant holds in every state the program can reach.
THEOREM CommandsOnceCorrect == ASSUME Commands!Limits PROVE Commands!Spec => []Commands!Once
<1>1. Commands!Init => Commands!Once
    <2> SUFFICES ASSUME Commands!Init PROVE Commands!Once
        OBVIOUS
    <2>1. Commands!ThisHour = {}
        BY DEF Commands!Init, Commands!ThisHour, Commands!Counted
    <2>2. Cardinality(Commands!ThisHour) <= Hourly
        BY <2>1, FS_EmptySet DEF Commands!Limits
    <2> QED
        BY <2>2, CommandsTypeInit, CommandsFinite, CommandsSizes
           DEF Commands!Init, Commands!Once, Commands!RequestTrue, Commands!MayStart, Commands!Rival, Commands!CommandTrue
<1>2. Commands!Once /\ [Commands!Next]_(Commands!commandVars) => Commands!Once'
    BY CommandsOnceNext
<1>3. QED
    BY <1>1, <1>2, PTL DEF Commands!Spec

\* However often Slack delivers a command, at the same time or after a restart,
\* its work starts at most once, and no more of an owner's commands start in an
\* hour than they may send (the transaction of queue in slack_commands.py).
THEOREM CommandsExecutedOnceCorrect == ASSUME Commands!Limits PROVE Commands!Spec => []Commands!ExecutedOnce
<1>1. Commands!Once => Commands!ExecutedOnce
    <2> SUFFICES ASSUME Commands!Once PROVE Commands!ExecutedOnce
        OBVIOUS
    <2> DEFINE started == {c \in Commands!Commands : executed[c] > 0 /\ stored[c] # Commands!NoRow /\ stored[c].since = commandsNow}
    <2>1. \A c \in Commands!Commands : executed[c] <= 1
        BY DEF Commands!Once, Commands!CommandTrue, Commands!TypeOK
    <2>2. started \subseteq Commands!ThisHour
        BY DEF Commands!ThisHour, Commands!Counted
    <2>3. Cardinality(started) <= Cardinality(Commands!ThisHour) /\ Cardinality(started) \in Nat
        BY <2>2, CommandsCounts, FS_Subset, FS_CardinalityType
    <2>4. Cardinality(started) <= Hourly
        BY <2>3, CommandsCounts, CommandsSizes DEF Commands!Once, Commands!Limits
    <2> QED
        BY <2>1, <2>4, CommandsSizes DEF Commands!ExecutedOnce
<1>2. QED
    BY <1>1, CommandsOnceCorrect, PTL

-----------------------------------------------------------------------------
(* No slot is lost                                                           *)

LEMMA CommandsHoldingMoves ==
    ASSUME Commands!TypeOK, NEW q \in CommandRequests, NEW stage \in Commands!Stages, at' = [at EXCEPT ![q] = stage]
    PROVE  Commands!Holding' = IF stage = "away" THEN Commands!Holding \ {q} ELSE Commands!Holding \cup {q}
BY DEF Commands!Holding, Commands!TypeOK

\* A request that comes takes a slot; one that goes gives one back, or two when
\* the commit of a repeated delivery fails.
LEMMA CommandsSlotsNext ==
    ASSUME Commands!Limits, Commands!TypeOK, Commands!NoSlotLost, [Commands!Next]_(Commands!commandVars) PROVE Commands!NoSlotLost'
<1>1. /\ IsFiniteSet(Commands!Holding) /\ Cardinality(Commands!Holding) \in Nat
      /\ commandsFree \in Nat /\ CommandSlots \in Nat
    BY CommandsCounts DEF Commands!TypeOK, Commands!Limits
<1>2. \A q \in CommandRequests :
          /\ Cardinality(Commands!Holding \ {q}) = IF q \in Commands!Holding THEN Cardinality(Commands!Holding) - 1
                                          ELSE Cardinality(Commands!Holding)
          /\ Cardinality(Commands!Holding \cup {q}) = IF q \in Commands!Holding THEN Cardinality(Commands!Holding)
                                             ELSE Cardinality(Commands!Holding) + 1
    BY <1>1, FS_AddElement, FS_RemoveElement
<1>3. ASSUME NEW q \in CommandRequests, Commands!Arrive(q) PROVE Commands!NoSlotLost'
    <2>1. Commands!Holding' = Commands!Holding \cup {q} /\ q \notin Commands!Holding
        BY <1>3, CommandsHoldingMoves DEF Commands!Arrive, Commands!Stages, Commands!Holding
    <2>2. Cardinality(Commands!Holding') = Cardinality(Commands!Holding) + 1
        BY <1>2, <2>1
    <2> QED
        BY <1>1, <1>3, <2>2, CommandsSizes DEF Commands!Arrive, Commands!NoSlotLost
<1>4. ASSUME NEW q \in CommandRequests,
             \/ Commands!Repeated(q) \/ Commands!Refused(q) \/ Commands!RecordFails(q) \/ Commands!NotifyAndRelease(q)
      PROVE  Commands!NoSlotLost'
    <2>1. Commands!Holding' = Commands!Holding \ {q} /\ q \in Commands!Holding
        BY <1>4, CommandsHoldingMoves DEF Commands!Repeated, Commands!Refused, Commands!RecordFails, Commands!NotifyAndRelease, Commands!Stages, Commands!Holding
    <2>2. Cardinality(Commands!Holding') = Cardinality(Commands!Holding) - 1
        BY <1>2, <2>1
    <2>3. commandsFree' \in {commandsFree + 1, commandsFree + 2}
        BY <1>4 DEF Commands!Repeated, Commands!Refused, Commands!RecordFails, Commands!NotifyAndRelease, Commands!GiveBack
    <2> QED
        BY <1>1, <2>2, <2>3, CommandsSizes DEF Commands!NoSlotLost
<1>5. ASSUME NEW q \in CommandRequests, Commands!Record(q) \/ Commands!Verify(q) \/ Commands!Execute(q) \/ Commands!Save(q)
      PROVE  Commands!NoSlotLost'
    <2>1. PICK stage \in Commands!Stages \ {"away"} : at' = [at EXCEPT ![q] = stage]
        BY <1>5 DEF Commands!Record, Commands!Verify, Commands!Execute, Commands!Save, Commands!Stages
    <2>2. Commands!Holding' = Commands!Holding \cup {q} /\ q \in Commands!Holding
        BY <1>5, <2>1, CommandsHoldingMoves DEF Commands!Record, Commands!Verify, Commands!Execute, Commands!Save, Commands!Holding
    <2>3. Cardinality(Commands!Holding') = Cardinality(Commands!Holding) /\ commandsFree' = commandsFree
        BY <1>2, <1>5, <2>2 DEF Commands!Record, Commands!Verify, Commands!Execute, Commands!Save
    <2> QED
        BY <2>3, CommandsSizes DEF Commands!NoSlotLost
<1>6. CASE Commands!Killed
    <2>1. Commands!Holding' = {} /\ commandsFree' = CommandSlots
        BY <1>6 DEF Commands!Killed, Commands!Holding
    <2> QED
        BY <1>1, <2>1, FS_EmptySet, CommandsSizes DEF Commands!NoSlotLost
<1>7. CASE Commands!Tick \/ Commands!Link \/ UNCHANGED Commands!commandVars
    BY <1>7 DEF Commands!Tick, Commands!Link, Commands!commandVars, Commands!NoSlotLost, Commands!Holding
<1>8. QED
    BY <1>3, <1>4, <1>5, <1>6, <1>7 DEF Commands!Next

\* The slots that are not free are held by requests that will give them back,
\* whatever fails on the way (the releases of queue and work).
THEOREM CommandsNoSlotLostCorrect == ASSUME Commands!Limits PROVE Commands!Spec => []Commands!NoSlotLost
<1>1. Commands!Init => Commands!NoSlotLost
    <2> SUFFICES ASSUME Commands!Init PROVE Commands!NoSlotLost
        OBVIOUS
    <2>1. Commands!Holding = {} /\ commandsFree = CommandSlots /\ CommandSlots \in Nat
        BY DEF Commands!Init, Commands!Holding, Commands!Limits
    <2> QED
        BY <2>1, FS_EmptySet, CommandsSizes DEF Commands!NoSlotLost
<1>2. Commands!TypeOK /\ Commands!NoSlotLost /\ [Commands!Next]_(Commands!commandVars) => Commands!NoSlotLost'
    BY CommandsSlotsNext
<1>3. Commands!Once => Commands!TypeOK
    BY DEF Commands!Once
<1>4. QED
    BY <1>1, <1>2, <1>3, CommandsOnceCorrect, PTL DEF Commands!Spec

-----------------------------------------------------------------------------
(* Proofs, for any requests, slots, limits and lives                         *)

\* The sizes Questions counts are those of any other module.
LEMMA QuestionsSizes ==
    \A S : Asked!IsFiniteSet(S) = IsFiniteSet(S) /\ Asked!Cardinality(S) = Cardinality(S)
BY Zenon DEF Asked!IsFiniteSet, IsFiniteSet, Asked!Cardinality, Cardinality

LEMMA QuestionsRequestsTyped ==
    ASSUME Asked!Asking, NEW r \in Asked!Ids
    PROVE  /\ QuestionRequests[r].feature \in Asked!Features /\ QuestionRequests[r].key \in Asked!Keys
           /\ QuestionRequests[r].user \in Asked!Users /\ r # Asked!None
BY DEF Asked!Asking, Asked!Keys, Asked!Users

\* The requests at work with a feature, after one of them begins or ends.
LEMMA QuestionsAtWorkCounts ==
    ASSUME Asked!Asking, NEW f
    PROVE  IsFiniteSet(Asked!AtWork(f)) /\ Cardinality(Asked!AtWork(f)) \in Nat
<1>1. Asked!AtWork(f) \subseteq Asked!Ids
    BY DEF Asked!AtWork
<1>2. IsFiniteSet(Asked!AtWork(f))
    BY <1>1, FS_Subset, QuestionsSizes DEF Asked!Asking
<1>3. QED
    BY <1>2, FS_CardinalityType

LEMMA QuestionsSlotsFrame ==
    ASSUME Asked!SlotsKept, UNCHANGED questionsFree,
           \A r \in Asked!Ids : phase'[r] = "asking" <=> phase[r] = "asking"
    PROVE  Asked!SlotsKept'
<1>1. \A f \in Asked!Features : Asked!AtWork(f)' = Asked!AtWork(f)
    BY DEF Asked!AtWork
<1>2. QED
    BY <1>1 DEF Asked!SlotsKept

LEMMA QuestionsSlotTaken ==
    ASSUME Asked!Asking, Asked!TypeOK, Asked!SlotsKept, NEW r \in Asked!Ids, Asked!TakeSlot(r)
    PROVE  Asked!SlotsKept'
<1> SUFFICES ASSUME NEW f \in Asked!Features
             PROVE  questionsFree'[f] + Cardinality(Asked!AtWork(f)') = QuestionSlots
    BY QuestionsSizes DEF Asked!SlotsKept
<1>1. /\ questionsFree[f] \in Nat /\ questionsFree[f] + Cardinality(Asked!AtWork(f)) = QuestionSlots
      /\ IsFiniteSet(Asked!AtWork(f)) /\ Cardinality(Asked!AtWork(f)) \in Nat
    BY QuestionsAtWorkCounts, QuestionsSizes DEF Asked!TypeOK, Asked!SlotsKept
<1>2. phase' = [phase EXCEPT ![r] = "asking"] /\ phase[r] = "leading"
    BY DEF Asked!TakeSlot
<1>3. CASE f = QuestionRequests[r].feature
    <2>1. Asked!AtWork(f)' = Asked!AtWork(f) \cup {r} /\ r \notin Asked!AtWork(f)
        BY <1>2, <1>3 DEF Asked!AtWork, Asked!TypeOK
    <2>2. Cardinality(Asked!AtWork(f)') = Cardinality(Asked!AtWork(f)) + 1
        BY <1>1, <2>1, FS_AddElement
    <2>3. questionsFree'[f] = questionsFree[f] - 1
        BY <1>3 DEF Asked!TakeSlot, Asked!TypeOK
    <2> QED
        BY <1>1, <2>2, <2>3
<1>4. CASE f # QuestionRequests[r].feature
    <2>1. Asked!AtWork(f)' = Asked!AtWork(f)
        BY <1>2, <1>4 DEF Asked!AtWork, Asked!TypeOK
    <2>2. questionsFree'[f] = questionsFree[f]
        BY <1>4 DEF Asked!TakeSlot, Asked!TypeOK
    <2> QED
        BY <1>1, <2>1, <2>2
<1>5. QED
    BY <1>3, <1>4

LEMMA QuestionsSlotReturned ==
    ASSUME Asked!Asking, Asked!TypeOK, Asked!SlotsKept, NEW r \in Asked!Ids, phase[r] = "asking",
           phase' = [phase EXCEPT ![r] = "done"],
           questionsFree' = [questionsFree EXCEPT ![QuestionRequests[r].feature] = @ + 1]
    PROVE  Asked!SlotsKept'
<1> SUFFICES ASSUME NEW f \in Asked!Features
             PROVE  questionsFree'[f] + Cardinality(Asked!AtWork(f)') = QuestionSlots
    BY QuestionsSizes DEF Asked!SlotsKept
<1>1. /\ questionsFree[f] \in Nat /\ questionsFree[f] + Cardinality(Asked!AtWork(f)) = QuestionSlots
      /\ IsFiniteSet(Asked!AtWork(f)) /\ Cardinality(Asked!AtWork(f)) \in Nat
    BY QuestionsAtWorkCounts, QuestionsSizes DEF Asked!TypeOK, Asked!SlotsKept
<1>2. CASE f = QuestionRequests[r].feature
    <2>1. Asked!AtWork(f)' = Asked!AtWork(f) \ {r} /\ r \in Asked!AtWork(f)
        BY <1>2 DEF Asked!AtWork, Asked!TypeOK
    <2>2. Cardinality(Asked!AtWork(f)') = Cardinality(Asked!AtWork(f)) - 1
        BY <1>1, <2>1, FS_RemoveElement
    <2>3. questionsFree'[f] = questionsFree[f] + 1
        BY <1>2 DEF Asked!TypeOK
    <2> QED
        BY <1>1, <2>2, <2>3
<1>3. CASE f # QuestionRequests[r].feature
    <2>1. Asked!AtWork(f)' = Asked!AtWork(f)
        BY <1>3 DEF Asked!AtWork, Asked!TypeOK
    <2>2. questionsFree'[f] = questionsFree[f]
        BY <1>3 DEF Asked!TypeOK
    <2> QED
        BY <1>1, <2>1, <2>2
<1>4. QED
    BY <1>2, <1>3

LEMMA QuestionsSlotsNext ==
    ASSUME Asked!Asking, Asked!TypeOK, Asked!SlotsKept, [Asked!Next]_(Asked!questionVars)
    PROVE  Asked!SlotsKept'
<1>1. CASE UNCHANGED <<questionsFree, phase>>
    BY <1>1, QuestionsSlotsFrame
<1>2. ASSUME NEW r \in Asked!Ids,
             \/ Asked!Arrive(r) \/ Asked!ReadCache(r) \/ Asked!Follow(r) \/ Asked!Limit(r) \/ Asked!Lead(r)
             \/ Asked!NoSlot(r) \/ Asked!Waited(r)
      PROVE  Asked!SlotsKept'
    <2>1. /\ UNCHANGED questionsFree /\ phase[r] # "asking"
          /\ \E x \in {"looking", "done", "waiting", "leading"} : phase' = [phase EXCEPT ![r] = x]
        BY <1>2 DEF Asked!Arrive, Asked!ReadCache, Asked!Follow, Asked!Limit, Asked!Lead, Asked!NoSlot, Asked!Waited, Asked!Land, Asked!Answered
    <2>2. \A q \in Asked!Ids : phase'[q] = "asking" <=> phase[q] = "asking"
        BY <2>1 DEF Asked!TypeOK
    <2> QED
        BY <2>1, <2>2, QuestionsSlotsFrame
<1>3. ASSUME NEW r \in Asked!Ids, Asked!Ask(r) \/ Asked!Join(r) \/ Asked!Fail(r) \/ Asked!Escape(r) PROVE Asked!SlotsKept'
    <2>1. /\ phase[r] = "asking" /\ phase' = [phase EXCEPT ![r] = "done"]
          /\ questionsFree' = [questionsFree EXCEPT ![QuestionRequests[r].feature] = @ + 1]
        BY <1>3 DEF Asked!Ask, Asked!Join, Asked!Fail, Asked!Escape, Asked!Land, Asked!Answered, Asked!SlotBack
    <2> QED
        BY <2>1, QuestionsSlotReturned
<1>4. ASSUME NEW r \in Asked!Ids, Asked!Show(r) \/ Asked!Retry(r) PROVE UNCHANGED <<questionsFree, phase>>
    BY <1>4 DEF Asked!Show, Asked!Retry
<1>5. CASE Asked!ClearCache \/ Asked!Tick \/ UNCHANGED Asked!questionVars
    BY <1>1, <1>5 DEF Asked!ClearCache, Asked!Tick, Asked!questionVars
<1>6. QED
    BY <1>1, <1>2, <1>3, <1>4, <1>5, QuestionsSlotTaken DEF Asked!Next

-----------------------------------------------------------------------------
LEMMA QuestionsLookTyped ==
    ASSUME Asked!Asking, Asked!TypeOK, NEW r \in Asked!Ids,
           \/ Asked!Arrive(r) \/ Asked!ReadCache(r) \/ Asked!Follow(r) \/ Asked!Limit(r) \/ Asked!Lead(r)
           \/ Asked!TakeSlot(r) \/ Asked!Show(r) \/ Asked!Retry(r) \/ Asked!Waited(r)
    PROVE  Asked!TypeOK'
<1>1. /\ QuestionRequests[r].feature \in Asked!Features /\ QuestionRequests[r].key \in Asked!Keys
      /\ QuestionRequests[r].user \in Asked!Users
    BY QuestionsRequestsTyped
<1>2. Asked!CacheOf(r) \in [result : Asked!Results, until : Nat] /\ Asked!CacheOf(r).result \in Asked!Results
    BY <1>1 DEF Asked!CacheOf, Asked!TypeOK
<1>3. CASE Asked!Arrive(r) \/ Asked!Follow(r) \/ Asked!Show(r) \/ Asked!Retry(r)
    <2>1. CASE Asked!Arrive(r) \/ Asked!Follow(r)
        <3>1. phase' \in [Asked!Ids -> Asked!Phases]
            BY <2>1 DEF Asked!Arrive, Asked!Follow, Asked!TypeOK, Asked!Phases
        <3> QED
            BY <2>1, <3>1 DEF Asked!Arrive, Asked!Follow, Asked!TypeOK
    <2>2. CASE Asked!Show(r)
        BY <2>2 DEF Asked!Show, Asked!TypeOK
    <2>3. CASE Asked!Retry(r)
        BY <2>3 DEF Asked!Retry, Asked!TypeOK
    <2> QED
        BY <1>3, <2>1, <2>2, <2>3
<1>4. CASE Asked!ReadCache(r) \/ Asked!Limit(r) \/ Asked!Waited(r)
    BY <1>2, <1>4 DEF Asked!ReadCache, Asked!Limit, Asked!Waited, Asked!Answered, Asked!TypeOK, Asked!Phases, Asked!Results
<1>5. CASE Asked!Lead(r)
    <2>1. inflight' \in [Asked!Features -> [Asked!Keys -> Asked!Ids \cup {Asked!None}]]
        BY <1>1, <1>5 DEF Asked!Lead, Asked!TypeOK
    <2>2. asked' \in [Asked!Features -> [Asked!Users -> Nat]]
        BY <1>1, <1>5 DEF Asked!Lead, Asked!TypeOK
    <2> QED
        BY <1>5, <2>1, <2>2 DEF Asked!Lead, Asked!TypeOK, Asked!Phases
<1>6. CASE Asked!TakeSlot(r)
    <2>1. questionsFree[QuestionRequests[r].feature] - 1 \in Nat
        BY <1>1, <1>6 DEF Asked!TakeSlot, Asked!TypeOK
    <2> QED
        BY <1>1, <1>6, <2>1 DEF Asked!TakeSlot, Asked!TypeOK, Asked!Phases
<1>7. QED
    BY <1>3, <1>4, <1>5, <1>6

LEMMA QuestionsLandTyped ==
    ASSUME Asked!Asking, Asked!TypeOK, NEW r \in Asked!Ids, NEW result \in {"ok", "busy", "unavailable"},
           Asked!Land(r, result)
    PROVE  /\ questionsCache' \in [Asked!Features -> [Asked!Keys -> [result : Asked!Results, until : Nat]]]
           /\ inflight' \in [Asked!Features -> [Asked!Keys -> Asked!Ids \cup {Asked!None}]]
           /\ phase' \in [Asked!Ids -> Asked!Phases] /\ reply' \in [Asked!Ids -> Asked!Results]
<1>1. QuestionRequests[r].feature \in Asked!Features /\ QuestionRequests[r].key \in Asked!Keys
    BY QuestionsRequestsTyped
<1>2. questionsNow + OkLife \in Nat /\ questionsNow + FailureLife \in Nat
    BY DEF Asked!Asking, Asked!TypeOK
<1>3. Asked!Kept(result) \in [result : Asked!Results, until : Nat]
    BY <1>2 DEF Asked!Kept, Asked!Results
<1>4. QED
    BY <1>1, <1>3 DEF Asked!Land, Asked!Answered, Asked!TypeOK, Asked!Phases, Asked!Results

LEMMA QuestionsEndTyped ==
    ASSUME Asked!Asking, Asked!TypeOK, NEW r \in Asked!Ids,
           Asked!NoSlot(r) \/ Asked!Ask(r) \/ Asked!Join(r) \/ Asked!Fail(r) \/ Asked!Escape(r)
    PROVE  Asked!TypeOK'
<1>1. QuestionRequests[r].feature \in Asked!Features /\ QuestionRequests[r].key \in Asked!Keys
    BY QuestionsRequestsTyped
<1>2. [questionsFree EXCEPT ![QuestionRequests[r].feature] = @ + 1] \in [Asked!Features -> Nat]
    BY <1>1 DEF Asked!TypeOK
<1>3. CASE Asked!NoSlot(r)
    BY <1>3, QuestionsLandTyped DEF Asked!NoSlot, Asked!TypeOK
<1>4. CASE Asked!Join(r)
    BY <1>2, <1>4, QuestionsLandTyped DEF Asked!Join, Asked!SlotBack, Asked!TypeOK
<1>5. CASE Asked!Fail(r)
    BY <1>2, <1>5, QuestionsLandTyped DEF Asked!Fail, Asked!SlotBack, Asked!TypeOK
<1>6. CASE Asked!Escape(r)
    BY <1>2, <1>6 DEF Asked!Escape, Asked!SlotBack, Asked!Answered, Asked!TypeOK, Asked!Phases, Asked!Results
<1>7. CASE Asked!Ask(r)
    <2>1. [feature |-> QuestionRequests[r].feature, key |-> QuestionRequests[r].key, leader |-> r, at |-> questionsNow] \in Asked!Calls
        BY <1>1, <1>7 DEF Asked!Ask, Asked!IsDraft, Asked!Calls, Asked!TypeOK
    <2>2. calls' \subseteq Asked!Calls
        BY <1>7, <2>1 DEF Asked!Ask, Asked!TypeOK
    <2> QED
        BY <1>2, <1>7, <2>2, QuestionsLandTyped DEF Asked!Ask, Asked!SlotBack, Asked!TypeOK
<1>8. QED
    BY <1>3, <1>4, <1>5, <1>6, <1>7

LEMMA QuestionsTypeNext == ASSUME Asked!Asking, Asked!TypeOK, [Asked!Next]_(Asked!questionVars) PROVE Asked!TypeOK'
<1>1. CASE Asked!ClearCache
    <2>1. Asked!NoAnswer \in [result : Asked!Results, until : Nat]
        BY DEF Asked!NoAnswer, Asked!Results
    <2>2. [k \in Asked!Keys |-> Asked!NoAnswer] \in [Asked!Keys -> [result : Asked!Results, until : Nat]]
        BY <2>1
    <2>3. questionsCache' \in [Asked!Features -> [Asked!Keys -> [result : Asked!Results, until : Nat]]]
        BY <1>1, <2>2 DEF Asked!ClearCache, Asked!TypeOK
    <2>4. calls' \subseteq Asked!Calls /\ failures' \in Nat
        BY <1>1 DEF Asked!ClearCache, Asked!TypeOK
    <2> QED
        BY <1>1, <2>3, <2>4 DEF Asked!ClearCache, Asked!TypeOK
<1>2. CASE Asked!Tick \/ UNCHANGED Asked!questionVars
    BY <1>2 DEF Asked!Tick, Asked!questionVars, Asked!TypeOK
<1>3. QED
    BY <1>1, <1>2, QuestionsLookTyped, QuestionsEndTyped DEF Asked!Next

-----------------------------------------------------------------------------
\* Where only the requests that look, wait and are done move, who is at work
\* and what was asked stay as they are.
LEMMA QuestionsAnsweringFrame ==
    ASSUME Asked!Asking, Asked!Answering, Asked!TypeOK', Asked!SlotsKept', UNCHANGED <<questionsCache, inflight, calls>>,
           questionsNow' >= questionsNow, \A r \in Asked!Ids : Asked!AtIt(r)' => Asked!AtIt(r)
    PROVE  Asked!Answering'
<1>1. questionsNow \in Nat /\ questionsNow' \in Nat /\ OkLife \in Nat
      /\ \A c \in calls : c.at \in Nat
    BY DEF Asked!Answering, Asked!TypeOK, Asked!Asking, Asked!Calls
<1>2. \A r \in Asked!Ids : Asked!LeadsAlone(r)'
    BY <1>1 DEF Asked!Answering, Asked!LeadsAlone, Asked!LeaderOf, Asked!About
<1>3. \A c \in calls : Asked!CallKept(c)'
    BY <1>1 DEF Asked!Answering, Asked!CallKept
<1>4. QED
    BY <1>2, <1>3 DEF Asked!Answering, Asked!AskedOnce

LEMMA QuestionsLeadAlone ==
    ASSUME Asked!Asking, Asked!Answering, Asked!TypeOK', Asked!SlotsKept', NEW r \in Asked!Ids, Asked!Lead(r)
    PROVE  Asked!Answering'
<1>1. /\ questionsNow \in Nat /\ OkLife \in Nat /\ \A c \in calls : c.at \in Nat
      /\ QuestionRequests[r].feature \in Asked!Features /\ QuestionRequests[r].key \in Asked!Keys /\ r # Asked!None
      /\ Asked!None \notin Asked!Ids /\ Asked!CacheOf(r).until \in Nat
    BY QuestionsRequestsTyped DEF Asked!Answering, Asked!TypeOK, Asked!Asking, Asked!Calls, Asked!CacheOf
<1>2. UNCHANGED <<questionsNow, questionsCache, calls>> /\ phase' = [phase EXCEPT ![r] = "leading"]
    BY DEF Asked!Lead
<1>3. \A c \in calls : Asked!About(c, r) => c.at + OkLife <= questionsNow
    <2> SUFFICES ASSUME NEW c \in calls, Asked!About(c, r) PROVE c.at + OkLife <= questionsNow
        OBVIOUS
    <2>1. Asked!CallKept(c) /\ Asked!CacheOf(r) = questionsCache[c.feature][c.key]
        BY DEF Asked!Answering, Asked!About, Asked!CacheOf
    <2>2. ~(Asked!CacheOf(r).until > questionsNow)
        BY DEF Asked!Lead, Asked!FreshFor
    <2> QED
        BY <1>1, <2>1, <2>2 DEF Asked!CallKept
<1>4. ASSUME NEW q \in Asked!Ids, Asked!AtIt(q)'
      PROVE  Asked!LeaderOf(q)' = q /\ \A c \in calls : Asked!About(c, q) => c.at + OkLife <= questionsNow
    <2>1. CASE q = r
        <3>1. Asked!LeaderOf(r)' = r
            BY <1>1, <1>4, <2>1 DEF Asked!Lead, Asked!LeaderOf, Asked!AtIt, Asked!IsDraft, Asked!Answering, Asked!TypeOK
        <3> QED
            BY <1>3, <2>1, <3>1
    <2>2. CASE q # r
        <3>1. Asked!AtIt(q) /\ Asked!LeadsAlone(q) /\ QuestionRequests[q].feature \in Asked!Features /\ QuestionRequests[q].key \in Asked!Keys
            BY <1>2, <1>4, <2>2, QuestionsRequestsTyped DEF Asked!AtIt, Asked!Answering, Asked!TypeOK
        <3>2. Asked!LeaderOf(q) = q
            BY <3>1 DEF Asked!LeadsAlone
        <3>3. Asked!LeaderOf(q)' = Asked!LeaderOf(q)
            <4>1. CASE Asked!IsDraft(r)
                BY <4>1 DEF Asked!Lead, Asked!LeaderOf
            <4>2. CASE ~Asked!IsDraft(r)
                <5>1. Asked!LeaderOf(r) = Asked!None
                    BY <4>2 DEF Asked!Lead, Asked!Led
                <5>2. QuestionRequests[q].feature # QuestionRequests[r].feature \/ QuestionRequests[q].key # QuestionRequests[r].key
                    BY <1>1, <3>2, <5>1 DEF Asked!LeaderOf
                <5>3. inflight' = [inflight EXCEPT ![QuestionRequests[r].feature][QuestionRequests[r].key] = r]
                    BY <4>2 DEF Asked!Lead
                <5> QED
                    BY <1>1, <3>1, <5>2, <5>3 DEF Asked!LeaderOf, Asked!Answering, Asked!TypeOK
            <4> QED
                BY <4>1, <4>2
        <3> QED
            BY <3>1, <3>2, <3>3 DEF Asked!LeadsAlone
    <2> QED
        BY <2>1, <2>2
<1>5. \A q \in Asked!Ids : Asked!LeadsAlone(q)'
    BY <1>2, <1>4 DEF Asked!LeadsAlone, Asked!About
<1>6. \A c \in calls' : Asked!CallKept(c)'
    BY <1>2 DEF Asked!Answering, Asked!CallKept
<1>7. QED
    BY <1>2, <1>5, <1>6 DEF Asked!Answering, Asked!AskedOnce

\* A request that lands leaves the others of its feature alone, and overwrites no
\* answer that has not run out.
LEMMA QuestionsLandKeeps ==
    ASSUME Asked!Asking, Asked!Answering, NEW r \in Asked!Ids, phase[r] \in {"leading", "asking"},
           NEW result \in {"ok", "busy", "unavailable"}, Asked!Land(r, result), UNCHANGED questionsNow
    PROVE  /\ ~Asked!AtIt(r)'
           /\ \A q \in Asked!Ids \ {r} :
                  Asked!AtIt(q)' =>
                      /\ Asked!AtIt(q) /\ Asked!LeaderOf(q)' = q
                      /\ Asked!AtIt(r) => <<QuestionRequests[q].feature, QuestionRequests[q].key>>
                                        # <<QuestionRequests[r].feature, QuestionRequests[r].key>>
           /\ \A c \in calls : Asked!CallKept(c)'
<1>1. /\ questionsNow \in Nat /\ OkLife \in Nat /\ FailureLife \in Nat
      /\ QuestionRequests[r].feature \in Asked!Features /\ QuestionRequests[r].key \in Asked!Keys
      /\ \A c \in calls : c.at \in Nat /\ c.feature \in Asked!Features /\ c.feature # "draft" /\ c.key \in Asked!Keys
      /\ Asked!TypeOK
    BY QuestionsRequestsTyped DEF Asked!Answering, Asked!TypeOK, Asked!Asking, Asked!Calls
<1>2. phase' = [phase EXCEPT ![r] = "done"]
    BY DEF Asked!Land, Asked!Answered
<1>3. ~Asked!AtIt(r)'
    BY <1>1, <1>2 DEF Asked!AtIt, Asked!TypeOK
<1>4. ASSUME NEW q \in Asked!Ids \ {r}, Asked!AtIt(q)'
      PROVE  /\ Asked!AtIt(q) /\ Asked!LeaderOf(q)' = q
             /\ Asked!AtIt(r) => ~(QuestionRequests[q].feature = QuestionRequests[r].feature /\ QuestionRequests[q].key = QuestionRequests[r].key)
    <2>1. Asked!AtIt(q) /\ Asked!LeaderOf(q) = q /\ QuestionRequests[q].feature \in Asked!Features /\ QuestionRequests[q].key \in Asked!Keys
        BY <1>1, <1>2, <1>4, QuestionsRequestsTyped DEF Asked!AtIt, Asked!TypeOK, Asked!Answering, Asked!LeadsAlone
    <2>2. CASE Asked!IsDraft(r)
        BY <2>1, <2>2 DEF Asked!Land, Asked!LeaderOf, Asked!AtIt
    <2>3. CASE ~Asked!IsDraft(r)
        <3>1. Asked!LeaderOf(r) = r
            BY <2>3 DEF Asked!Answering, Asked!LeadsAlone, Asked!AtIt
        <3>2. ~(QuestionRequests[q].feature = QuestionRequests[r].feature /\ QuestionRequests[q].key = QuestionRequests[r].key)
            BY <2>1, <3>1 DEF Asked!LeaderOf
        <3>3. inflight' = [inflight EXCEPT ![QuestionRequests[r].feature][QuestionRequests[r].key] = Asked!None]
            BY <2>3 DEF Asked!Land
        <3>4. Asked!LeaderOf(q)' = Asked!LeaderOf(q)
            BY <1>1, <2>1, <3>2, <3>3 DEF Asked!LeaderOf, Asked!TypeOK
        <3> QED
            BY <2>1, <3>2, <3>4
    <2> QED
        BY <2>2, <2>3
<1>5. ASSUME NEW c \in calls PROVE Asked!CallKept(c)'
    <2>1. Asked!CallKept(c)
        BY DEF Asked!Answering
    <2>2. CASE questionsCache'[c.feature][c.key] = questionsCache[c.feature][c.key]
        BY <2>1, <2>2 DEF Asked!CallKept
    <2>3. CASE questionsCache'[c.feature][c.key] # questionsCache[c.feature][c.key]
        <3>1. questionsCache' = [questionsCache EXCEPT ![QuestionRequests[r].feature][QuestionRequests[r].key] = Asked!Kept(result)]
            BY <2>3 DEF Asked!Land
        <3>2. Asked!About(c, r)
            BY <1>1, <2>3, <3>1 DEF Asked!About, Asked!TypeOK
        <3>3. questionsCache'[c.feature][c.key] = Asked!Kept(result)
            BY <1>1, <3>1, <3>2 DEF Asked!About, Asked!TypeOK
        <3>4. c.at + OkLife <= questionsNow
            BY <1>1, <3>2 DEF Asked!About, Asked!Answering, Asked!LeadsAlone, Asked!AtIt, Asked!IsDraft
        <3>5. Asked!Kept(result).until >= questionsNow /\ Asked!Kept(result).until \in Nat
            BY <1>1 DEF Asked!Kept
        <3> QED
            BY <1>1, <2>1, <3>3, <3>4, <3>5 DEF Asked!CallKept
    <2> QED
        BY <2>2, <2>3
<1>6. QED
    BY <1>3, <1>4, <1>5

LEMMA QuestionsLandAnswering ==
    ASSUME Asked!Asking, Asked!Answering, Asked!TypeOK', Asked!SlotsKept', NEW r \in Asked!Ids,
           Asked!NoSlot(r) \/ Asked!Join(r) \/ Asked!Fail(r)
    PROVE  Asked!Answering'
<1>1. /\ phase[r] \in {"leading", "asking"} /\ UNCHANGED <<questionsNow, calls>>
      /\ \E result \in {"ok", "busy", "unavailable"} : Asked!Land(r, result)
    BY DEF Asked!NoSlot, Asked!Join, Asked!Fail
<1>2. /\ ~Asked!AtIt(r)' /\ \A q \in Asked!Ids \ {r} : Asked!AtIt(q)' => Asked!AtIt(q) /\ Asked!LeaderOf(q)' = q
      /\ \A c \in calls : Asked!CallKept(c)'
    BY <1>1, QuestionsLandKeeps
<1>3. \A q \in Asked!Ids : Asked!LeadsAlone(q)'
    BY <1>1, <1>2 DEF Asked!Answering, Asked!LeadsAlone, Asked!About
<1>4. QED
    BY <1>1, <1>2, <1>3 DEF Asked!Answering, Asked!AskedOnce

\* The model answers the leader, and nobody else was at work on the key.
LEMMA QuestionsAskAnswering ==
    ASSUME Asked!Asking, Asked!Answering, Asked!TypeOK', Asked!SlotsKept', NEW r \in Asked!Ids, Asked!Ask(r)
    PROVE  Asked!Answering'
<1> DEFINE new == [feature |-> QuestionRequests[r].feature, key |-> QuestionRequests[r].key, leader |-> r, at |-> questionsNow]
<1>1. /\ phase[r] = "asking" /\ ~Asked!IsDraft(r) /\ questionsNow' = questionsNow /\ Asked!Land(r, "ok")
      /\ calls' = calls \cup {new} /\ Asked!AtIt(r)
    BY DEF Asked!Ask, Asked!AtIt
<1>2. /\ new.feature = QuestionRequests[r].feature /\ new.key = QuestionRequests[r].key /\ new.at = questionsNow
      /\ Asked!About(new, r)
    BY DEF Asked!About
<1> HIDE DEF new
<1>3. /\ questionsNow \in Nat /\ OkLife \in Nat /\ Asked!TypeOK
      /\ \A c \in calls : c.at \in Nat /\ c.at <= questionsNow
      /\ QuestionRequests[r].feature \in Asked!Features /\ QuestionRequests[r].key \in Asked!Keys
    BY QuestionsRequestsTyped DEF Asked!Answering, Asked!TypeOK, Asked!Asking, Asked!Calls, Asked!CallKept
<1>4. /\ ~Asked!AtIt(r)'
      /\ \A q \in Asked!Ids \ {r} :
             Asked!AtIt(q)' =>
                 /\ Asked!AtIt(q) /\ Asked!LeaderOf(q)' = q
                 /\ <<QuestionRequests[q].feature, QuestionRequests[q].key>>
                        # <<QuestionRequests[r].feature, QuestionRequests[r].key>>
      /\ \A c \in calls : Asked!CallKept(c)'
    BY <1>1, QuestionsLandKeeps
<1>5. \A q \in Asked!Ids : Asked!LeadsAlone(q)'
    <2> SUFFICES ASSUME NEW q \in Asked!Ids, Asked!AtIt(q)'
                 PROVE  Asked!LeaderOf(q)' = q /\ \A c \in calls' : Asked!About(c, q) => c.at + OkLife <= questionsNow'
        BY DEF Asked!LeadsAlone, Asked!About
    <2>1. q # r /\ Asked!AtIt(q) /\ Asked!LeaderOf(q)' = q /\ ~Asked!About(new, q)
        BY <1>2, <1>4 DEF Asked!About
    <2>2. \A c \in calls : Asked!About(c, q) => c.at + OkLife <= questionsNow
        BY <2>1 DEF Asked!Answering, Asked!LeadsAlone
    <2> QED
        BY <1>1, <2>1, <2>2
<1>6. questionsCache'[new.feature][new.key].until >= new.at + OkLife /\ new.at <= questionsNow'
    <2>1. questionsCache' = [questionsCache EXCEPT ![QuestionRequests[r].feature][QuestionRequests[r].key] = Asked!Kept("ok")]
        BY <1>1, <1>3 DEF Asked!Land, Asked!Caches, Asked!IsDraft, Asked!Features
    <2>2. questionsCache'[new.feature][new.key] = Asked!Kept("ok")
        BY <1>2, <1>3, <2>1 DEF Asked!TypeOK
    <2>3. Asked!Kept("ok").until = questionsNow + OkLife
        BY DEF Asked!Kept
    <2> QED
        BY <1>1, <1>2, <1>3, <2>2, <2>3
<1>7. Asked!AskedOnce'
    <2>1. \A c \in calls : (c.feature = new.feature /\ c.key = new.key) => c.at + OkLife <= questionsNow
        BY <1>1, <1>2 DEF Asked!Answering, Asked!LeadsAlone, Asked!About
    <2> SUFFICES ASSUME NEW c \in calls \cup {new}, NEW d \in calls \cup {new}, c # d,
                        c.feature = d.feature, c.key = d.key, c.at <= d.at
                 PROVE  c.at + OkLife <= d.at
        BY <1>1 DEF Asked!AskedOnce
    <2>2. CASE c \in calls /\ d \in calls
        BY <2>2 DEF Asked!Answering, Asked!AskedOnce
    <2>3. CASE c \in calls /\ d = new
        BY <1>2, <2>1, <2>3
    <2>4. CASE c = new /\ d \in calls
        <3>1. d.at + OkLife <= questionsNow /\ d.at \in Nat /\ c.at = questionsNow
            BY <1>2, <1>3, <2>1, <2>4
        <3> QED
            BY <1>3, <3>1
    <2> QED
        BY <2>2, <2>3, <2>4
<1>8. \A c \in calls' : Asked!CallKept(c)'
    BY <1>1, <1>4, <1>6 DEF Asked!CallKept
<1>9. QED
    BY <1>5, <1>7, <1>8 DEF Asked!Answering

LEMMA QuestionsClearAnswering ==
    ASSUME Asked!Asking, Asked!Answering, Asked!TypeOK', Asked!SlotsKept', Asked!ClearCache
    PROVE  Asked!Answering'
<1>1. UNCHANGED <<questionsNow, inflight, phase>> /\ calls' = {c \in calls : c.feature # "wdyt"}
    BY DEF Asked!ClearCache
<1>2. \A c \in calls' : questionsCache'[c.feature] = questionsCache[c.feature]
    BY <1>1 DEF Asked!ClearCache, Asked!Answering, Asked!TypeOK, Asked!Calls
<1>3. \A r \in Asked!Ids : Asked!LeadsAlone(r)'
    BY <1>1 DEF Asked!Answering, Asked!LeadsAlone, Asked!AtIt, Asked!LeaderOf, Asked!About
<1>4. \A c \in calls' : Asked!CallKept(c)'
    BY <1>1, <1>2 DEF Asked!Answering, Asked!CallKept
<1>5. QED
    BY <1>1, <1>3, <1>4 DEF Asked!Answering, Asked!AskedOnce

LEMMA QuestionsAnsweringNext == ASSUME Asked!Asking, Asked!Answering, [Asked!Next]_(Asked!questionVars) PROVE Asked!Answering'
<1>1. Asked!TypeOK /\ Asked!SlotsKept /\ Asked!TypeOK' /\ Asked!SlotsKept' /\ questionsNow \in Nat
    BY QuestionsTypeNext, QuestionsSlotsNext DEF Asked!Answering, Asked!TypeOK
<1>2. ASSUME NEW r \in Asked!Ids,
             \/ Asked!Arrive(r) \/ Asked!ReadCache(r) \/ Asked!Follow(r) \/ Asked!Limit(r) \/ Asked!TakeSlot(r)
             \/ Asked!Show(r) \/ Asked!Retry(r) \/ Asked!Escape(r) \/ Asked!Waited(r)
      PROVE  Asked!Answering'
    <2>1. UNCHANGED <<questionsNow, questionsCache, inflight, calls>>
        BY <1>2 DEF Asked!Arrive, Asked!ReadCache, Asked!Follow, Asked!Limit, Asked!TakeSlot, Asked!Show, Asked!Retry, Asked!Escape, Asked!Waited
    <2>2. \A q \in Asked!Ids : Asked!AtIt(q)' => Asked!AtIt(q)
        <3>1. \/ UNCHANGED phase
              \/ \E x \in {"looking", "done", "waiting"} : phase' = [phase EXCEPT ![r] = x]
              \/ phase[r] = "leading" /\ phase' = [phase EXCEPT ![r] = "asking"]
            BY <1>2 DEF Asked!Arrive, Asked!ReadCache, Asked!Follow, Asked!Limit, Asked!TakeSlot, Asked!Show, Asked!Retry, Asked!Escape, Asked!Waited, Asked!Answered
        <3> QED
            BY <1>1, <3>1 DEF Asked!AtIt, Asked!IsDraft, Asked!TypeOK
    <2> QED
        BY <1>1, <2>1, <2>2, QuestionsAnsweringFrame
<1>3. CASE Asked!Tick \/ UNCHANGED Asked!questionVars
    <2>1. UNCHANGED <<questionsCache, inflight, calls, phase>> /\ questionsNow' >= questionsNow
        BY <1>1, <1>3 DEF Asked!Tick, Asked!questionVars
    <2>2. \A q \in Asked!Ids : Asked!AtIt(q)' => Asked!AtIt(q)
        BY <2>1 DEF Asked!AtIt, Asked!IsDraft
    <2> QED
        BY <1>1, <2>1, <2>2, QuestionsAnsweringFrame
<1>4. QED
    BY <1>1, <1>2, <1>3, QuestionsLeadAlone, QuestionsLandAnswering, QuestionsAskAnswering, QuestionsClearAnswering DEF Asked!Next

\* The inductive invariant holds in every state the program can reach.
THEOREM QuestionsAnsweringCorrect == ASSUME Asked!Asking PROVE Asked!Spec => []Asked!Answering
<1>1. ASSUME Asked!Init PROVE Asked!Answering
    <2>1. Asked!TypeOK
        BY <1>1 DEF Asked!Init, Asked!TypeOK, Asked!Asking, Asked!NoAnswer, Asked!Results, Asked!Phases
    <2>2. \A f \in Asked!Features : Asked!AtWork(f) = {} /\ questionsFree[f] = QuestionSlots
        BY <1>1 DEF Asked!Init, Asked!AtWork
    <2>3. Asked!SlotsKept
        BY <2>2, FS_EmptySet, QuestionsSizes DEF Asked!SlotsKept, Asked!Asking
    <2> QED
        BY <1>1, <2>1, <2>3 DEF Asked!Init, Asked!Answering, Asked!LeadsAlone, Asked!AtIt, Asked!AskedOnce
<1>2. Asked!Answering /\ [Asked!Next]_(Asked!questionVars) => Asked!Answering'
    BY QuestionsAnsweringNext
<1>3. QED
    BY <1>1, <1>2, PTL DEF Asked!Spec

-----------------------------------------------------------------------------
(* Least and greatest numbers                                                *)

\* A set of numbers has a least, and up to a bound a greatest.
LEMMA Least ==
    ASSUME NEW S \in SUBSET Nat, S # {}
    PROVE  \E m \in S : \A y \in S : m <= y
<1>1. PICK m \in S : \A k \in S : <<k, m>> \notin OpToRel(<, Nat)
    BY NatLessThanWellFounded, WFMin, Zenon
<1>2. \A k \in S : ~(k < m)
    BY <1>1, Zenon DEF OpToRel
<1>3. QED
    BY <1>2

LEMMA Greatest ==
    ASSUME NEW n \in Nat, NEW S \in SUBSET (0 .. n), S # {}
    PROVE  \E m \in S : \A y \in S : m >= y
<1> DEFINE T == {n - x : x \in S}
<1>1. \A x \in S : x \in Nat /\ n - x \in Nat
    OBVIOUS
<1>2. T \in SUBSET Nat /\ T # {} /\ \A y \in S : n - y \in T
    BY <1>1
<1>3. PICK m \in T : \A k \in T : m <= k
    BY <1>2, Least
<1>4. PICK x \in S : m = n - x
    BY <1>3
<1>5. \A y \in S : n - x <= n - y
    BY <1>2, <1>3, <1>4
<1>6. QED
    BY <1>1, <1>5

-----------------------------------------------------------------------------
(* Shared reads, for any requests, ages and build times                      *)

\* Builds of different requests differ, and so do the two kinds.
LEMMA SharedBuilds ==
    \A q, p :
        /\ Shared!Own(q) # Shared!NoBuild /\ Shared!Background(q) # Shared!NoBuild
        /\ Shared!Own(q) # Shared!Background(p)
        /\ Shared!Own(q) = Shared!Own(p) => q = p
        /\ Shared!Background(q) = Shared!Background(p) => q = p
<1> TAKE q, p
<1>1. /\ Shared!Own(q).kind = "own" /\ Shared!Background(q).kind = "refresh"
      /\ Shared!Own(q).of = {q} /\ Shared!Background(q).of = {q}
      /\ Shared!Own(p).of = {p} /\ Shared!Background(p).of = {p}
      /\ Shared!Background(p).kind = "refresh" /\ Shared!NoBuild.kind = "none"
    BY DEF Shared!Own, Shared!Background, Shared!NoBuild
<1>2. QED
    BY <1>1

LEMMA SharedInitServed == Shared!Init => Shared!Served
BY DEF Shared!Init, Shared!Served, Shared!TypeOK, Shared!OneEach, Shared!InOrder, Shared!Times,
       Shared!NoValue, Shared!Never, Shared!ToldBefore, Shared!AnswersInOrder

\* Of what was answered there is a newest.
LEMMA SharedNewest ==
    ASSUME Shared!TypeOK, Shared!Served, NEW q \in SharedRequests
    PROVE  (CHOOSE n \in {sharedAnswer[p] : p \in SharedRequests} : \A p \in SharedRequests : sharedAnswer[p] <= n)
             \in {sharedAnswer[p] : p \in SharedRequests}
<1> SUFFICES \E n \in {sharedAnswer[p] : p \in SharedRequests} : \A p \in SharedRequests : sharedAnswer[p] <= n
    OBVIOUS
<1> DEFINE S == {sharedAnswer[p] + 1 : p \in SharedRequests}
<1>1. sharedClock + 1 \in Nat /\ \A p \in SharedRequests : sharedAnswer[p] \in Int
    BY DEF Shared!TypeOK, Shared!Times, Shared!Never
<1>2. \A p \in SharedRequests : sharedAnswer[p] + 1 \in 0 .. sharedClock + 1
    BY DEF Shared!TypeOK, Shared!Times, Shared!Served, Shared!InOrder, Shared!ToldBefore, Shared!Never
<1>3. S \in SUBSET (0 .. sharedClock + 1) /\ S # {}
    BY <1>2
<1> HIDE DEF S
<1>4. PICK m \in S : \A y \in S : m >= y
    BY <1>1, <1>3, Greatest
<1> USE DEF S
<1>5. PICK p \in SharedRequests : m = sharedAnswer[p] + 1
    BY <1>4
<1>6. ASSUME NEW r \in SharedRequests PROVE sharedAnswer[r] <= sharedAnswer[p]
    <2>1. sharedAnswer[r] + 1 <= sharedAnswer[p] + 1
        BY <1>4, <1>5
    <2> QED
        BY <1>1, <2>1
<1>7. QED
    BY <1>6

\* Finite sets and their sizes are the same in the instance.
LEMMA SharedSizes ==
    \A S : Shared!IsFiniteSet(S) = IsFiniteSet(S) /\ Shared!Cardinality(S) = Cardinality(S)
BY Zenon DEF IsFiniteSet, Cardinality, Shared!IsFiniteSet, Shared!Cardinality

\* Every step keeps the types.
LEMMA SharedTyped ==
    ASSUME Shared!Served, Shared!Next
    PROVE  Shared!TypeOK'
<1> USE DEF Shared!TypeOK, Shared!Times
<1>0. Shared!TypeOK /\ Shared!NoValue \in [stored : Shared!Times, read : Shared!Times, marked : BOOLEAN]
    BY DEF Shared!Served, Shared!NoValue, Shared!Never
<1>1. ASSUME NEW q \in SharedRequests, Shared!Call(q) PROVE Shared!TypeOK'
    <2>2. (CHOOSE n \in {sharedAnswer[p] : p \in SharedRequests} : \A p \in SharedRequests : sharedAnswer[p] <= n)
             \in {sharedAnswer[p] : p \in SharedRequests}
        BY <1>0, SharedNewest
    <2>3. \A n \in {sharedAnswer[p] : p \in SharedRequests} : n \in Shared!Times
        BY <1>0
    <2> QED
        BY <1>0, <1>1, <2>2, <2>3 DEF Shared!Call
<1>2. ASSUME NEW q \in SharedRequests, Shared!Hit(q) PROVE Shared!TypeOK'
    BY <1>0, <1>2 DEF Shared!Hit, Shared!Answered, Shared!Started
<1>3. ASSUME NEW q \in SharedRequests, Shared!Miss(q) PROVE Shared!TypeOK'
    BY <1>0, <1>3 DEF Shared!Miss, Shared!Started
<1>4. ASSUME NEW q \in SharedRequests, Shared!Wake(q) PROVE Shared!TypeOK'
    BY <1>0, <1>4 DEF Shared!Wake
<1>5. ASSUME NEW q \in SharedRequests, Shared!BuildAnyway(q) PROVE Shared!TypeOK'
    BY <1>0, <1>5 DEF Shared!BuildAnyway, Shared!Started
<1>6. ASSUME NEW b \in builds, Shared!BuildEnds(b) PROVE Shared!TypeOK'
    <2>1. b.read \in Nat
        BY <1>0
    <2> QED
        BY <1>0, <1>6, <2>1 DEF Shared!BuildEnds, Shared!Over, Shared!Never
<1>7. ASSUME NEW b \in builds, Shared!BuildFails(b) PROVE Shared!TypeOK'
    BY <1>0, <1>7 DEF Shared!BuildFails, Shared!Over
<1>8. CASE Shared!Evict
    BY <1>0, <1>8 DEF Shared!Evict
<1>9. CASE Shared!Tick
    BY <1>0, <1>9 DEF Shared!Tick
<1>10. QED
    BY <1>1, <1>2, <1>3, <1>4, <1>5, <1>6, <1>7, <1>8, <1>9 DEF Shared!Next

\* Where no build begins or ends, each stays of its request.
LEMMA SharedKept ==
    ASSUME Shared!Served, UNCHANGED <<builds, sharedInflight>>, gaveUp \subseteq gaveUp',
           \A q \in SharedRequests : sharedPc[q] \in {"building", "answered"} => sharedPc'[q] = sharedPc[q]
    PROVE  Shared!OneEach'
<1>1. Shared!Running' = Shared!Running
    BY DEF Shared!Running
<1>2. ASSUME NEW b \in builds PROVE Shared!Building(b)'
    <2>1. PICK q \in SharedRequests :
              /\ \/ b.build = Shared!Own(q) /\ sharedPc[q] = "building"
                 \/ b.build = Shared!Background(q) /\ sharedPc[q] = "answered"
              /\ b.build = sharedInflight \/ (b.build = Shared!Own(q) /\ q \in gaveUp)
        BY DEF Shared!Served, Shared!OneEach, Shared!Building
    <2> QED
        BY <2>1 DEF Shared!Building
<1>3. QED
    BY <1>1, <1>2 DEF Shared!Served, Shared!OneEach

\* A request that asks begins a build of its own, or is answered and begins one.
LEMMA SharedBegun ==
    ASSUME Shared!Served, Shared!TypeOK', NEW q \in SharedRequests, NEW new,
           sharedPc[q] = "asking", builds' = Shared!Started(new), gaveUp \subseteq gaveUp',
           \/ new = Shared!Own(q) /\ sharedPc'[q] = "building"
           \/ new = Shared!Background(q) /\ sharedPc'[q] = "answered",
           \A p \in SharedRequests : p # q => sharedPc'[p] = sharedPc[p],
           sharedInflight' = IF sharedInflight = Shared!NoBuild THEN new ELSE sharedInflight,
           sharedInflight = Shared!NoBuild \/ (new = Shared!Own(q) /\ q \in gaveUp')
    PROVE  Shared!OneEach'
<1>1. Shared!Running \union {new} \subseteq Shared!Running'
    <2>1. PICK begun : begun = [build |-> new, read |-> sharedClock]
        OBVIOUS
    <2>2. begun \in builds' /\ begun.build = new /\ builds \subseteq builds'
        BY <2>1 DEF Shared!Started
    <2> QED
        BY <2>2 DEF Shared!Running
<1>2. ASSUME NEW b \in builds PROVE Shared!Building(b)' /\ b.build # new
    <2>1. PICK p \in SharedRequests :
              /\ \/ b.build = Shared!Own(p) /\ sharedPc[p] = "building"
                 \/ b.build = Shared!Background(p) /\ sharedPc[p] = "answered"
              /\ b.build = sharedInflight \/ (b.build = Shared!Own(p) /\ p \in gaveUp)
        BY DEF Shared!Served, Shared!OneEach, Shared!Building
    <2>2. p # q
        BY <2>1
    <2>3. b.build # new
        BY <2>1, <2>2, SharedBuilds
    <2>4. b.build = sharedInflight => b.build = sharedInflight'
        BY <2>1, SharedBuilds
    <2> QED
        BY <2>1, <2>2, <2>3, <2>4 DEF Shared!Building
<1>3. \A b \in builds' \ builds : b.build = new /\ b = [build |-> new, read |-> sharedClock]
    BY DEF Shared!Started
<1>4. ASSUME NEW b \in builds' \ builds PROVE Shared!Building(b)'
    <2>1. new = sharedInflight' \/ (new = Shared!Own(q) /\ q \in gaveUp')
        OBVIOUS
    <2> QED
        BY <1>3, <2>1 DEF Shared!Building
<1>5. \A b, c \in builds' : b.build = c.build => b = c
    BY <1>2, <1>3 DEF Shared!Served, Shared!OneEach
<1>6. QED
    BY <1>1, <1>2, <1>4, <1>5 DEF Shared!Served, Shared!OneEach

\* A build that is over leaves the others as they are, and its place free.
LEMMA SharedEnded ==
    ASSUME Shared!Served, NEW b \in builds, NEW built, Shared!Over(b, built),
           \A q \in SharedRequests : b.build # Shared!Own(q) => sharedPc'[q] = sharedPc[q]
    PROVE  Shared!OneEach'
<1>0. Shared!OneEach /\ builds' = builds \ {b} /\ gaveUp' = gaveUp
      /\ sharedInflight' = IF sharedInflight = b.build THEN Shared!NoBuild ELSE sharedInflight
    BY DEF Shared!Served, Shared!Over, Shared!Cleared
<1>1. sharedInflight' # Shared!NoBuild => sharedInflight' \in Shared!Running'
    BY <1>0 DEF Shared!OneEach, Shared!Running
<1>2. PICK o \in SharedRequests :
          \/ b.build = Shared!Own(o) /\ sharedPc[o] = "building"
          \/ b.build = Shared!Background(o) /\ sharedPc[o] = "answered"
    BY <1>0 DEF Shared!OneEach, Shared!Building
<1>3. ASSUME NEW c \in builds' PROVE Shared!Building(c)'
    <2>1. PICK q \in SharedRequests :
              /\ \/ c.build = Shared!Own(q) /\ sharedPc[q] = "building"
                 \/ c.build = Shared!Background(q) /\ sharedPc[q] = "answered"
              /\ c.build = sharedInflight \/ (c.build = Shared!Own(q) /\ q \in gaveUp)
        BY <1>0 DEF Shared!OneEach, Shared!Building
    <2>2. c.build # b.build
        BY <1>0 DEF Shared!OneEach
    <2>3. b.build # Shared!Own(q)
        BY <1>2, <2>1, <2>2, SharedBuilds
    <2>4. c.build = sharedInflight => c.build = sharedInflight'
        BY <1>0, <2>2
    <2> QED
        BY <1>0, <2>1, <2>3, <2>4 DEF Shared!Building
<1>4. QED
    BY <1>0, <1>1, <1>3 DEF Shared!OneEach

\* Every step keeps one build of each request.
LEMMA SharedOneEach ==
    ASSUME Shared!Served, Shared!TypeOK', Shared!Next
    PROVE  Shared!OneEach'
<1>0. Shared!TypeOK
    BY DEF Shared!Served
<1>1. ASSUME NEW q \in SharedRequests, Shared!Call(q) PROVE Shared!OneEach'
    BY <1>0, <1>1, SharedKept DEF Shared!Call, Shared!TypeOK
<1>2. ASSUME NEW q \in SharedRequests, Shared!Hit(q) PROVE Shared!OneEach'
    <2>1. /\ sharedPc[q] = "asking" /\ sharedPc'[q] = "answered" /\ gaveUp' = gaveUp
          /\ \A p \in SharedRequests : p # q => sharedPc'[p] = sharedPc[p]
        BY <1>0, <1>2 DEF Shared!Hit, Shared!Answered, Shared!TypeOK
    <2>2. CASE UNCHANGED <<sharedInflight, builds>>
        BY <2>1, <2>2, SharedKept
    <2>3. CASE /\ sharedInflight = Shared!NoBuild /\ sharedInflight' = Shared!Background(q)
               /\ builds' = Shared!Started(Shared!Background(q))
        BY <2>1, <2>3, SharedBegun
    <2> QED
        BY <1>2, <2>2, <2>3 DEF Shared!Hit
<1>3. ASSUME NEW q \in SharedRequests, Shared!Miss(q) PROVE Shared!OneEach'
    <2>1. /\ sharedPc[q] = "asking" /\ gaveUp' = gaveUp
          /\ \A p \in SharedRequests : p # q => sharedPc'[p] = sharedPc[p]
        BY <1>0, <1>3 DEF Shared!Miss, Shared!TypeOK
    <2>2. CASE UNCHANGED <<sharedInflight, builds>>
        BY <2>1, <2>2, SharedKept
    <2>3. CASE /\ sharedInflight = Shared!NoBuild /\ sharedInflight' = Shared!Own(q)
               /\ builds' = Shared!Started(Shared!Own(q)) /\ sharedPc'[q] = "building"
        BY <2>1, <2>3, SharedBegun
    <2> QED
        BY <1>0, <1>3, <2>2, <2>3 DEF Shared!Miss, Shared!MustWait, Shared!TypeOK
<1>4. ASSUME NEW q \in SharedRequests, Shared!Wake(q) PROVE Shared!OneEach'
    BY <1>0, <1>4, SharedKept DEF Shared!Wake, Shared!TypeOK
<1>5. ASSUME NEW q \in SharedRequests, Shared!BuildAnyway(q) PROVE Shared!OneEach'
    <2>1. /\ sharedPc[q] = "asking" /\ sharedPc'[q] = "building" /\ gaveUp' = gaveUp \union {q}
          /\ \A p \in SharedRequests : p # q => sharedPc'[p] = sharedPc[p]
          /\ sharedInflight' = IF sharedInflight = Shared!NoBuild THEN Shared!Own(q) ELSE sharedInflight
          /\ builds' = Shared!Started(Shared!Own(q))
        BY <1>0, <1>5 DEF Shared!BuildAnyway, Shared!TypeOK
    <2> QED
        BY <2>1, SharedBegun
<1>6. ASSUME NEW b \in builds, Shared!BuildEnds(b) PROVE Shared!OneEach'
    <2>1. \A q \in SharedRequests : b.build # Shared!Own(q) => sharedPc'[q] = sharedPc[q]
        <3>1. CASE b.build.kind = "own"
            <4>1. PICK o \in SharedRequests : b.build = Shared!Own(o) \/ b.build = Shared!Background(o)
                BY <1>0 DEF Shared!TypeOK
            <4>2. b.build = Shared!Own(o) /\ b.build.of = {o}
                BY <3>1, <4>1 DEF Shared!Own, Shared!Background
            <4>3. sharedPc' = [q \in SharedRequests |-> IF q \in b.build.of THEN "answered" ELSE sharedPc[q]]
                BY <1>6, <3>1 DEF Shared!BuildEnds
            <4> QED
                BY <4>2, <4>3
        <3>2. CASE b.build.kind # "own"
            BY <1>6, <3>2 DEF Shared!BuildEnds
        <3> QED
            BY <3>1, <3>2
    <2> QED
        BY <1>6, <2>1, SharedEnded DEF Shared!BuildEnds
<1>7. ASSUME NEW b \in builds, Shared!BuildFails(b) PROVE Shared!OneEach'
    <2>1. \A q \in SharedRequests : b.build # Shared!Own(q) => sharedPc'[q] = sharedPc[q]
        BY <1>7 DEF Shared!BuildFails
    <2> QED
        BY <1>7, <2>1, SharedEnded DEF Shared!BuildFails
<1>8. CASE Shared!Evict
    BY <1>8, SharedKept DEF Shared!Evict
<1>9. CASE Shared!Tick
    BY <1>9, SharedKept DEF Shared!Tick
<1>10. QED
    BY <1>1, <1>2, <1>3, <1>4, <1>5, <1>6, <1>7, <1>8, <1>9 DEF Shared!Next

\* A request answered from the cache is told no less than anybody was.
LEMMA SharedHitInOrder ==
    ASSUME Shared!Served, Shared!TypeOK', NEW q \in SharedRequests, Shared!Hit(q)
    PROVE  Shared!InOrder'
<1>0. Shared!TypeOK /\ Shared!InOrder
    BY DEF Shared!Served
<1>1. sharedCache # Shared!NoValue
    BY <1>0 DEF Shared!Hit, Shared!Held
<1>2. /\ UNCHANGED <<sharedClock, sharedCache, sharedSeen, gaveUp>>
      /\ sharedAnswer' = [sharedAnswer EXCEPT ![q] = sharedCache.read]
      /\ sharedPc' = [sharedPc EXCEPT ![q] = "answered"]
    BY DEF Shared!Hit, Shared!Answered
<1>3. \A b \in builds' : b \in builds \/ b.read = sharedClock
    BY DEF Shared!Hit, Shared!Started
<1>4. /\ sharedClock \in Nat /\ sharedCache.read \in Shared!Times /\ sharedCache.read <= sharedClock
      /\ \A b \in builds : b.read \in Nat
      /\ sharedAnswer \in [SharedRequests -> Shared!Times] /\ sharedSeen \in [SharedRequests -> Shared!Times]
      /\ DOMAIN sharedPc = SharedRequests
    BY <1>0 DEF Shared!TypeOK, Shared!InOrder
<1>5. \A p \in SharedRequests : sharedAnswer'[p] = IF p = q THEN sharedCache.read ELSE sharedAnswer[p]
    BY <1>2, <1>4
<1>6. Shared!ToldBefore(sharedClock)' /\ \A b \in builds' : b.read <= sharedClock
    BY <1>0, <1>2, <1>3, <1>4, <1>5 DEF Shared!InOrder, Shared!ToldBefore
<1>7. \A p \in SharedRequests : sharedAnswer'[p] # Shared!Never => sharedPc'[p] = "answered"
    BY <1>0, <1>2, <1>4, <1>5 DEF Shared!InOrder
<1>8. ASSUME gaveUp = {}
      PROVE  /\ Shared!AnswersInOrder'
             /\ Shared!ToldBefore(sharedCache.read)'
             /\ \A b \in builds' : sharedCache.read <= b.read /\ Shared!ToldBefore(b.read)'
    <2>1. Shared!ToldBefore(sharedCache.read) /\ Shared!AnswersInOrder
        BY <1>0, <1>1, <1>8 DEF Shared!InOrder
    <2>2. Shared!AnswersInOrder'
        BY <1>2, <1>4, <1>5, <2>1, <1>8 DEF Shared!AnswersInOrder, Shared!ToldBefore
    <2>3. \A time \in Shared!Times : Shared!ToldBefore(sharedCache.read) /\ sharedCache.read <= time => Shared!ToldBefore(time)'
        BY <1>2, <1>4, <1>5 DEF Shared!ToldBefore, Shared!Times, Shared!Never
    <2>4. \A b \in builds' : b.read \in Shared!Times /\ sharedCache.read <= b.read
        BY <1>0, <1>3, <1>4, <1>8 DEF Shared!InOrder, Shared!Times
    <2>5. sharedCache.read <= sharedCache.read
        BY <1>4 DEF Shared!Times, Shared!Never
    <2> QED
        BY <1>2, <1>4, <2>1, <2>2, <2>3, <2>4, <2>5
<1>9. QED
    BY <1>2, <1>4, <1>6, <1>7, <1>8 DEF Shared!InOrder

\* A value that is stored is newer than any told, and no other build runs.
LEMMA SharedEndsInOrder ==
    ASSUME Shared!Served, Shared!TypeOK', NEW b \in builds, Shared!BuildEnds(b)
    PROVE  Shared!InOrder'
<1>0. Shared!TypeOK /\ Shared!InOrder /\ Shared!OneEach
    BY DEF Shared!Served
<1>1. PICK o \in SharedRequests : b.build = Shared!Own(o) \/ b.build = Shared!Background(o)
    BY <1>0 DEF Shared!TypeOK
<1>2. /\ UNCHANGED <<sharedClock, sharedSeen, gaveUp>> /\ builds' = builds \ {b}
      /\ sharedCache'.read = b.read
    BY DEF Shared!BuildEnds, Shared!Over
<1>3. /\ sharedClock \in Nat /\ b.read \in Nat /\ \A c \in builds : c.read \in Nat
      /\ sharedAnswer \in [SharedRequests -> Shared!Times] /\ sharedSeen \in [SharedRequests -> Shared!Times]
      /\ b.read <= sharedClock
    BY <1>0 DEF Shared!TypeOK, Shared!InOrder
<1>4. /\ b.build.kind = "own" <=> b.build = Shared!Own(o)
      /\ b.build.of = {o}
    BY <1>1 DEF Shared!Own, Shared!Background
<1>5. \A p \in SharedRequests :
          \/ sharedAnswer'[p] = b.read /\ sharedPc'[p] = "answered"
          \/ sharedAnswer'[p] = sharedAnswer[p] /\ sharedPc'[p] = sharedPc[p]
    BY <1>4 DEF Shared!BuildEnds
<1>6. Shared!ToldBefore(sharedClock)' /\ sharedCache'.read <= sharedClock'
    BY <1>0, <1>2, <1>3, <1>5 DEF Shared!InOrder, Shared!ToldBefore
<1>7. /\ \A p \in SharedRequests : sharedAnswer'[p] # Shared!Never => sharedPc'[p] = "answered"
      /\ \A c \in builds' : c.read <= sharedClock'
    BY <1>0, <1>2, <1>5 DEF Shared!InOrder
<1>8. ASSUME gaveUp = {}
      PROVE  builds' = {} /\ Shared!AnswersInOrder' /\ Shared!ToldBefore(b.read)'
    <2>1. \A c \in builds : c.build = sharedInflight
        BY <1>0, <1>8 DEF Shared!OneEach, Shared!Building
    <2>2. builds' = {}
        BY <1>0, <1>2, <2>1 DEF Shared!OneEach
    <2>3. Shared!ToldBefore(b.read) /\ Shared!AnswersInOrder
        BY <1>0, <1>8 DEF Shared!InOrder
    <2>4. Shared!AnswersInOrder'
        BY <1>2, <1>5, <1>8, <2>3 DEF Shared!AnswersInOrder, Shared!ToldBefore
    <2>5. Shared!ToldBefore(b.read)'
        <3> SUFFICES ASSUME NEW p \in SharedRequests
                     PROVE  sharedAnswer'[p] <= b.read /\ sharedSeen'[p] <= b.read
            BY DEF Shared!ToldBefore
        <3> QED
            BY <1>2, <1>3, <1>5, <2>3 DEF Shared!ToldBefore
    <2> QED
        BY <2>2, <2>4, <2>5
<1>9. QED
    BY <1>2, <1>6, <1>7, <1>8 DEF Shared!InOrder

\* Where nothing is answered or stored, what begins to be built is newer still.
LEMMA SharedOthersInOrder ==
    ASSUME Shared!Served, Shared!TypeOK',
           sharedClock <= sharedClock', UNCHANGED sharedAnswer,
           sharedCache' = sharedCache \/ sharedCache' = Shared!NoValue,
           gaveUp' = {} => gaveUp = {},
           \A b \in builds' : b \in builds \/ b.read = sharedClock,
           \A q \in SharedRequests :
              /\ sharedAnswer[q] # Shared!Never => sharedPc'[q] = sharedPc[q] /\ sharedSeen'[q] = sharedSeen[q]
              /\ \/ sharedSeen'[q] = sharedSeen[q]
                 \/ \E p \in SharedRequests : sharedSeen'[q] = sharedAnswer[p]
    PROVE  Shared!InOrder'
<1>0. Shared!TypeOK /\ Shared!InOrder
    BY DEF Shared!Served
<1>1. /\ sharedClock \in Int /\ sharedClock' \in Int /\ \A b \in builds \union builds' : b.read \in Int
      /\ sharedCache.read \in Int /\ sharedCache'.read \in Int
      /\ \A q \in SharedRequests : sharedAnswer[q] \in Int /\ sharedSeen[q] \in Int /\ sharedSeen'[q] \in Int
    BY <1>0 DEF Shared!TypeOK, Shared!Times, Shared!Never
<1>2. ASSUME NEW time \in Int, Shared!ToldBefore(time), NEW later \in Int, time <= later, NEW q \in SharedRequests
      PROVE  sharedAnswer'[q] <= later /\ sharedSeen'[q] <= later
    <2>1. sharedAnswer[q] <= time /\ sharedSeen'[q] <= time
        BY <1>2 DEF Shared!ToldBefore
    <2>2. sharedAnswer'[q] \in Int /\ sharedSeen'[q] \in Int /\ sharedAnswer'[q] = sharedAnswer[q]
        BY <1>1
    <2> QED
        BY <1>2, <2>1, <2>2
<1>3. /\ sharedCache'.read \in {sharedCache.read, Shared!Never}
      /\ \A b \in builds : Shared!Never <= b.read
      /\ Shared!Never <= sharedClock
    BY <1>0 DEF Shared!NoValue, Shared!Never, Shared!TypeOK
<1>4. /\ Shared!ToldBefore(sharedClock)' /\ sharedCache'.read <= sharedClock'
      /\ \A b \in builds' : b.read <= sharedClock'
    <2>1. \A q \in SharedRequests : sharedAnswer'[q] <= sharedClock' /\ sharedSeen'[q] <= sharedClock'
        BY <1>0, <1>1, <1>2 DEF Shared!InOrder
    <2>2. sharedCache'.read <= sharedClock
        BY <1>0, <1>3 DEF Shared!InOrder
    <2>3. \A b \in builds' : b.read <= sharedClock
        BY <1>0, <1>1 DEF Shared!InOrder
    <2>4. Shared!ToldBefore(sharedClock)'
        BY <2>1 DEF Shared!ToldBefore
    <2>5. sharedCache'.read <= sharedClock' /\ \A b \in builds' : b.read <= sharedClock'
        BY <1>1, <2>2, <2>3
    <2> QED
        BY <2>4, <2>5
<1>5. \A q \in SharedRequests : sharedAnswer'[q] # Shared!Never => sharedPc'[q] = "answered"
    BY <1>0 DEF Shared!InOrder
<1>6. ASSUME gaveUp' = {}
      PROVE  /\ Shared!AnswersInOrder'
             /\ sharedCache' # Shared!NoValue => Shared!ToldBefore(sharedCache.read)'
             /\ \A b \in builds' : sharedCache'.read <= b.read /\ Shared!ToldBefore(b.read)'
    <2>0. gaveUp = {}
        BY <1>6
    <2>1. Shared!AnswersInOrder'
        BY <1>0, <2>0 DEF Shared!InOrder, Shared!AnswersInOrder
    <2>2. ASSUME sharedCache' # Shared!NoValue
          PROVE  Shared!ToldBefore(sharedCache.read)'
        <3>1. Shared!ToldBefore(sharedCache.read) /\ sharedCache' = sharedCache
            BY <1>0, <2>0, <2>2 DEF Shared!InOrder
        <3>2. Shared!ToldBefore(sharedCache.read)' <=> \A q \in SharedRequests : sharedAnswer'[q] <= sharedCache'.read /\ sharedSeen'[q] <= sharedCache'.read
            BY DEF Shared!ToldBefore
        <3> QED
            BY <1>1, <3>1, <3>2 DEF Shared!ToldBefore
    <2>3. ASSUME NEW b \in builds'
          PROVE  sharedCache'.read <= b.read /\ Shared!ToldBefore(b.read)'
        <3>1. CASE b \in builds
            <4>1. sharedCache.read <= b.read /\ Shared!ToldBefore(b.read) /\ b.read \in Int
                BY <1>0, <1>1, <2>0, <3>1 DEF Shared!InOrder
            <4>2. b.read <= b.read
                BY <4>1
            <4> QED
                <5>1. \A q \in SharedRequests : sharedAnswer'[q] <= b.read /\ sharedSeen'[q] <= b.read
                    BY <1>2, <4>1, <4>2
                <5>2. Shared!ToldBefore(b.read)'
                    BY <5>1 DEF Shared!ToldBefore
                <5> QED
                    BY <1>3, <3>1, <4>1, <5>2
        <3>2. CASE b.read = sharedClock
            <4>1. sharedCache.read <= sharedClock /\ Shared!ToldBefore(sharedClock) /\ sharedClock <= sharedClock
                BY <1>0, <1>1 DEF Shared!InOrder
            <4> QED
                <5>1. \A q \in SharedRequests : sharedAnswer'[q] <= b.read /\ sharedSeen'[q] <= b.read
                    BY <1>1, <1>2, <3>2, <4>1
                <5>2. Shared!ToldBefore(b.read)'
                    BY <5>1 DEF Shared!ToldBefore
                <5> QED
                    BY <1>3, <3>2, <4>1, <5>2
        <3> QED
            BY <3>1, <3>2
    <2> QED
        BY <2>1, <2>2, <2>3
<1>7. QED
    BY <1>4, <1>5, <1>6 DEF Shared!InOrder

\* Every step keeps the order of what is told, served and built.
LEMMA SharedInOrderKept ==
    ASSUME Shared!Served, Shared!TypeOK', Shared!Next
    PROVE  Shared!InOrder'
<1>0. Shared!TypeOK /\ Shared!InOrder /\ Shared!OneEach
    BY DEF Shared!Served
<1>00. sharedClock <= sharedClock /\ sharedClock <= sharedClock + 1
    BY <1>0 DEF Shared!TypeOK
<1>1. ASSUME NEW q \in SharedRequests, Shared!Call(q) PROVE Shared!InOrder'
    <2>1. sharedSeen'[q] \in {sharedAnswer[p] : p \in SharedRequests}
        <3>1. sharedSeen'[q] = CHOOSE n \in {sharedAnswer[p] : p \in SharedRequests} :
                                  \A p \in SharedRequests : sharedAnswer[p] <= n
            BY <1>0, <1>1 DEF Shared!Call, Shared!TypeOK
        <3> QED
            BY <1>0, <3>1, SharedNewest
    <2>2. /\ sharedAnswer[q] = Shared!Never
          /\ \A p \in SharedRequests : p # q => sharedPc'[p] = sharedPc[p] /\ sharedSeen'[p] = sharedSeen[p]
        BY <1>0, <1>1 DEF Shared!Call, Shared!TypeOK, Shared!InOrder
    <2>3. PICK p \in SharedRequests : sharedSeen'[q] = sharedAnswer[p]
        BY <2>1
    <2> QED
        BY <1>00, <1>1, <2>2, <2>3, SharedOthersInOrder DEF Shared!Call
<1>2. ASSUME NEW q \in SharedRequests, Shared!Hit(q) PROVE Shared!InOrder'
    BY <1>2, SharedHitInOrder
<1>3. ASSUME NEW q \in SharedRequests, Shared!Miss(q) PROVE Shared!InOrder'
    <2>1. /\ sharedAnswer[q] = Shared!Never
          /\ \A p \in SharedRequests : p # q => sharedPc'[p] = sharedPc[p]
        BY <1>0, <1>3 DEF Shared!Miss, Shared!TypeOK, Shared!InOrder
    <2>2. \A b \in builds' : b \in builds \/ b.read = sharedClock
        BY <1>3 DEF Shared!Miss, Shared!Started
    <2> QED
        BY <1>00, <1>3, <2>1, <2>2, SharedOthersInOrder DEF Shared!Miss
<1>4. ASSUME NEW q \in SharedRequests, Shared!Wake(q) PROVE Shared!InOrder'
    <2>1. /\ sharedAnswer[q] = Shared!Never
          /\ \A p \in SharedRequests : p # q => sharedPc'[p] = sharedPc[p]
        BY <1>0, <1>4 DEF Shared!Wake, Shared!TypeOK, Shared!InOrder
    <2>2. gaveUp' = {} => gaveUp = {}
        BY <1>4 DEF Shared!Wake
    <2> QED
        BY <1>00, <1>4, <2>1, <2>2, SharedOthersInOrder DEF Shared!Wake
<1>5. ASSUME NEW q \in SharedRequests, Shared!BuildAnyway(q) PROVE Shared!InOrder'
    <2>1. /\ sharedAnswer[q] = Shared!Never
          /\ \A p \in SharedRequests : p # q => sharedPc'[p] = sharedPc[p]
        BY <1>0, <1>5 DEF Shared!BuildAnyway, Shared!TypeOK, Shared!InOrder
    <2>2. \A b \in builds' : b \in builds \/ b.read = sharedClock
        BY <1>5 DEF Shared!BuildAnyway, Shared!Started
    <2>3. gaveUp' # {}
        BY <1>5 DEF Shared!BuildAnyway
    <2> QED
        BY <1>00, <1>5, <2>1, <2>2, <2>3, SharedOthersInOrder DEF Shared!BuildAnyway
<1>6. ASSUME NEW b \in builds, Shared!BuildEnds(b) PROVE Shared!InOrder'
    BY <1>6, SharedEndsInOrder
<1>7. ASSUME NEW b \in builds, Shared!BuildFails(b) PROVE Shared!InOrder'
    <2>1. ASSUME NEW q \in SharedRequests, sharedAnswer[q] # Shared!Never
          PROVE  sharedPc'[q] = sharedPc[q]
        <3>1. sharedPc[q] = "answered"
            BY <1>0, <2>1 DEF Shared!InOrder
        <3>2. b.build # Shared!Own(q)
            <4>1. PICK p \in SharedRequests :
                      \/ b.build = Shared!Own(p) /\ sharedPc[p] = "building"
                      \/ b.build = Shared!Background(p) /\ sharedPc[p] = "answered"
                BY <1>0 DEF Shared!OneEach, Shared!Building
            <4> QED
                BY <3>1, <4>1, SharedBuilds
        <3> QED
            BY <1>7, <3>2 DEF Shared!BuildFails
    <2>2. /\ builds' \subseteq builds /\ UNCHANGED <<sharedClock, sharedAnswer, sharedCache, sharedSeen, gaveUp>>
        BY <1>7 DEF Shared!BuildFails, Shared!Over
    <2> QED
        BY <1>00, <2>1, <2>2, SharedOthersInOrder
<1>8. CASE Shared!Evict
    BY <1>00, <1>8, SharedOthersInOrder DEF Shared!Evict
<1>9. CASE Shared!Tick
    BY <1>00, <1>9, SharedOthersInOrder DEF Shared!Tick
<1>10. QED
    BY <1>1, <1>2, <1>3, <1>4, <1>5, <1>6, <1>7, <1>8, <1>9 DEF Shared!Next

\* Each request has a build of its own, and nothing older is told than was.
LEMMA SharedServedCorrect == Shared!Spec => []Shared!Served
<1>1. Shared!Served /\ [Shared!Next]_(Shared!sharedVars) => Shared!Served'
    <2>1. CASE UNCHANGED Shared!sharedVars
        BY <2>1 DEF Shared!sharedVars, Shared!Served, Shared!TypeOK, Shared!OneEach, Shared!Running,
                    Shared!Building, Shared!InOrder, Shared!ToldBefore, Shared!AnswersInOrder
    <2>2. CASE Shared!Served /\ Shared!Next
        BY <2>2, SharedTyped, SharedOneEach, SharedInOrderKept DEF Shared!Served
    <2> QED
        BY <2>1, <2>2
<1>2. QED
    BY <1>1, SharedInitServed, PTL DEF Shared!Spec

\* A value is built once for all who wait for it, but for those who waited in vain, and a
\* key taken for building is being built (trace_exporter.py, _swr_build).
THEOREM SharedBuiltOnceCorrect ==
    ASSUME Shared!Countable
    PROVE  Shared!Spec => []Shared!BuiltOnce
<1>1. Shared!Served => Shared!BuiltOnce
    <2> SUFFICES ASSUME Shared!Served
                 PROVE  Shared!BuiltOnce
        OBVIOUS
    <2> DEFINE own == {Shared!Own(q) : q \in gaveUp}
               all == own \union {sharedInflight}
    <2>1. gaveUp \subseteq SharedRequests /\ IsFiniteSet(gaveUp)
        BY FS_Subset, SharedSizes DEF Shared!Served, Shared!TypeOK, Shared!Countable
    <2>2. IsFiniteSet(own) /\ Cardinality(own) <= Cardinality(gaveUp)
        <3>1. [q \in gaveUp |-> Shared!Own(q)] \in Surjection(gaveUp, own)
            BY DEF Surjection
        <3> QED
            BY <2>1, <3>1, FS_Surjection
    <2>3. IsFiniteSet(all) /\ Cardinality(all) <= Cardinality(own) + 1
        <3> HIDE DEF own
        <3>1. Cardinality(own) \in Nat
            BY <2>2, FS_CardinalityType
        <3>2. IsFiniteSet(own \union {sharedInflight})
              /\ Cardinality(own \union {sharedInflight})
                   = IF sharedInflight \in own THEN Cardinality(own) ELSE Cardinality(own) + 1
            BY <2>2, FS_AddElement
        <3> QED
            BY <3>1, <3>2
    <2>4. [b \in builds |-> b.build] \in Injection(builds, all)
        <3>1. \A b \in builds : b.build \in all
            BY DEF Shared!Served, Shared!OneEach, Shared!Building
        <3>2. \A b, c \in builds : b.build = c.build => b = c
            BY DEF Shared!Served, Shared!OneEach
        <3> HIDE DEF all
        <3> QED
            BY <3>1, <3>2 DEF Injection, IsInjective
    <2>5. Cardinality(builds) <= Cardinality(all)
        BY <2>3, <2>4, FS_Injection
    <2>6. IsFiniteSet(builds)
        BY <2>3, <2>4, FS_Injection
    <2>7. Cardinality(builds) \in Nat /\ Cardinality(all) \in Nat /\ Cardinality(own) \in Nat /\ Cardinality(gaveUp) \in Nat
        BY <2>1, <2>2, <2>3, <2>6, FS_CardinalityType
    <2> HIDE DEF own, all
    <2>8. Cardinality(builds) <= 1 + Cardinality(gaveUp)
        BY <2>2, <2>3, <2>5, <2>7
    <2>9. Shared!Cardinality(builds) <= 1 + Shared!Cardinality(gaveUp)
        BY <2>8, SharedSizes, Zenon
    <2> QED
        BY <2>9 DEF Shared!Served, Shared!OneEach, Shared!BuiltOnce
<1>2. QED
    BY <1>1, SharedServedCorrect, PTL

\* No request is given an older value than one answered before it came
\* (trace_exporter.py, _swr_fetch), as long as nobody waited in vain.
THEOREM SharedAnswersInOrderCorrect == Shared!Spec => []Shared!AnswersInOrder
<1>1. Shared!Served => Shared!AnswersInOrder
    BY DEF Shared!Served, Shared!InOrder, Shared!AnswersInOrder
<1>2. QED
    BY <1>1, SharedServedCorrect, PTL

-----------------------------------------------------------------------------
(* The badges, for any runs, jobs and requests                               *)

LEMMA BadgeSizes ==
    \A S : Badge!IsFiniteSet(S) = IsFiniteSet(S) /\ Badge!Cardinality(S) = Cardinality(S)
BY Zenon DEF IsFiniteSet, Cardinality, Badge!IsFiniteSet, Badge!Cardinality

\* More jobs of a run count no less.
LEMMA BadgeCounts ==
    ASSUME Badge!Suited, NEW r \in BadgeRuns, NEW S, S \subseteq JobsOf[r], NEW T, T \subseteq S
    PROVE  /\ Badge!Cardinality(S) \in Nat /\ Badge!Cardinality(T) \in Nat
           /\ Badge!Cardinality(T) <= Badge!Cardinality(S)
<1>1. IsFiniteSet(JobsOf[r])
    BY BadgeSizes DEF Badge!Suited
<1>2. IsFiniteSet(S)
    BY <1>1, FS_Subset
<1>3. IsFiniteSet(T) /\ Cardinality(T) <= Cardinality(S)
    BY <1>2, FS_Subset
<1>4. Cardinality(S) \in Nat /\ Cardinality(T) \in Nat
    BY <1>2, <1>3, FS_CardinalityType
<1>5. Badge!Cardinality(S) = Cardinality(S) /\ Badge!Cardinality(T) = Cardinality(T)
    BY BadgeSizes, Zenon
<1>6. QED
    BY <1>3, <1>4, <1>5

\* The answer is of the last run of the stream with jobs, if there is one.
LEMMA BadgeLatest ==
    ASSUME Badge!Suited, NEW s \in Streams, NEW series, \A r \in BadgeRuns : series[r] \subseteq JobsOf[r]
    PROVE  \/ /\ Badge!Latest(series, s) = Badge!None
              /\ \A r \in BadgeRuns : Badge!InStream(r, s) => series[r] = {}
           \/ \E last \in BadgeRuns :
                 /\ Badge!Latest(series, s) = [run |-> last, jobs |-> Badge!Cardinality(series[last])]
                 /\ Badge!Latest(series, s) # Badge!None
                 /\ Badge!InStream(last, s) /\ series[last] # {}
                 /\ \A r \in BadgeRuns : Badge!InStream(r, s) /\ series[r] # {} => r <= last
<1> DEFINE found == {r \in BadgeRuns : series[r] # {} /\ Badge!InStream(r, s)}
<1>1. CASE found = {}
    BY <1>1 DEF Badge!Latest
<1>2. CASE found # {}
    <2>1. PICK n \in BadgeRuns \union {0} : BadgeRuns \subseteq 1 .. n
        BY DEF Badge!Suited
    <2>2. n \in Nat /\ found \in SUBSET (0 .. n) /\ BadgeRuns \subseteq Nat \ {0}
        <3>1. BadgeRuns \subseteq Nat /\ n \in Nat
            BY DEF Badge!Suited
        <3>2. \A r \in BadgeRuns : r \in 0 .. n /\ r # 0
            BY <2>1, <3>1
        <3> QED
            BY <3>1, <3>2
    <2>3. \E m \in found : \A y \in found : m >= y
        <3> HIDE DEF found
        <3> QED
            BY <1>2, <2>2, Greatest
    <2>4. Badge!Max(found) \in found /\ \A y \in found : Badge!Max(found) >= y
        BY <2>3 DEF Badge!Max
    <2>5. Badge!Latest(series, s) = [run |-> Badge!Max(found), jobs |-> Badge!Cardinality(series[Badge!Max(found)])]
        BY <1>2 DEF Badge!Latest
    <2>6. Badge!Latest(series, s).run # Badge!None.run
        BY <2>2, <2>4, <2>5 DEF Badge!None
    <2>7. \A r \in BadgeRuns : Badge!InStream(r, s) /\ series[r] # {} => r <= Badge!Max(found)
        BY <2>2, <2>4
    <2> QED
        BY <2>4, <2>5, <2>6, <2>7
<1>3. QED
    BY <1>1, <1>2

LEMMA BadgeAnswers ==
    ASSUME Badge!Suited, NEW s \in Streams, NEW series, \A r \in BadgeRuns : series[r] \subseteq JobsOf[r]
    PROVE  Badge!Latest(series, s) \in Badge!Answers
<1>1. \A r \in BadgeRuns : Badge!Cardinality(series[r]) \in Nat
    BY BadgeCounts
<1>2. BadgeRuns \subseteq Nat /\ Badge!None \in Badge!Answers
    BY DEF Badge!Suited, Badge!None, Badge!Answers
<1>3. QED
    BY <1>1, <1>2, BadgeLatest DEF Badge!Answers

\* Nothing is further than itself but with the same run and jobs; and it is an order.
LEMMA BadgeFurther ==
    ASSUME NEW a \in Badge!Answers, NEW b \in Badge!Answers, NEW c \in Badge!Answers
    PROVE  /\ Badge!Further(a, a)
           /\ Badge!Further(a, b) /\ Badge!Further(b, c) => Badge!Further(a, c)
BY DEF Badge!Answers, Badge!Further

\* With more jobs of each run the answer is further.
LEMMA BadgeGrows ==
    ASSUME Badge!Suited, NEW s \in Streams, NEW series, NEW later,
           \A r \in BadgeRuns : series[r] \subseteq later[r] /\ later[r] \subseteq JobsOf[r]
    PROVE  Badge!Further(Badge!Latest(later, s), Badge!Latest(series, s))
<1>0. BadgeRuns \subseteq Nat \ {0} /\ \A r \in BadgeRuns : series[r] \subseteq JobsOf[r]
    BY DEF Badge!Suited
<1>1. CASE Badge!Latest(series, s) = Badge!None
    <2>1. Badge!Latest(later, s) \in Badge!Answers
        BY BadgeAnswers
    <2> QED
        BY <1>1, <2>1 DEF Badge!Further, Badge!None, Badge!Answers
<1>2. CASE Badge!Latest(series, s) # Badge!None
    <2>1. PICK m \in BadgeRuns :
              /\ Badge!Latest(series, s) = [run |-> m, jobs |-> Badge!Cardinality(series[m])]
              /\ Badge!InStream(m, s) /\ series[m] # {}
        BY <1>0, <1>2, BadgeLatest
    <2>2. later[m] # {}
        BY <2>1
    <2>3. PICK n \in BadgeRuns :
              /\ Badge!Latest(later, s) = [run |-> n, jobs |-> Badge!Cardinality(later[n])]
              /\ m <= n
        BY <2>1, <2>2, BadgeLatest
    <2>4. /\ Badge!Cardinality(later[m]) \in Nat /\ Badge!Cardinality(series[m]) \in Nat
          /\ Badge!Cardinality(series[m]) <= Badge!Cardinality(later[m])
        BY BadgeCounts
    <2> QED
        BY <1>0, <2>1, <2>3, <2>4 DEF Badge!Further
<1>3. QED
    BY <1>1, <1>2

\* What the payload, Prometheus and the traces say of a run has been reported.
LEMMA BadgeReported ==
    ASSUME Badge!Suited, Badge!Told
    PROVE  /\ Badge!TypeOK /\ Badge!Published
           /\ \A r \in BadgeRuns :
                 /\ badgeArrived[r] \subseteq JobsOf[r]
                 /\ badgeStored[r] \subseteq badgeArrived[r] /\ badgeStored[r] \subseteq JobsOf[r]
                 /\ badgePayload[r] \subseteq badgeStored[r] /\ badgePayload[r] \subseteq JobsOf[r]
           /\ \A s \in Streams : Badge!Latest(badgeStored, s) \in Badge!Answers
<1>1. Badge!TypeOK /\ Badge!Published
    BY DEF Badge!Told
<1>2. \A r \in BadgeRuns :
          /\ badgeArrived[r] \subseteq JobsOf[r]
          /\ badgeStored[r] \subseteq badgeArrived[r] /\ badgeStored[r] \subseteq JobsOf[r]
          /\ badgePayload[r] \subseteq badgeStored[r] /\ badgePayload[r] \subseteq JobsOf[r]
    BY <1>1 DEF Badge!Published
<1>3. QED
    BY <1>1, <1>2, BadgeAnswers

\* A stream that is published is published as Prometheus has it.
LEMMA BadgePublished ==
    ASSUME Badge!Suited, Badge!Told, NEW s \in Streams, Badge!Latest(badgePayload, s) # Badge!None
    PROVE  Badge!Latest(badgePayload, s) = Badge!Latest(badgeStored, s)
<1>1. PICK p \in BadgeRuns :
          /\ Badge!Latest(badgePayload, s) = [run |-> p, jobs |-> Badge!Cardinality(badgePayload[p])]
          /\ Badge!InStream(p, s) /\ badgePayload[p] # {}
          /\ \A r \in BadgeRuns : Badge!InStream(r, s) /\ badgePayload[r] # {} => r <= p
    BY BadgeReported, BadgeLatest
<1>2. badgePayload[p] = badgeStored[p] /\ badgeStored[p] # {}
    BY <1>1, BadgeReported DEF Badge!Published
<1>3. PICK m \in BadgeRuns :
          /\ Badge!Latest(badgeStored, s) = [run |-> m, jobs |-> Badge!Cardinality(badgeStored[m])]
          /\ Badge!InStream(m, s) /\ badgeStored[m] # {}
          /\ p <= m
    BY <1>1, <1>2, BadgeReported, BadgeLatest
<1>4. p \in Nat /\ m \in Nat
    BY DEF Badge!Suited
<1>5. p < m => badgePayload[m] # {}
    BY <1>1, <1>2, <1>3 DEF Badge!Told, Badge!Outlasted, Badge!SameStream
<1>6. p = m
    BY <1>1, <1>3, <1>4, <1>5
<1>7. QED
    BY <1>1, <1>2, <1>3, <1>6

\* What Prometheus answers is sound, and so is what is read of the traces.
LEMMA BadgeSound ==
    ASSUME Badge!Suited, Badge!Told, NEW s \in Streams
    PROVE  /\ Badge!LatestStored(s) = Badge!Latest(badgeStored, s)
           /\ Badge!Sound(s, Badge!Latest(badgeStored, s), "metrics")
           /\ \A read : (\A r \in BadgeRuns : read[r] \subseteq badgeArrived[r])
                          => /\ Badge!Latest(read, s) \in Badge!Answers
                             /\ Badge!Sound(s, Badge!Latest(read, s), "traces")
<1>1. ASSUME NEW read, \A r \in BadgeRuns : read[r] \subseteq badgeArrived[r],
             Badge!Latest(read, s) # Badge!None
      PROVE  LET answer == Badge!Latest(read, s)
             IN  /\ answer.run \in BadgeRuns /\ Badge!InStream(answer.run, s)
                 /\ answer.jobs <= Badge!Cardinality(badgeArrived[answer.run])
    <2>1. \A r \in BadgeRuns : read[r] \subseteq JobsOf[r]
        BY <1>1, BadgeReported
    <2>2. PICK m \in BadgeRuns :
              /\ Badge!Latest(read, s) = [run |-> m, jobs |-> Badge!Cardinality(read[m])]
              /\ Badge!InStream(m, s)
        BY <1>1, <2>1, BadgeLatest
    <2>3. Badge!Cardinality(read[m]) <= Badge!Cardinality(badgeArrived[m])
        BY <1>1, BadgeReported, BadgeCounts
    <2> QED
        BY <2>2, <2>3
<1>2. Badge!LatestStored(s) = Badge!Latest(badgeStored, s)
    <2>1. CASE Badge!Latest(badgeStored, s) = Badge!None
        BY <2>1 DEF Badge!LatestStored
    <2>2. CASE Badge!Latest(badgeStored, s) # Badge!None
        <3>1. PICK m \in BadgeRuns :
                  Badge!Latest(badgeStored, s) = [run |-> m, jobs |-> Badge!Cardinality(badgeStored[m])]
            BY <2>2, BadgeReported, BadgeLatest
        <3> QED
            BY <2>2, <3>1 DEF Badge!LatestStored, Badge!JobCount
    <2> QED
        BY <2>1, <2>2
<1>3. Badge!Sound(s, Badge!Latest(badgeStored, s), "metrics")
    <2>1. Badge!Further(Badge!Latest(badgeStored, s), Badge!Latest(badgeStored, s))
        BY BadgeReported, BadgeFurther
    <2> QED
        BY <1>1, <2>1, BadgeReported DEF Badge!Sound
<1>4. QED
    <2> SUFFICES ASSUME NEW read, \A r \in BadgeRuns : read[r] \subseteq badgeArrived[r]
                 PROVE  Badge!Latest(read, s) \in Badge!Answers /\ Badge!Sound(s, Badge!Latest(read, s), "traces")
        BY <1>2, <1>3
    <2>1. \A r \in BadgeRuns : read[r] \subseteq JobsOf[r]
        BY BadgeReported
    <2> QED
        BY <1>1, <2>1, BadgeAnswers DEF Badge!Sound

\* The traces tell of a run, or a scrape is made.
LEMMA BadgeInitTold == Badge!Suited /\ Badge!Init => Badge!Told
<1> SUFFICES ASSUME Badge!Suited, Badge!Init
             PROVE  Badge!Told
    OBVIOUS
<1>1. /\ badgeClock = 1 /\ badgeArrived = [r \in BadgeRuns |-> {}] /\ lastTrace = [r \in BadgeRuns |-> 0]
      /\ badgePayload = badgeArrived /\ badgeStored = badgeArrived
      /\ memo = [s \in Streams |-> Badge!NoMemo] /\ badgeRequest = [q \in BadgeRequests |-> Badge!Idle]
      /\ badgeNewest = [s \in Streams |-> Badge!None]
      /\ told.stream \in Streams /\ told = [stream |-> told.stream, answer |-> Badge!None, from |-> "metrics", floor |-> Badge!None]
    BY DEF Badge!Init, Badge!Suited
<1>2. Badge!None \in Badge!Answers /\ Badge!NoMemo = [until |-> 0, answer |-> Badge!None, from |-> "metrics"]
      /\ Badge!NoMemo \in [until : Nat, answer : Badge!Answers, from : Badge!Sources]
    BY DEF Badge!None, Badge!Answers, Badge!NoMemo, Badge!Sources
<1>3. Badge!TypeOK
    BY <1>1, <1>2 DEF Badge!TypeOK, Badge!Sources
<1>4. Badge!Published /\ Badge!Outlasted
    BY <1>1 DEF Badge!Published, Badge!Outlasted
<1>5. \A s \in Streams : Badge!Latest(badgeStored, s) = Badge!None
    BY <1>1, BadgeLatest
<1>6. Badge!Further(Badge!None, Badge!None)
    BY <1>2, BadgeFurther
<1>7. \A s \in Streams : Badge!Sound(s, Badge!None, "metrics")
    BY <1>5, <1>6 DEF Badge!Sound
<1>8. BadgeKeep \in Nat
    BY DEF Badge!Suited
<1>9. \A s \in Streams : Badge!Remembered(s) /\ Badge!Further(Badge!Latest(badgeStored, s), badgeNewest[s])
    <2> TAKE s \in Streams
    <2>1. memo[s].until = 0 /\ memo[s].answer = Badge!None /\ memo[s].from = "metrics"
        BY <1>1, <1>2
    <2>2. badgeNewest[s] = Badge!None /\ badgeClock = 1
        BY <1>1
    <2>3. memo[s].until <= badgeClock + BadgeKeep /\ ~(badgeClock < memo[s].until)
        BY <1>8, <2>1, <2>2
    <2> QED
        BY <1>5, <1>6, <1>7, <2>1, <2>2, <2>3 DEF Badge!Remembered
<1>10. \A q \in BadgeRequests : Badge!Asked(q)
    BY <1>1 DEF Badge!Asked, Badge!Pending
<1>11. Badge!NeverBack /\ Badge!Sound(told.stream, told.answer, told.from)
    BY <1>1, <1>6, <1>7 DEF Badge!NeverBack
<1>12. QED
    BY <1>3, <1>4, <1>9, <1>10, <1>11 DEF Badge!Told

\* Every step keeps the types.
LEMMA BadgeTyped ==
    ASSUME Badge!Suited, Badge!Told, Badge!Next
    PROVE  Badge!TypeOK'
<1> USE DEF Badge!TypeOK
<1>0. /\ Badge!TypeOK /\ BadgeKeep \in Nat /\ Window \in Nat
      /\ Badge!Sources = {"metrics", "traces"}
    BY BadgeReported DEF Badge!Suited, Badge!Sources
<1>1. ASSUME NEW r \in BadgeRuns, NEW j \in JobsOf[r], Badge!Arrive(r, j) PROVE Badge!TypeOK'
    <2>1. j \in Badge!Jobs
        BY DEF Badge!Jobs
    <2> QED
        BY <1>0, <1>1, <2>1 DEF Badge!Arrive
<1>2. CASE Badge!Tick
    <2>1. badgePayload' \in [BadgeRuns -> SUBSET Badge!Jobs] /\ badgeClock' \in Nat
        BY <1>0, <1>2 DEF Badge!Tick
    <2>2. badgeStored' \in [BadgeRuns -> SUBSET Badge!Jobs]
        BY <1>0, <1>2, <2>1 DEF Badge!Tick
    <2> QED
        BY <1>0, <1>2, <2>1, <2>2 DEF Badge!Tick
<1>3. ASSUME NEW q \in BadgeRequests, NEW s \in Streams, NEW answer \in Badge!Answers,
             NEW from \in Badge!Sources, NEW floor \in Badge!Answers,
             Badge!Answered(q, s, answer, from, floor)
      PROVE  /\ badgeRequest' \in [BadgeRequests -> {Badge!Idle}
                    \union [step : {"asking", "searching"}, stream : Streams, since : Nat, floor : Badge!Answers]
                    \union [step : {"found"}, stream : Streams, since : Nat, floor : Badge!Answers,
                            answer : Badge!Answers, from : Badge!Sources]]
             /\ badgeNewest' \in [Streams -> Badge!Answers]
             /\ told' \in [stream : Streams, answer : Badge!Answers, from : Badge!Sources, floor : Badge!Answers]
    BY <1>0, <1>3 DEF Badge!Answered
<1>4. \A s \in Streams : /\ badgeNewest[s] \in Badge!Answers
                         /\ memo[s].answer \in Badge!Answers /\ memo[s].from \in Badge!Sources
    BY <1>0
<1>5. ASSUME NEW q \in BadgeRequests, NEW s \in Streams, Badge!FromPayload(q, s) PROVE Badge!TypeOK'
    <2>1. Badge!Latest(badgePayload, s) \in Badge!Answers /\ "metrics" \in Badge!Sources
        BY <1>0, BadgeReported, BadgeAnswers
    <2> QED
        BY <1>0, <1>3, <1>4, <1>5, <2>1 DEF Badge!FromPayload
<1>6. ASSUME NEW q \in BadgeRequests, NEW s \in Streams, Badge!FromMemo(q, s) PROVE Badge!TypeOK'
    BY <1>0, <1>3, <1>4, <1>6 DEF Badge!FromMemo
<1>7. ASSUME NEW q \in BadgeRequests, NEW s \in Streams, Badge!Ask(q, s) PROVE Badge!TypeOK'
    BY <1>0, <1>4, <1>7 DEF Badge!Ask
<1>8. ASSUME NEW q \in BadgeRequests, badgeRequest[q].step \in {"asking", "searching", "found"}
      PROVE  /\ badgeRequest[q].stream \in Streams /\ badgeRequest[q].since \in Nat
             /\ badgeRequest[q].floor \in Badge!Answers
             /\ badgeRequest[q].step = "found" =>
                   badgeRequest[q].answer \in Badge!Answers /\ badgeRequest[q].from \in Badge!Sources
    BY <1>0, <1>8 DEF Badge!Idle
<1>9. ASSUME NEW q \in BadgeRequests, badgeRequest[q].step \in {"asking", "searching"},
             NEW answer \in Badge!Answers, NEW from \in Badge!Sources, Badge!Found(q, answer, from)
      PROVE  badgeRequest' \in [BadgeRequests -> {Badge!Idle}
                    \union [step : {"asking", "searching"}, stream : Streams, since : Nat, floor : Badge!Answers]
                    \union [step : {"found"}, stream : Streams, since : Nat, floor : Badge!Answers,
                            answer : Badge!Answers, from : Badge!Sources]]
    <2>1. badgeRequest[q].step \in {"asking", "searching", "found"}
        BY <1>9
    <2>2. [step |-> "found", stream |-> badgeRequest[q].stream, since |-> badgeRequest[q].since,
           floor |-> badgeRequest[q].floor, answer |-> answer, from |-> from]
             \in [step : {"found"}, stream : Streams, since : Nat, floor : Badge!Answers,
                  answer : Badge!Answers, from : Badge!Sources]
        BY <1>8, <1>9, <2>1
    <2> QED
        BY <1>0, <1>9, <2>2 DEF Badge!Found
<1>10. ASSUME NEW q \in BadgeRequests, Badge!PrometheusAnswers(q) PROVE Badge!TypeOK'
    <2>1. badgeRequest[q].step = "asking" /\ badgeRequest[q].stream \in Streams
        BY <1>8, <1>10 DEF Badge!PrometheusAnswers
    <2>2. Badge!LatestStored(badgeRequest[q].stream) \in Badge!Answers /\ "metrics" \in Badge!Sources
        BY <1>0, <2>1, BadgeReported, BadgeSound
    <2> QED
        BY <1>0, <1>9, <1>10, <2>1, <2>2 DEF Badge!PrometheusAnswers
<1>11. ASSUME NEW q \in BadgeRequests, Badge!PrometheusFails(q) PROVE Badge!TypeOK'
    <2>1. badgeRequest[q].step = "asking" /\ badgeRequest[q] \in [step : {"asking", "searching"}, stream : Streams, since : Nat, floor : Badge!Answers]
        BY <1>0, <1>11 DEF Badge!PrometheusFails, Badge!Idle
    <2> QED
        BY <1>0, <1>11, <2>1 DEF Badge!PrometheusFails
<1>12. ASSUME NEW q \in BadgeRequests, Badge!SearchTraces(q) PROVE Badge!TypeOK'
    <2>1. badgeRequest[q].step = "searching" /\ badgeRequest[q].stream \in Streams
        BY <1>8, <1>12 DEF Badge!SearchTraces
    <2>2. PICK read \in [BadgeRuns -> SUBSET UNION {JobsOf[r] : r \in BadgeRuns}] :
              /\ \A r \in BadgeRuns : read[r] \subseteq badgeArrived[r]
              /\ Badge!Found(q, Badge!Latest(read, badgeRequest[q].stream), "traces")
        BY <1>12 DEF Badge!SearchTraces
    <2>3. Badge!Latest(read, badgeRequest[q].stream) \in Badge!Answers /\ "traces" \in Badge!Sources
        BY <1>0, <2>1, <2>2, BadgeSound
    <2> QED
        BY <1>0, <1>9, <1>12, <2>1, <2>2, <2>3 DEF Badge!SearchTraces
<1>13. ASSUME NEW q \in BadgeRequests, Badge!Remember(q) PROVE Badge!TypeOK'
    <2>1. /\ badgeRequest[q].stream \in Streams /\ badgeRequest[q].floor \in Badge!Answers
          /\ badgeRequest[q].answer \in Badge!Answers /\ badgeRequest[q].from \in Badge!Sources
        BY <1>8, <1>13 DEF Badge!Remember
    <2>2. Badge!Until \in Nat
        BY <1>0 DEF Badge!Until
    <2>3. memo' \in [Streams -> [until : Nat, answer : Badge!Answers, from : Badge!Sources]]
        BY <1>0, <1>13, <2>1, <2>2 DEF Badge!Remember
    <2> QED
        BY <1>0, <1>3, <1>13, <2>1, <2>3 DEF Badge!Remember
<1>14. QED
    BY <1>1, <1>2, <1>5, <1>6, <1>7, <1>10, <1>11, <1>12, <1>13 DEF Badge!Next

\* A report and a tick: what was remembered or asked for still holds of what is known now.
LEMMA BadgeGrown ==
    ASSUME Badge!Suited, Badge!Told, Badge!TypeOK',
           UNCHANGED <<memo, badgeRequest, badgeNewest, told>>,
           Badge!Published', Badge!Outlasted', badgeClock <= badgeClock',
           \A r \in BadgeRuns : badgeArrived[r] \subseteq badgeArrived'[r] /\ badgeStored[r] \subseteq badgeStored'[r],
           \A q \in BadgeRequests : Badge!Pending(q) => badgeClock' <= badgeRequest[q].since + ReadTime,
           \A s \in Streams, answer \in Badge!Answers, until \in Nat :
              until <= badgeClock + Window /\ badgeClock' <= until /\ Badge!Current(s, answer, until)
                 => \/ answer = Badge!Latest(badgeStored', s)
                    \/ \E r \in BadgeRuns : /\ Badge!InStream(r, s) /\ badgePayload'[r] # {}
                                          /\ until <= lastTrace'[r] + Window
    PROVE  Badge!Told'
<1>0. /\ Badge!TypeOK /\ {Window, BadgeKeep, ReadTime} \subseteq Nat /\ Window >= BadgeKeep + ReadTime
      /\ badgeClock \in Nat /\ badgeClock' \in Nat
    BY BadgeReported DEF Badge!Suited, Badge!TypeOK
<1>1. ASSUME NEW s \in Streams, NEW answer \in Badge!Answers, Badge!Further(Badge!Latest(badgeStored, s), answer)
      PROVE  Badge!Further(Badge!Latest(badgeStored', s), answer)
    <2>1. \A r \in BadgeRuns : badgeStored[r] \subseteq badgeStored'[r] /\ badgeStored'[r] \subseteq JobsOf[r]
        BY DEF Badge!Published
    <2>2. Badge!Further(Badge!Latest(badgeStored', s), Badge!Latest(badgeStored, s))
        BY <2>1, BadgeGrows
    <2>3. Badge!Latest(badgeStored', s) \in Badge!Answers /\ Badge!Latest(badgeStored, s) \in Badge!Answers
        BY <2>1, BadgeReported, BadgeAnswers
    <2> QED
        BY <1>1, <2>2, <2>3, BadgeFurther
<1>2. ASSUME NEW s \in Streams, NEW answer \in Badge!Answers, NEW from, Badge!Sound(s, answer, from)
      PROVE  /\ answer # Badge!None => /\ answer.run \in BadgeRuns /\ Badge!InStream(answer.run, s)
                                      /\ answer.jobs <= Badge!Cardinality(badgeArrived'[answer.run])
             /\ from = "metrics" => Badge!Further(Badge!Latest(badgeStored', s), answer)
    <2>1. ASSUME answer # Badge!None
          PROVE  /\ answer.run \in BadgeRuns /\ Badge!InStream(answer.run, s)
                 /\ answer.jobs <= Badge!Cardinality(badgeArrived'[answer.run])
        <3>1. /\ answer.run \in BadgeRuns /\ Badge!InStream(answer.run, s) /\ answer.jobs \in Nat
              /\ answer.jobs <= Badge!Cardinality(badgeArrived[answer.run])
            BY <1>2, <2>1 DEF Badge!Sound, Badge!Answers
        <3>2. badgeArrived'[answer.run] \subseteq JobsOf[answer.run]
              /\ badgeArrived[answer.run] \subseteq badgeArrived'[answer.run]
            BY <3>1 DEF Badge!Published
        <3>3. /\ Badge!Cardinality(badgeArrived[answer.run]) \in Nat
              /\ Badge!Cardinality(badgeArrived'[answer.run]) \in Nat
              /\ Badge!Cardinality(badgeArrived[answer.run]) <= Badge!Cardinality(badgeArrived'[answer.run])
            BY <3>1, <3>2, BadgeCounts
        <3> QED
            BY <3>1, <3>3
    <2> QED
        BY <1>1, <1>2, <2>1 DEF Badge!Sound
<1>3. ASSUME NEW s \in Streams
      PROVE  Badge!Remembered(s)' /\ Badge!Further(Badge!Latest(badgeStored', s), badgeNewest'[s])
    <2>1. /\ memo[s].answer \in Badge!Answers /\ memo[s].until \in Nat /\ badgeNewest[s] \in Badge!Answers
          /\ memo' = memo /\ badgeNewest' = badgeNewest
        BY <1>0 DEF Badge!TypeOK
    <2>2. /\ memo[s].until <= badgeClock + BadgeKeep /\ Badge!Sound(s, memo[s].answer, memo[s].from)
          /\ memo[s].from = "metrics" /\ badgeClock < memo[s].until
                => Badge!Current(s, memo[s].answer, memo[s].until)
          /\ Badge!Further(Badge!Latest(badgeStored, s), badgeNewest[s])
        BY DEF Badge!Told, Badge!Remembered
    <2>3. /\ memo[s].until <= badgeClock' + BadgeKeep /\ memo[s].until <= badgeClock + Window
          /\ badgeClock' < memo[s].until => badgeClock < memo[s].until /\ badgeClock' <= memo[s].until
        BY <1>0, <2>1, <2>2
    <2>4. ASSUME memo[s].from = "metrics", badgeClock' < memo[s].until
          PROVE  \/ memo[s].answer = Badge!Latest(badgeStored', s)
                 \/ \E r \in BadgeRuns : /\ Badge!InStream(r, s) /\ badgePayload'[r] # {}
                                       /\ memo[s].until <= lastTrace'[r] + Window
        BY <2>1, <2>2, <2>3, <2>4
    <2>5. Badge!Sound(s, memo[s].answer, memo[s].from)'
        <3>1. /\ memo[s].answer # Badge!None => /\ memo[s].answer.run \in BadgeRuns
                                              /\ Badge!InStream(memo[s].answer.run, s)
                                              /\ memo[s].answer.jobs <= Badge!Cardinality(badgeArrived'[memo[s].answer.run])
              /\ memo[s].from = "metrics" => Badge!Further(Badge!Latest(badgeStored', s), memo[s].answer)
            BY <1>2, <2>1, <2>2
        <3> QED
            BY <2>1, <3>1 DEF Badge!Sound
    <2>6. Badge!Remembered(s)'
        BY <2>1, <2>3, <2>4, <2>5 DEF Badge!Remembered, Badge!Current
    <2> QED
        BY <1>1, <2>1, <2>2, <2>6
<1>4. ASSUME NEW q \in BadgeRequests
      PROVE  Badge!Asked(q)'
    <2>0. badgeRequest' = badgeRequest /\ Badge!Pending(q)' = Badge!Pending(q)
        BY DEF Badge!Pending
    <2>1. CASE Badge!Pending(q)
        <3>1. /\ badgeRequest[q].stream \in Streams /\ badgeRequest[q].since \in Nat
              /\ badgeRequest[q].floor \in Badge!Answers
              /\ badgeRequest[q].step = "found" => badgeRequest[q].answer \in Badge!Answers
            BY <1>0, <2>1 DEF Badge!TypeOK, Badge!Pending
        <3>2. /\ badgeRequest[q].since <= badgeClock
              /\ Badge!Further(Badge!Latest(badgeStored, badgeRequest[q].stream), badgeRequest[q].floor)
              /\ badgeRequest[q].step = "found" =>
                    Badge!Sound(badgeRequest[q].stream, badgeRequest[q].answer, badgeRequest[q].from)
              /\ badgeRequest[q].step = "found" /\ badgeRequest[q].from = "metrics" =>
                    /\ Badge!Further(badgeRequest[q].answer, badgeRequest[q].floor)
                    /\ Badge!Current(badgeRequest[q].stream, badgeRequest[q].answer, badgeRequest[q].since + Window)
            BY <2>1 DEF Badge!Told, Badge!Asked
        <3>3. /\ badgeRequest[q].since <= badgeClock' /\ badgeClock' <= badgeRequest[q].since + ReadTime
              /\ badgeRequest[q].since + Window \in Nat
              /\ badgeRequest[q].since + Window <= badgeClock + Window
              /\ badgeClock' <= badgeRequest[q].since + Window
            BY <1>0, <2>1, <3>1, <3>2
        <3>4. Badge!Further(Badge!Latest(badgeStored', badgeRequest[q].stream), badgeRequest[q].floor)
            BY <1>1, <3>1, <3>2
        <3>5. ASSUME badgeRequest[q].step = "found"
              PROVE  Badge!Sound(badgeRequest[q].stream, badgeRequest[q].answer, badgeRequest[q].from)'
            BY <1>2, <2>0, <3>1, <3>2, <3>5 DEF Badge!Sound
        <3>6. ASSUME badgeRequest[q].step = "found", badgeRequest[q].from = "metrics"
              PROVE  Badge!Current(badgeRequest[q].stream, badgeRequest[q].answer, badgeRequest[q].since + Window)'
            BY <2>0, <3>1, <3>2, <3>3, <3>6 DEF Badge!Current
        <3> QED
            BY <2>0, <3>2, <3>3, <3>4, <3>5, <3>6 DEF Badge!Asked
    <2>2. CASE ~Badge!Pending(q)
        BY <2>0, <2>2 DEF Badge!Asked
    <2> QED
        BY <2>1, <2>2
<1>5. told' = told /\ told.stream \in Streams /\ told.answer \in Badge!Answers
      /\ Badge!Sound(told.stream, told.answer, told.from) /\ Badge!NeverBack
    BY <1>0 DEF Badge!TypeOK, Badge!Told
<1>6. Badge!Sound(told.stream, told.answer, told.from)'
    <2>1. /\ told.answer # Badge!None => /\ told.answer.run \in BadgeRuns
                                        /\ Badge!InStream(told.answer.run, told.stream)
                                        /\ told.answer.jobs <= Badge!Cardinality(badgeArrived'[told.answer.run])
          /\ told.from = "metrics" => Badge!Further(Badge!Latest(badgeStored', told.stream), told.answer)
        BY <1>2, <1>5
    <2> QED
        BY <1>5, <2>1 DEF Badge!Sound
<1>7. Badge!NeverBack'
    BY <1>5 DEF Badge!NeverBack
<1>8. QED
    BY <1>3, <1>4, <1>6, <1>7 DEF Badge!Told

LEMMA BadgeArrives ==
    ASSUME Badge!Suited, Badge!Told, Badge!TypeOK', NEW r0 \in BadgeRuns, NEW j \in JobsOf[r0], Badge!Arrive(r0, j)
    PROVE  Badge!Told'
<1>0. /\ Badge!TypeOK /\ Badge!Published /\ Badge!Outlasted
      /\ badgeClock \in Nat /\ lastTrace \in [BadgeRuns -> Nat] /\ BadgeRuns \subseteq Nat /\ Window \in Nat
    BY DEF Badge!Told, Badge!TypeOK, Badge!Suited
<1>1. /\ UNCHANGED <<badgeClock, badgePayload, badgeStored, memo, badgeRequest, badgeNewest, told>>
      /\ badgeArrived'[r0] = badgeArrived[r0] \union {j} /\ lastTrace'[r0] = badgeClock
      /\ \A r \in BadgeRuns : r # r0 => badgeArrived'[r] = badgeArrived[r] /\ lastTrace'[r] = lastTrace[r]
      /\ \A n \in BadgeRuns : n > r0 /\ Badge!SameStream(r0, n) => badgeArrived[n] = {}
    BY <1>0 DEF Badge!Arrive, Badge!TypeOK
<1>2. Badge!Published'
    <2> SUFFICES ASSUME NEW r \in BadgeRuns
                 PROVE  /\ badgeArrived'[r] \subseteq JobsOf[r] /\ badgeStored'[r] \subseteq badgeArrived'[r]
                        /\ badgePayload'[r] \in {{}, badgeStored'[r]}
                        /\ lastTrace'[r] <= badgeClock'
                        /\ badgeStored'[r] # badgeArrived'[r] => lastTrace'[r] = badgeClock'
        BY DEF Badge!Published
    <2>1. badgeClock <= badgeClock
        BY <1>0
    <2> QED
        BY <1>0, <1>1, <2>1 DEF Badge!Published
<1>3. Badge!Outlasted'
    <2> SUFFICES ASSUME NEW r \in BadgeRuns, NEW n \in BadgeRuns, r < n, Badge!SameStream(r, n)
                 PROVE  /\ badgeArrived'[r] # {} /\ badgeArrived'[n] # {} => lastTrace'[r] <= lastTrace'[n]
                        /\ badgePayload'[r] # {} /\ badgeStored'[n] # {} => badgePayload'[n] # {}
        BY DEF Badge!Outlasted, Badge!SameStream
    <2>1. badgePayload'[r] # {} /\ badgeStored'[n] # {} => badgePayload'[n] # {}
        BY <1>0, <1>1 DEF Badge!Outlasted
    <2>2. CASE r = r0
        BY <1>0, <1>1, <2>1, <2>2
    <2>3. CASE r # r0 /\ n = r0
        BY <1>0, <1>1, <2>1, <2>3 DEF Badge!Published
    <2>4. CASE r # r0 /\ n # r0
        BY <1>0, <1>1, <2>1, <2>4 DEF Badge!Outlasted
    <2> QED
        BY <2>2, <2>3, <2>4
<1>4. ASSUME NEW q \in BadgeRequests, Badge!Pending(q) PROVE badgeClock' <= badgeRequest[q].since + ReadTime
    BY <1>1, <1>4 DEF Badge!Told, Badge!Asked
<1>5. ASSUME NEW s \in Streams, NEW answer \in Badge!Answers, NEW until \in Nat, Badge!Current(s, answer, until)
      PROVE  \/ answer = Badge!Latest(badgeStored', s)
             \/ \E r \in BadgeRuns : /\ Badge!InStream(r, s) /\ badgePayload'[r] # {}
                                   /\ until <= lastTrace'[r] + Window
    <2>1. CASE answer = Badge!Latest(badgeStored, s)
        BY <1>1, <2>1
    <2>2. CASE answer # Badge!Latest(badgeStored, s)
        <3>1. PICK r \in BadgeRuns : Badge!InStream(r, s) /\ badgePayload[r] # {} /\ until <= lastTrace[r] + Window
            BY <1>5, <2>2 DEF Badge!Current
        <3>2. lastTrace[r] <= lastTrace'[r] /\ lastTrace[r] \in Nat /\ lastTrace'[r] \in Nat
            BY <1>0, <1>1 DEF Badge!Published
        <3>3. until <= lastTrace'[r] + Window
            BY <1>0, <3>1, <3>2
        <3> QED
            BY <1>1, <3>1, <3>3
    <2> QED
        BY <2>1, <2>2
<1>6. \A r \in BadgeRuns : badgeArrived[r] \subseteq badgeArrived'[r] /\ badgeStored[r] \subseteq badgeStored'[r]
    BY <1>1
<1>7. badgeClock <= badgeClock'
    BY <1>0, <1>1
<1>8. QED
    BY <1>1, <1>2, <1>3, <1>4, <1>5, <1>6, <1>7, BadgeGrown

\* What is published anew reported within the last tick, and stays for a window.
LEMMA BadgeTicks ==
    ASSUME Badge!Suited, Badge!Told, Badge!TypeOK', Badge!Tick
    PROVE  Badge!Told'
<1>0. /\ Badge!TypeOK /\ Badge!Published /\ Badge!Outlasted
      /\ badgeClock \in Nat /\ lastTrace \in [BadgeRuns -> Nat] /\ BadgeRuns \subseteq Nat
      /\ Window \in Nat /\ ReadTime \in Nat /\ Window > 0
    BY DEF Badge!Told, Badge!TypeOK, Badge!Suited
<1>1. /\ UNCHANGED <<badgeArrived, lastTrace, memo, badgeRequest, badgeNewest, told>>
      /\ badgeClock' = badgeClock + 1
      /\ \A r \in BadgeRuns :
            /\ badgePayload'[r] = IF badgeClock' - lastTrace[r] <= Window THEN badgeArrived[r] ELSE {}
            /\ badgeStored'[r] = badgeStored[r] \union badgePayload'[r]
      /\ \A q \in BadgeRequests : Badge!Pending(q) => badgeClock - badgeRequest[q].since < ReadTime
    BY DEF Badge!Tick
<1>2. Badge!Published'
    <2> SUFFICES ASSUME NEW r \in BadgeRuns
                 PROVE  /\ badgeArrived'[r] \subseteq JobsOf[r] /\ badgeStored'[r] \subseteq badgeArrived'[r]
                        /\ badgePayload'[r] \in {{}, badgeStored'[r]}
                        /\ lastTrace'[r] <= badgeClock'
                        /\ badgeStored'[r] # badgeArrived'[r] => lastTrace'[r] = badgeClock'
        BY DEF Badge!Published
    <2>1. /\ badgeArrived[r] \subseteq JobsOf[r] /\ badgeStored[r] \subseteq badgeArrived[r]
          /\ lastTrace[r] <= badgeClock /\ lastTrace[r] \in Nat
          /\ badgeStored[r] # badgeArrived[r] => lastTrace[r] = badgeClock
        BY <1>0 DEF Badge!Published
    <2>2. badgePayload'[r] \in {{}, badgeArrived[r]}
        BY <1>1
    <2>3. lastTrace'[r] <= badgeClock'
        BY <1>0, <1>1, <2>1
    <2>4. lastTrace[r] = badgeClock => badgePayload'[r] = badgeArrived[r]
        BY <1>0, <1>1, <2>1
    <2>5. badgeStored'[r] = badgeStored[r] \union badgePayload'[r] /\ badgeArrived' = badgeArrived
        BY <1>1
    <2>6. badgeStored'[r] = badgeArrived'[r]
        BY <2>1, <2>2, <2>4, <2>5
    <2> QED
        BY <2>1, <2>2, <2>3, <2>5, <2>6
<1>3. Badge!Outlasted'
    <2> SUFFICES ASSUME NEW r \in BadgeRuns, NEW n \in BadgeRuns, r < n, Badge!SameStream(r, n)
                 PROVE  /\ badgeArrived'[r] # {} /\ badgeArrived'[n] # {} => lastTrace'[r] <= lastTrace'[n]
                        /\ badgePayload'[r] # {} /\ badgeStored'[n] # {} => badgePayload'[n] # {}
        BY DEF Badge!Outlasted, Badge!SameStream
    <2>1. badgeArrived[r] # {} /\ badgeArrived[n] # {} => lastTrace[r] <= lastTrace[n]
        BY <1>0 DEF Badge!Outlasted
    <2>2. ASSUME badgePayload'[r] # {}, badgeStored'[n] # {}
          PROVE  badgePayload'[n] # {}
        <3>1. badgeArrived[n] # {} /\ badgeArrived[r] # {} /\ badgeClock' - lastTrace[r] <= Window
            BY <1>0, <1>1, <2>2 DEF Badge!Published
        <3>2. lastTrace[r] \in Nat /\ lastTrace[n] \in Nat /\ badgeClock' \in Nat
            BY <1>0, <1>1
        <3>3. badgeClock' - lastTrace[n] <= Window
            BY <1>0, <2>1, <3>1, <3>2
        <3> QED
            BY <1>1, <3>1, <3>3
    <2> QED
        BY <1>1, <2>1, <2>2
<1>4. ASSUME NEW q \in BadgeRequests, Badge!Pending(q) PROVE badgeClock' <= badgeRequest[q].since + ReadTime
    <2>1. badgeRequest[q].since \in Nat
        BY <1>0, <1>4 DEF Badge!TypeOK, Badge!Pending
    <2> QED
        BY <1>0, <1>1, <1>4, <2>1
<1>5. ASSUME NEW s \in Streams, NEW answer \in Badge!Answers, NEW until \in Nat,
             until <= badgeClock + Window, badgeClock' <= until, Badge!Current(s, answer, until)
      PROVE  \/ answer = Badge!Latest(badgeStored', s)
             \/ \E r \in BadgeRuns : /\ Badge!InStream(r, s) /\ badgePayload'[r] # {}
                                   /\ until <= lastTrace'[r] + Window
    <2>1. CASE \E r \in BadgeRuns : Badge!InStream(r, s) /\ badgePayload[r] # {} /\ until <= lastTrace[r] + Window
        <3>1. PICK r \in BadgeRuns : Badge!InStream(r, s) /\ badgePayload[r] # {} /\ until <= lastTrace[r] + Window
            BY <2>1
        <3>2. badgeArrived[r] # {} /\ lastTrace[r] \in Nat
            BY <1>0, <3>1 DEF Badge!Published
        <3>3. badgeClock' - lastTrace[r] <= Window
            BY <1>0, <1>1, <1>5, <3>1, <3>2
        <3> QED
            BY <1>1, <3>1, <3>2, <3>3
    <2>2. CASE \E r \in BadgeRuns : Badge!InStream(r, s) /\ badgeStored'[r] # badgeStored[r]
        <3>1. PICK r \in BadgeRuns : Badge!InStream(r, s) /\ badgeStored'[r] # badgeStored[r]
            BY <2>2
        <3>2. badgePayload'[r] # {} /\ badgeStored[r] # badgeArrived[r]
            BY <1>0, <1>1, <3>1 DEF Badge!Published
        <3>3. lastTrace'[r] = badgeClock
            BY <1>0, <1>1, <3>2 DEF Badge!Published
        <3> QED
            BY <1>5, <3>1, <3>2, <3>3
    <2>3. CASE /\ answer = Badge!Latest(badgeStored, s)
               /\ \A r \in BadgeRuns : Badge!InStream(r, s) => badgeStored'[r] = badgeStored[r]
        <3>1. CASE answer = Badge!None
            <4>1. \A r \in BadgeRuns : Badge!InStream(r, s) => badgeStored[r] = {}
                BY <2>3, <3>1, BadgeReported, BadgeLatest
            <4>2. \A r \in BadgeRuns : badgeStored'[r] \subseteq JobsOf[r]
                BY <1>2 DEF Badge!Published
            <4>3. Badge!Latest(badgeStored', s) = Badge!None
                BY <2>3, <4>1, <4>2, BadgeLatest
            <4> QED
                BY <3>1, <4>3
        <3>2. CASE answer # Badge!None
            <4>1. PICK m \in BadgeRuns :
                      /\ answer = [run |-> m, jobs |-> Badge!Cardinality(badgeStored[m])]
                      /\ Badge!InStream(m, s) /\ badgeStored[m] # {}
                      /\ \A r \in BadgeRuns : Badge!InStream(r, s) /\ badgeStored[r] # {} => r <= m
                BY <2>3, <3>2, BadgeReported, BadgeLatest
            <4>2. \A r \in BadgeRuns : badgeStored'[r] \subseteq JobsOf[r]
                BY <1>2 DEF Badge!Published
            <4>3. badgeStored'[m] # {}
                BY <2>3, <4>1
            <4>4. PICK n \in BadgeRuns :
                      /\ Badge!Latest(badgeStored', s) = [run |-> n, jobs |-> Badge!Cardinality(badgeStored'[n])]
                      /\ Badge!InStream(n, s) /\ badgeStored'[n] # {}
                      /\ m <= n
                BY <4>1, <4>2, <4>3, BadgeLatest
            <4>5. n <= m /\ badgeStored'[m] = badgeStored[m]
                BY <2>3, <4>1, <4>4
            <4>6. n = m
                BY <1>0, <4>4, <4>5
            <4> QED
                BY <4>1, <4>4, <4>5, <4>6
        <3> QED
            BY <3>1, <3>2
    <2> QED
        BY <1>5, <2>1, <2>2, <2>3 DEF Badge!Current
<1>6. \A r \in BadgeRuns : badgeArrived[r] \subseteq badgeArrived'[r] /\ badgeStored[r] \subseteq badgeStored'[r]
    BY <1>1
<1>7. badgeClock <= badgeClock'
    BY <1>0, <1>1
<1>8. QED
    BY <1>1, <1>2, <1>3, <1>4, <1>5, <1>6, <1>7, BadgeGrown

\* A request's step leaves what is known, and what others were told or ask, alone.
LEMMA BadgeOthers ==
    ASSUME Badge!Told, Badge!TypeOK',
           UNCHANGED <<badgeClock, badgeArrived, lastTrace, badgePayload, badgeStored>>,
           \A q \in BadgeRequests : badgeRequest'[q] = badgeRequest[q] \/ Badge!Asked(q)',
           \A s \in Streams : memo'[s] = memo[s] \/ Badge!Remembered(s)',
           \A s \in Streams : \/ badgeNewest'[s] = badgeNewest[s]
                             \/ Badge!Further(Badge!Latest(badgeStored, s), badgeNewest'[s]),
           Badge!NeverBack', Badge!Sound(told.stream, told.answer, told.from)'
    PROVE  Badge!Told'
<1>1. Badge!Published' /\ Badge!Outlasted'
    BY DEF Badge!Told, Badge!Published, Badge!Outlasted
<1>2. ASSUME NEW s \in Streams
      PROVE  Badge!Remembered(s)' /\ Badge!Further(Badge!Latest(badgeStored, s), badgeNewest[s])'
    <2>1. Badge!Further(Badge!Latest(badgeStored, s), badgeNewest'[s])
        BY DEF Badge!Told
    <2>2. CASE memo'[s] = memo[s]
        BY <2>2 DEF Badge!Told, Badge!Remembered, Badge!Sound, Badge!Current
    <2> QED
        BY <2>1, <2>2
<1>3. ASSUME NEW q \in BadgeRequests PROVE Badge!Asked(q)'
    BY DEF Badge!Told, Badge!Asked, Badge!Pending, Badge!Sound, Badge!Current
<1>4. QED
    BY <1>1, <1>2, <1>3 DEF Badge!Told

\* A request is told what is sound and, of Prometheus, no less than was told before.
LEMMA BadgeAnswered ==
    ASSUME Badge!Told, Badge!TypeOK', NEW q \in BadgeRequests, NEW s \in Streams,
           NEW answer, NEW from, NEW floor, Badge!Answered(q, s, answer, from, floor),
           UNCHANGED <<badgeClock, badgeArrived, lastTrace, badgePayload, badgeStored>>,
           Badge!Sound(s, answer, from), from = "metrics" => Badge!Further(answer, floor),
           \A t \in Streams : memo'[t] = memo[t] \/ Badge!Remembered(t)'
    PROVE  Badge!Told'
<1>0. badgeRequest \in [BadgeRequests -> {badgeRequest[p] : p \in BadgeRequests}]
      /\ badgeNewest \in [Streams -> Badge!Answers]
    BY DEF Badge!Told, Badge!TypeOK
<1>1. /\ badgeRequest' = [badgeRequest EXCEPT ![q] = Badge!Idle]
      /\ told' = [stream |-> s, answer |-> answer, from |-> from, floor |-> floor]
      /\ badgeNewest' = badgeNewest \/ (from = "metrics" /\ badgeNewest' = [badgeNewest EXCEPT ![s] = answer])
    BY DEF Badge!Answered
<1>2. \A p \in BadgeRequests : badgeRequest'[p] = badgeRequest[p] \/ badgeRequest'[p] = Badge!Idle
    BY <1>0, <1>1
<1>3. \A p \in BadgeRequests : badgeRequest'[p] = badgeRequest[p] \/ Badge!Asked(p)'
    BY <1>2 DEF Badge!Asked, Badge!Pending
<1>4. from = "metrics" => Badge!Further(Badge!Latest(badgeStored, s), answer)
    BY DEF Badge!Sound
<1>5. \A t \in Streams : \/ badgeNewest'[t] = badgeNewest[t]
                        \/ Badge!Further(Badge!Latest(badgeStored, t), badgeNewest'[t])
    BY <1>0, <1>1, <1>4
<1>6. Badge!NeverBack' /\ Badge!Sound(told.stream, told.answer, told.from)'
    BY <1>1 DEF Badge!NeverBack, Badge!Sound
<1>7. QED
    BY <1>3, <1>5, <1>6, BadgeOthers

\* A request that asks, or found something, has been told nothing yet.
LEMMA BadgeAsked ==
    ASSUME Badge!Told, Badge!TypeOK', NEW q \in BadgeRequests, NEW step,
           badgeRequest' = [badgeRequest EXCEPT ![q] = step],
           UNCHANGED <<badgeClock, badgeArrived, lastTrace, badgePayload, badgeStored, memo, badgeNewest, told>>,
           step.since <= badgeClock, badgeClock <= step.since + ReadTime,
           Badge!Further(Badge!Latest(badgeStored, step.stream), step.floor),
           step.step = "found" => Badge!Sound(step.stream, step.answer, step.from),
           step.step = "found" /\ step.from = "metrics" =>
              Badge!Further(step.answer, step.floor) /\ Badge!Current(step.stream, step.answer, step.since + Window)
    PROVE  Badge!Told'
<1>1. badgeRequest'[q] = step /\ \A p \in BadgeRequests : p # q => badgeRequest'[p] = badgeRequest[p]
    BY DEF Badge!Told, Badge!TypeOK
<1>2. Badge!Asked(q)'
    <2>1. step.step = "found" => Badge!Sound(step.stream, step.answer, step.from)'
        BY DEF Badge!Sound
    <2>2. step.step = "found" /\ step.from = "metrics" => Badge!Current(step.stream, step.answer, step.since + Window)'
        BY DEF Badge!Current
    <2> QED
        BY <1>1, <2>1, <2>2 DEF Badge!Asked
<1>3. Badge!NeverBack' /\ Badge!Sound(told.stream, told.answer, told.from)'
    BY DEF Badge!Told, Badge!NeverBack, Badge!Sound
<1>4. QED
    BY <1>1, <1>2, <1>3, BadgeOthers

\* Every step keeps what the badges rest on.
LEMMA BadgeToldKept ==
    ASSUME Badge!Suited, Badge!Told, Badge!Next
    PROVE  Badge!Told'
<1>0. /\ Badge!TypeOK' /\ Badge!TypeOK /\ BadgeKeep \in Nat /\ ReadTime \in Nat /\ Window \in Nat
      /\ Window >= BadgeKeep + ReadTime /\ badgeClock \in Nat
    BY BadgeTyped DEF Badge!Told, Badge!TypeOK, Badge!Suited
<1>1. ASSUME NEW r \in BadgeRuns, NEW j \in JobsOf[r], Badge!Arrive(r, j) PROVE Badge!Told'
    BY <1>0, <1>1, BadgeArrives
<1>2. CASE Badge!Tick
    BY <1>0, <1>2, BadgeTicks
<1>3. ASSUME NEW q \in BadgeRequests, NEW s \in Streams, Badge!FromPayload(q, s) PROVE Badge!Told'
    <2>1. Badge!Latest(badgePayload, s) = Badge!Latest(badgeStored, s)
        BY <1>3, BadgePublished DEF Badge!FromPayload
    <2>2. Badge!Sound(s, Badge!Latest(badgeStored, s), "metrics")
        BY BadgeSound
    <2>3. Badge!Further(Badge!Latest(badgeStored, s), badgeNewest[s])
        BY DEF Badge!Told
    <2>4. /\ Badge!Answered(q, s, Badge!Latest(badgeStored, s), "metrics", badgeNewest[s])
          /\ UNCHANGED <<badgeClock, badgeArrived, lastTrace, badgePayload, badgeStored, memo>>
        BY <1>3, <2>1 DEF Badge!FromPayload
    <2> QED
        BY <1>0, <2>2, <2>3, <2>4, BadgeAnswered
<1>4. ASSUME NEW q \in BadgeRequests, NEW s \in Streams, Badge!FromMemo(q, s) PROVE Badge!Told'
    <2>1. /\ Badge!Answered(q, s, memo[s].answer, memo[s].from, badgeNewest[s])
          /\ UNCHANGED <<badgeClock, badgeArrived, lastTrace, badgePayload, badgeStored, memo>>
          /\ Badge!Latest(badgePayload, s) = Badge!None /\ memo[s].until > badgeClock
        BY <1>4 DEF Badge!FromMemo
    <2>2. /\ Badge!Sound(s, memo[s].answer, memo[s].from)
          /\ memo[s].from = "metrics" /\ badgeClock < memo[s].until
                => Badge!Current(s, memo[s].answer, memo[s].until)
          /\ Badge!Further(Badge!Latest(badgeStored, s), badgeNewest[s])
        BY DEF Badge!Told, Badge!Remembered
    <2>3. \A r \in BadgeRuns : Badge!InStream(r, s) => badgePayload[r] = {}
        BY <2>1, BadgeReported, BadgeLatest
    <2>4. badgeClock < memo[s].until
        <3>1. memo[s].until \in Nat
            BY <1>0 DEF Badge!TypeOK
        <3> QED
            BY <1>0, <2>1, <3>1
    <2>5. memo[s].from = "metrics" => Badge!Further(memo[s].answer, badgeNewest[s])
        BY <2>2, <2>3, <2>4 DEF Badge!Current
    <2> QED
        BY <1>0, <2>1, <2>2, <2>5, BadgeAnswered
<1>5. ASSUME NEW q \in BadgeRequests, NEW s \in Streams, Badge!Ask(q, s) PROVE Badge!Told'
    <2>1. PICK step : step = [step |-> "asking", stream |-> s, since |-> badgeClock, floor |-> badgeNewest[s]]
        OBVIOUS
    <2>2. step.step = "asking" /\ step.stream = s /\ step.since = badgeClock /\ step.floor = badgeNewest[s]
        BY <2>1
    <2>3. /\ badgeRequest' = [badgeRequest EXCEPT ![q] = step]
          /\ UNCHANGED <<badgeClock, badgeArrived, lastTrace, badgePayload, badgeStored, memo, badgeNewest, told>>
        BY <1>5, <2>1 DEF Badge!Ask
    <2>4. Badge!Further(Badge!Latest(badgeStored, s), badgeNewest[s])
        BY DEF Badge!Told
    <2>5. badgeClock <= badgeClock /\ badgeClock <= badgeClock + ReadTime
        BY <1>0
    <2> QED
        BY <1>0, <2>2, <2>3, <2>4, <2>5, BadgeAsked
<1>6. ASSUME NEW q \in BadgeRequests, badgeRequest[q].step \in {"asking", "searching", "found"}
      PROVE  /\ badgeRequest[q].stream \in Streams /\ badgeRequest[q].since \in Nat
             /\ badgeRequest[q].since <= badgeClock /\ badgeClock <= badgeRequest[q].since + ReadTime
             /\ Badge!Further(Badge!Latest(badgeStored, badgeRequest[q].stream), badgeRequest[q].floor)
             /\ badgeRequest[q].step = "found" =>
                   Badge!Sound(badgeRequest[q].stream, badgeRequest[q].answer, badgeRequest[q].from)
             /\ badgeRequest[q].step = "found" /\ badgeRequest[q].from = "metrics" =>
                   /\ Badge!Further(badgeRequest[q].answer, badgeRequest[q].floor)
                   /\ Badge!Current(badgeRequest[q].stream, badgeRequest[q].answer, badgeRequest[q].since + Window)
    <2>1. badgeRequest[q] # Badge!Idle
        BY <1>6 DEF Badge!Idle
    <2>2. badgeRequest[q].stream \in Streams /\ badgeRequest[q].since \in Nat
        BY <1>0, <2>1 DEF Badge!TypeOK
    <2> QED
        BY <2>1, <2>2 DEF Badge!Told, Badge!Asked, Badge!Pending
<1>7. ASSUME NEW q \in BadgeRequests, badgeRequest[q].step \in {"asking", "searching"}, NEW answer, NEW from,
             Badge!Found(q, answer, from), Badge!Sound(badgeRequest[q].stream, answer, from),
             from = "metrics" => answer = Badge!Latest(badgeStored, badgeRequest[q].stream),
             UNCHANGED <<badgeClock, badgeArrived, lastTrace, badgePayload, badgeStored, memo, badgeNewest, told>>
      PROVE  Badge!Told'
    <2>1. PICK step :
              step = [step |-> "found", stream |-> badgeRequest[q].stream, since |-> badgeRequest[q].since,
                      floor |-> badgeRequest[q].floor, answer |-> answer, from |-> from]
        OBVIOUS
    <2>2. /\ step.step = "found" /\ step.stream = badgeRequest[q].stream /\ step.since = badgeRequest[q].since
          /\ step.floor = badgeRequest[q].floor /\ step.answer = answer /\ step.from = from
        BY <2>1
    <2>3. badgeRequest' = [badgeRequest EXCEPT ![q] = step]
        BY <1>0, <1>7, <2>1 DEF Badge!Found, Badge!TypeOK
    <2>4. from = "metrics" =>
              Badge!Further(answer, badgeRequest[q].floor)
              /\ Badge!Current(badgeRequest[q].stream, answer, badgeRequest[q].since + Window)
        BY <1>6, <1>7 DEF Badge!Current
    <2> QED
        BY <1>0, <1>6, <1>7, <2>2, <2>3, <2>4, BadgeAsked
<1>8. ASSUME NEW q \in BadgeRequests, Badge!PrometheusAnswers(q) PROVE Badge!Told'
    <2>1. badgeRequest[q].step = "asking" /\ badgeRequest[q].stream \in Streams
        BY <1>6, <1>8 DEF Badge!PrometheusAnswers
    <2>2. /\ Badge!LatestStored(badgeRequest[q].stream) = Badge!Latest(badgeStored, badgeRequest[q].stream)
          /\ Badge!Sound(badgeRequest[q].stream, Badge!Latest(badgeStored, badgeRequest[q].stream), "metrics")
        BY <2>1, BadgeSound
    <2>3. /\ Badge!Found(q, Badge!Latest(badgeStored, badgeRequest[q].stream), "metrics")
          /\ UNCHANGED <<badgeClock, badgeArrived, lastTrace, badgePayload, badgeStored, memo, badgeNewest, told>>
        BY <1>8, <2>2 DEF Badge!PrometheusAnswers
    <2> QED
        BY <1>7, <2>1, <2>2, <2>3
<1>9. ASSUME NEW q \in BadgeRequests, Badge!PrometheusFails(q) PROVE Badge!Told'
    <2>1. badgeRequest[q].step = "asking"
        BY <1>9 DEF Badge!PrometheusFails
    <2>2. PICK step : step = [badgeRequest[q] EXCEPT !.step = "searching"]
        OBVIOUS
    <2>3. badgeRequest[q] \in [step : {"asking", "searching"}, stream : Streams, since : Nat, floor : Badge!Answers]
        BY <1>0, <2>1 DEF Badge!TypeOK, Badge!Idle
    <2>4. /\ step.step = "searching" /\ step.stream = badgeRequest[q].stream /\ step.since = badgeRequest[q].since
          /\ step.floor = badgeRequest[q].floor
        BY <2>2, <2>3
    <2>5. /\ badgeRequest' = [badgeRequest EXCEPT ![q] = step]
          /\ UNCHANGED <<badgeClock, badgeArrived, lastTrace, badgePayload, badgeStored, memo, badgeNewest, told>>
        BY <1>9, <2>2 DEF Badge!PrometheusFails
    <2> QED
        BY <1>0, <1>6, <2>1, <2>4, <2>5, BadgeAsked
<1>10. ASSUME NEW q \in BadgeRequests, Badge!SearchTraces(q) PROVE Badge!Told'
    <2>1. badgeRequest[q].step = "searching" /\ badgeRequest[q].stream \in Streams
        BY <1>6, <1>10 DEF Badge!SearchTraces
    <2>2. PICK read \in [BadgeRuns -> SUBSET UNION {JobsOf[r] : r \in BadgeRuns}] :
              /\ \A r \in BadgeRuns : read[r] \subseteq badgeArrived[r]
              /\ Badge!Found(q, Badge!Latest(read, badgeRequest[q].stream), "traces")
        BY <1>10 DEF Badge!SearchTraces
    <2>3. UNCHANGED <<badgeClock, badgeArrived, lastTrace, badgePayload, badgeStored, memo, badgeNewest, told>>
        BY <1>10 DEF Badge!SearchTraces
    <2>4. Badge!Sound(badgeRequest[q].stream, Badge!Latest(read, badgeRequest[q].stream), "traces")
        BY <2>1, <2>2, BadgeSound
    <2> QED
        BY <1>7, <2>1, <2>2, <2>3, <2>4
<1>11. ASSUME NEW q \in BadgeRequests, Badge!Remember(q) PROVE Badge!Told'
    <2>1. /\ badgeRequest[q].step = "found"
          /\ memo' = [memo EXCEPT ![badgeRequest[q].stream] =
                         [until |-> Badge!Until, answer |-> badgeRequest[q].answer, from |-> badgeRequest[q].from]]
          /\ Badge!Answered(q, badgeRequest[q].stream, badgeRequest[q].answer, badgeRequest[q].from, badgeRequest[q].floor)
          /\ UNCHANGED <<badgeClock, badgeArrived, lastTrace, badgePayload, badgeStored>>
        BY <1>11 DEF Badge!Remember
    <2>2. /\ badgeRequest[q].stream \in Streams /\ badgeRequest[q].since \in Nat
          /\ badgeRequest[q].since <= badgeClock /\ badgeClock <= badgeRequest[q].since + ReadTime
          /\ Badge!Sound(badgeRequest[q].stream, badgeRequest[q].answer, badgeRequest[q].from)
          /\ badgeRequest[q].from = "metrics" =>
                /\ Badge!Further(badgeRequest[q].answer, badgeRequest[q].floor)
                /\ Badge!Current(badgeRequest[q].stream, badgeRequest[q].answer, badgeRequest[q].since + Window)
        BY <1>6, <2>1
    <2>3. ASSUME NEW t \in Streams PROVE memo'[t] = memo[t] \/ Badge!Remembered(t)'
        <3>1. CASE t # badgeRequest[q].stream
            BY <1>0, <2>1, <3>1 DEF Badge!TypeOK
        <3>2. CASE t = badgeRequest[q].stream
            <4>1. /\ memo'[t].until = badgeClock + BadgeKeep
                  /\ memo'[t].answer = badgeRequest[q].answer /\ memo'[t].from = badgeRequest[q].from
                BY <1>0, <2>1, <3>2 DEF Badge!TypeOK, Badge!Until
            <4>2. Badge!Sound(t, memo[t].answer, memo[t].from)'
                BY <2>1, <2>2, <3>2, <4>1 DEF Badge!Sound
            <4>3. badgeRequest[q].from = "metrics" => Badge!Current(t, memo[t].answer, memo[t].until)'
                <5>1. CASE badgeRequest[q].answer = Badge!Latest(badgeStored, t)
                    BY <2>1, <4>1, <5>1 DEF Badge!Current
                <5>2. CASE \E r \in BadgeRuns : /\ Badge!InStream(r, t) /\ badgePayload[r] # {}
                                            /\ badgeRequest[q].since + Window <= lastTrace[r] + Window
                    <6>1. PICK r \in BadgeRuns : /\ Badge!InStream(r, t) /\ badgePayload[r] # {}
                                              /\ badgeRequest[q].since + Window <= lastTrace[r] + Window
                        BY <5>2
                    <6>2. lastTrace[r] \in Nat
                        BY <1>0 DEF Badge!TypeOK
                    <6>3. memo'[t].until <= lastTrace[r] + Window
                        BY <1>0, <2>2, <4>1, <6>1, <6>2
                    <6> QED
                        BY <2>1, <6>1, <6>3 DEF Badge!Current
                <5> QED
                    BY <2>2, <3>2, <5>1, <5>2 DEF Badge!Current
            <4>4. memo'[t].until <= badgeClock' + BadgeKeep
                BY <1>0, <2>1, <4>1
            <4> QED
                BY <4>1, <4>2, <4>3, <4>4 DEF Badge!Remembered
        <3> QED
            BY <3>1, <3>2
    <2> QED
        BY <1>0, <2>1, <2>2, <2>3, BadgeAnswered
<1>12. QED
    BY <1>1, <1>2, <1>3, <1>4, <1>5, <1>8, <1>9, <1>10, <1>11 DEF Badge!Next

LEMMA BadgeToldCorrect == ASSUME Badge!Suited PROVE Badge!Spec => []Badge!Told
<1>1. Badge!Told /\ [Badge!Next]_(Badge!badgeVars) => Badge!Told'
    <2>1. CASE UNCHANGED Badge!badgeVars
        BY <2>1 DEF Badge!badgeVars, Badge!Told, Badge!TypeOK, Badge!Published, Badge!Outlasted, Badge!Remembered,
                    Badge!Asked, Badge!Pending, Badge!Sound, Badge!Current, Badge!NeverBack
    <2>2. CASE Badge!Told /\ Badge!Next
        BY <2>2, BadgeToldKept
    <2> QED
        BY <2>1, <2>2
<1>2. Badge!Init => Badge!Told
    BY BadgeInitTold
<1>3. QED
    BY <1>1, <1>2, PTL DEF Badge!Spec

\* A badge does not go back while Prometheus answers, whichever source an answer
\* came from and however lookups overlap (trace_exporter.py, _pr_run_summary_cached).
THEOREM BadgeNeverBackCorrect ==
    ASSUME Badge!Suited
    PROVE  Badge!Spec => []Badge!NeverBack
<1>1. Badge!Told => Badge!NeverBack
    BY DEF Badge!Told
<1>2. QED
    BY <1>1, BadgeToldCorrect, PTL

\* A badge is of a run of its stream, and counts no job that has not reported.
THEOREM BadgeOfItsStreamCorrect ==
    ASSUME Badge!Suited
    PROVE  Badge!Spec => []Badge!OfItsStream
<1>1. Badge!Told => Badge!OfItsStream
    <2> SUFFICES ASSUME Badge!Told
                 PROVE  Badge!OfItsStream
        OBVIOUS
    <2>1. Badge!Sound(told.stream, told.answer, told.from)
        BY DEF Badge!Told
    <2> QED
        BY <2>1 DEF Badge!Sound, Badge!OfItsStream, Badge!InStream
<1>2. QED
    BY <1>1, BadgeToldCorrect, PTL

-----------------------------------------------------------------------------
(* The sum: a behaviour of it is one of every component, or leaves it alone   *)

\* What a step of the sum is for the component it is about.
LEMMA SumInit ==
    Init => /\ Auth!Init /\ Accounts!Init /\ Asked!Init /\ Drafting!Init /\ Reruns!Init
            /\ Shared!Init /\ Badge!Init
            /\ (part = "commands" => Commands!Init)
BY DEF Init

LEMMA PartKept == [Next]_vars => part' = part
BY DEF Next, vars

LEMMA AuthStep == [Next]_vars => [Auth!Next]_(Auth!authVars)
BY DEF Next, vars, authVars, Auth!authVars

LEMMA AccountsStep == [Next]_vars => [Accounts!Next]_(Accounts!accountVars)
BY DEF Next, vars, accountsVars, Accounts!accountVars

LEMMA QuestionsStep == [Next]_vars => [Asked!Next]_(Asked!questionVars)
BY DEF Next, vars, questionsVars, Asked!questionVars

LEMMA CommandsStep == (part = "commands" /\ [Next]_vars) => [Commands!Next]_(Commands!commandVars)
BY DEF Next, vars, commandsVars, Commands!commandVars

LEMMA DraftsStep == [Next]_vars => [Drafting!Next]_(Drafting!vars)
BY DEF Next, vars, draftsVars, Drafting!vars, Drafting!storeVars, Drafting!draftVars,
       Drafting!refresherVars

LEMMA RerunsStep == [Next]_vars => [Reruns!Next]_(Reruns!vars)
BY DEF Next, vars, rerunsVars, Reruns!vars, Reruns!ghVars, Reruns!postVars, Reruns!workerVars

LEMMA SharedStep == [Next]_vars => [Shared!Next]_(Shared!sharedVars)
BY DEF Next, vars, sharedVars, Shared!sharedVars

LEMMA BadgeStep == [Next]_vars => [Badge!Next]_(Badge!badgeVars)
BY DEF Next, vars, badgeVars, Badge!badgeVars

\* Whoever holds a session was signed in with that browser or device, for any
\* users, browsers, states, codes and lives (finish_login, device_decide, device_poll).
THEOREM SessionsEarnedCorrect == Spec => []SessionsEarned
<1>1. Auth!Spec => []Auth!SessionsEarned
    BY AuthSessionsEarnedCorrect, AuthAssumption
<1>2. Spec => Auth!Spec
    BY SumInit, AuthStep, PTL DEF Spec, Auth!Spec
<1>3. Auth!SessionsEarned => SessionsEarned
    BY DEF SessionsEarned
<1>4. QED
    BY <1>1, <1>2, <1>3, PTL

\* A Slack member is linked with the owner's and the identity's word, and acts only
\* as the identity linked then (slack_accounts.py confirm, lookup).
THEOREM ActsAsLinkedCorrect == Spec => ActsAsLinked
<1>1. Accounts!Spec => Accounts!LinkedByBoth
    BY AccountsLinkedByBothCorrect, AccountsAssumption
<1>2. Accounts!Spec => Accounts!ActsAsLinked
    BY AccountsActsAsLinkedCorrect, AccountsAssumption
<1>3. Spec => Accounts!Spec
    BY SumInit, AccountsStep, PTL DEF Spec, Accounts!Spec
<1>4. QED
    BY <1>1, <1>2, <1>3, PTL DEF ActsAsLinked

\* A command runs once and never keeps its slot, however it is delivered and
\* wherever the process is killed (slack_bot.py handle); of equal questions one is
\* asked, and every slot comes back (wdyt.py, who_can_help.py, new_issue.py).
THEOREM AnsweredOnceCorrect == Spec => []AnsweredOnce
<1>1. Asked!Spec => []Asked!Answering
    BY QuestionsAnsweringCorrect, QuestionsAssumption
<1>2. Spec => Asked!Spec
    BY SumInit, QuestionsStep, PTL DEF Spec, Asked!Spec
<1>3. /\ Commands!Spec => []Commands!ExecutedOnce
      /\ Commands!Spec => []Commands!NoSlotLost
    BY CommandsExecutedOnceCorrect, CommandsNoSlotLostCorrect, CommandsAssumption
<1>4. (part = "commands" /\ Spec) => Commands!Spec
    <2>1. (part = "commands" /\ [Next]_vars) => (part = "commands")'
        BY PartKept
    <2> QED
        BY <2>1, SumInit, CommandsStep, PTL DEF Spec, Commands!Spec
<1>5. Spec => (part = "commands" \/ [](~(part = "commands")))
    <2>1. (~(part = "commands") /\ [Next]_vars) => (~(part = "commands"))'
        BY PartKept
    <2> QED
        BY <2>1, PTL DEF Spec
<1>6. (Asked!Answering /\ (part = "commands" => Commands!ExecutedOnce /\ Commands!NoSlotLost))
          => AnsweredOnce
    BY DEF AnsweredOnce, Asked!Answering
<1>7. QED
    BY <1>1, <1>2, <1>3, <1>4, <1>5, <1>6, PTL

\* The first issue about a test is opened by who holds it, and nobody is put on an
\* unpublished test over somebody else's head (claims.py, new_issue.py).
THEOREM TestsHeldCorrect == Spec => TestsHeld
<1>1. Drafting!Spec => Drafting!HeldWhenPublished
    BY Drafting!HeldWhenPublishedCorrect, PatienceAssumption, DraftsAssumption
<1>2. Drafting!Spec => Drafting!UnpublishedNotTakenOver
    BY Drafting!UnpublishedNotTakenOverCorrect, PatienceAssumption, DraftsAssumption
<1>3. Spec => Drafting!Spec
    BY SumInit, DraftsStep, PTL DEF Spec, Drafting!Spec
<1>4. QED
    BY <1>1, <1>2, <1>3, PTL DEF TestsHeld

\* A lane is dispatched at most once, after the runs to cancel have ended, and an
\* action that is not over has a worker (rerun_actions.py).
THEOREM DispatchedOnceCorrect == Spec => []DispatchedOnce
<1>1. Reruns!Spec => []Reruns!AtMostOneDispatch
    BY Reruns!AtMostOneDispatchCorrect, RerunsAssumption
<1>2. Reruns!Spec => []Reruns!OpenHasWorker
    BY Reruns!OpenHasWorkerCorrect, RerunsAssumption
<1>3. Reruns!Spec => []Reruns!CancelledOrRefused
    BY Reruns!CancelledOrRefusedCorrect, RerunsAssumption
<1>4. Spec => Reruns!Spec
    BY SumInit, RerunsStep, PTL DEF Spec, Reruns!Spec
<1>5. (Reruns!AtMostOneDispatch /\ Reruns!OpenHasWorker /\ Reruns!CancelledOrRefused)
          => DispatchedOnce
    BY DEF DispatchedOnce
<1>6. QED
    BY <1>1, <1>2, <1>3, <1>4, <1>5, PTL

\* Of those who share a value one builds it and none is given an older one than was
\* given before (trace_exporter.py _swr_fetch, _swr_build); nor does a badge go back,
\* and it is of its stream (_pr_run_summary_cached).
THEOREM SharedInOrderCorrect == Spec => []SharedInOrder
<1>1. Shared!Spec => []Shared!BuiltOnce
    BY SharedBuiltOnceCorrect, SharedAssumption
<1>2. Badge!Spec => []Badge!NeverBack
    BY BadgeNeverBackCorrect, BadgeAssumption
<1>3. Badge!Spec => []Badge!OfItsStream
    BY BadgeOfItsStreamCorrect, BadgeAssumption
<1>4. Spec => Shared!Spec
    BY SumInit, SharedStep, PTL DEF Spec, Shared!Spec
<1>5. Spec => Badge!Spec
    BY SumInit, BadgeStep, PTL DEF Spec, Badge!Spec
<1>6. (Shared!BuiltOnce /\ Shared!AnswersInOrder /\ Badge!NeverBack /\ Badge!OfItsStream)
          => SharedInOrder
    BY DEF SharedInOrder
<1>7. QED
    BY <1>1, <1>2, <1>3, <1>4, <1>5, <1>6, SharedAnswersInOrderCorrect, PTL
=============================================================================
