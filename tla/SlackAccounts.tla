--------------------------- MODULE SlackAccounts ----------------------------
(***************************************************************************)
(* Linking a Slack account to a GitHub identity (slack_accounts.py): the   *)
(* owner asks for a link, someone follows it and signs in to GitHub, which *)
(* proposes that identity, and the owner confirms in Slack. The owners     *)
(* here are of one workspace. Every operation is one transaction, except   *)
(* asking for a link and looking an account up again, which read before    *)
(* they write.                                                             *)
(***************************************************************************)
EXTENDS Naturals, FiniteSets

CONSTANTS
    Owners, Identities, Logins,
    FirstLogin,     \* identity -> its login at first
    Managed,        \* the administrator's mapping: owner -> login, for some of the owners
    MaxGrants, MaxRenames, MaxDisconnects

VARIABLES
    loginOf,        \* GitHub: identity -> login
    accounts,       \* owner -> the linked identity and the login kept with it
    grants,         \* grant -> its row
    prompting,      \* owners whose request for a link found no account, and is not a row yet
    asking,         \* owner -> the identity and login a second look-up heard of GitHub
    acting,         \* the authorization given last: an owner, an identity and a login
    asked,          \* owner -> grants drawn since the account was last disconnected
    drawn, renames, disconnects

accountVars == <<loginOf, accounts, grants, prompting, asking, acting, asked, drawn, renames, disconnects>>

None == "none"
NoAccount == [github |-> None, login |-> None]
Grants == 1 .. MaxGrants
NoGrant == [owner |-> None, github |-> None, login |-> None, confirmed |-> FALSE]
Manages(o) == o \in DOMAIN Managed
Linked(o) == accounts[o] # NoAccount

-----------------------------------------------------------------------------
(* Connecting *)

Prompt(o) ==
    /\ ~Manages(o) /\ ~Linked(o)
    /\ prompting' = prompting \cup {o}
    /\ UNCHANGED <<loginOf, accounts, grants, asking, acting, asked, drawn, renames, disconnects>>

DrawGrant(o) ==
    /\ o \in prompting /\ drawn < MaxGrants
    /\ drawn' = drawn + 1
    /\ grants' = [grants EXCEPT ![drawn + 1] = [NoGrant EXCEPT !.owner = o]]
    /\ prompting' = prompting \ {o}
    /\ asked' = [asked EXCEPT ![o] = @ \cup {drawn + 1}]
    /\ UNCHANGED <<loginOf, accounts, asking, acting, renames, disconnects>>

\* A grant expires: no later request finds it.
Expire(g) ==
    /\ grants[g] # NoGrant
    /\ grants' = [grants EXCEPT ![g] = NoGrant]
    /\ UNCHANGED <<loginOf, accounts, prompting, asking, acting, asked, drawn, renames, disconnects>>

\* Mutant of Claimable: whoever opens the link last is proposed.
ClaimableByAny(row, who) == row # NoGrant /\ ~row.confirmed
\* A link that one identity opened is not open to another.
Claimable(row, who) == row # NoGrant /\ ~row.confirmed /\ row.github \in {None, who}

Propose(g, who) ==
    /\ Claimable(grants[g], who)
    /\ ~Manages(grants[g].owner)
    /\ grants' = [grants EXCEPT ![g].github = who, ![g].login = loginOf[who]]
    /\ UNCHANGED <<loginOf, accounts, prompting, asking, acting, asked, drawn, renames, disconnects>>

\* The unique index of the table: an identity is linked once in a workspace.
Free(who, o) == \A p \in Owners \ {o} : accounts[p].github # who

Confirm(o, g) ==
    LET row == grants[g] IN
    /\ row.owner = o /\ row.github # None /\ ~row.confirmed
    /\ ~Manages(o) /\ \A p \in DOMAIN Managed : Managed[p] # row.login
    /\ accounts[o].github \in {None, row.github}
    /\ Free(row.github, o)
    /\ accounts' = [accounts EXCEPT ![o] = [github |-> row.github, login |-> row.login]]
    /\ grants' = [h \in Grants |-> IF grants[h].owner = o THEN [grants[h] EXCEPT !.confirmed = TRUE] ELSE grants[h]]
    /\ UNCHANGED <<loginOf, prompting, asking, acting, asked, drawn, renames, disconnects>>

\* Mutant of Withdrawn: the links sent before stay open.
WithdrawnNone(o) == grants
Withdrawn(o) == [g \in Grants |-> IF grants[g].owner = o THEN NoGrant ELSE grants[g]]

Disconnect(o) ==
    /\ ~Manages(o) /\ disconnects < MaxDisconnects
    /\ accounts' = [accounts EXCEPT ![o] = NoAccount]
    /\ grants' = Withdrawn(o)
    /\ asked' = [asked EXCEPT ![o] = {}]
    /\ disconnects' = disconnects + 1
    /\ UNCHANGED <<loginOf, prompting, asking, acting, drawn, renames>>

-----------------------------------------------------------------------------
(* Authorizing work: the login is asked again of GitHub, by the identity *)

Ask(o) ==
    /\ Linked(o) /\ asking[o] = NoAccount
    /\ asking' = [asking EXCEPT ![o] = [github |-> accounts[o].github, login |-> loginOf[accounts[o].github]]]
    /\ UNCHANGED <<loginOf, accounts, grants, prompting, acting, asked, drawn, renames, disconnects>>

\* Mutant of StillTheirs: the row of the owner is updated, whoever it is linked to now.
StillTheirsOrAnother(o) == Linked(o)
StillTheirs(o) == accounts[o].github = asking[o].github

Authorize(o) ==
    /\ asking[o] # NoAccount /\ StillTheirs(o)
    /\ accounts' = [accounts EXCEPT ![o].login = asking[o].login]
    /\ acting' = [owner |-> o, github |-> asking[o].github, login |-> asking[o].login]
    /\ asking' = [asking EXCEPT ![o] = NoAccount]
    /\ UNCHANGED <<loginOf, grants, prompting, asked, drawn, renames, disconnects>>

\* GitHub cannot be asked, or the account was disconnected meanwhile.
Refuse(o) ==
    /\ asking[o] # NoAccount
    /\ asking' = [asking EXCEPT ![o] = NoAccount]
    /\ UNCHANGED <<loginOf, accounts, grants, prompting, acting, asked, drawn, renames, disconnects>>

-----------------------------------------------------------------------------
\* On GitHub an identity takes a login nobody has; another may take the one it leaves.
Rename(who, login) ==
    /\ renames < MaxRenames /\ \A i \in Identities : loginOf[i] # login
    /\ loginOf' = [loginOf EXCEPT ![who] = login]
    /\ renames' = renames + 1
    /\ UNCHANGED <<accounts, grants, prompting, asking, acting, asked, drawn, disconnects>>

Init ==
    /\ loginOf = FirstLogin
    /\ accounts = [o \in Owners |-> NoAccount]
    /\ grants = [g \in Grants |-> NoGrant]
    /\ prompting = {}
    /\ asking = [o \in Owners |-> NoAccount]
    /\ acting = [owner |-> None, github |-> None, login |-> None]
    /\ asked = [o \in Owners |-> {}]
    /\ drawn = 0 /\ renames = 0 /\ disconnects = 0

Next ==
    \/ \E o \in Owners :
           \/ Prompt(o) \/ DrawGrant(o) \/ Disconnect(o)
           \/ Ask(o) \/ Authorize(o) \/ Refuse(o)
           \/ \E g \in Grants : Confirm(o, g)
    \/ \E g \in Grants : Expire(g) \/ \E who \in Identities : Propose(g, who)
    \/ \E who \in Identities, login \in Logins : Rename(who, login)

Spec == Init /\ [][Next]_accountVars

-----------------------------------------------------------------------------
(* Properties *)

\* "Confirmation in both accounts": an account is linked only by the confirmation of a link
\* its owner asked for since the account was last disconnected, to the first identity that
\* opened that link; no two owners of a workspace are linked to one identity.
LinkedByBoth ==
    [][/\ \A o \in Owners :
            (~Linked(o) /\ accounts'[o] # NoAccount)
                => \E g \in asked[o] : grants[g].owner = o /\ grants[g].github = accounts'[o].github
       /\ \A o, p \in Owners : (o # p /\ accounts'[o] # NoAccount) => accounts'[o].github # accounts'[p].github
       /\ \A g \in Grants : grants[g].github # None /\ grants'[g] # NoGrant => grants'[g].github = grants[g].github]_accountVars

\* The comment in lookup, "never grant another user's permissions on rename": work is
\* authorized with a login only while the owner is linked to the identity GitHub gave that
\* login for, whatever was disconnected, linked or renamed while GitHub was asked.
ActsAsLinked ==
    [][acting' # acting => /\ accounts[acting'.owner].github = acting'.github
                           /\ asking[acting'.owner].login = acting'.login]_accountVars

-----------------------------------------------------------------------------
(* The inductive invariant, for the proof that both hold.  A Slack user is    *)
(* never an account that is not there.                                        *)

Named ==
    /\ None \notin Owners /\ None \notin Identities
    /\ FirstLogin \in [Identities -> Logins]
    /\ MaxGrants \in Nat

Account == [github : Identities \cup {None}, login : Logins \cup {None}]
Grant == [owner : Owners \cup {None}, github : Identities \cup {None},
          login : Logins \cup {None}, confirmed : BOOLEAN]

\* Every variable holds a value of its kind.
TypeOK ==
    /\ loginOf \in [Identities -> Logins]
    /\ accounts \in [Owners -> Account] /\ asking \in [Owners -> Account]
    /\ grants \in [Grants -> Grant]
    /\ prompting \subseteq Owners
    /\ acting \in [owner : Owners \cup {None}, github : Identities \cup {None},
                   login : Logins \cup {None}]
    /\ asked \in [Owners -> SUBSET Grants]
    /\ drawn \in 0 .. MaxGrants /\ renames \in Nat /\ disconnects \in Nat

\* A row is of an identity, and what was asked of GitHub is about one.
AccountWhole(o) ==
    /\ Linked(o) => accounts[o].github # None
    /\ asking[o] # NoAccount => asking[o].github # None

\* A grant is one its owner asked for since the last disconnection; one not drawn is empty.
GrantAsked(g) ==
    /\ grants[g].owner # None => g \in asked[grants[g].owner]
    /\ g > drawn => grants[g] = NoGrant

LinkedOnce == \A o, p \in Owners : (o # p /\ Linked(o)) => accounts[o].github # accounts[p].github

Links ==
    /\ TypeOK
    /\ \A o \in Owners : AccountWhole(o)
    /\ \A g \in Grants : GrantAsked(g)
    /\ LinkedOnce

\* A grant stays with the identity that opened it first, until it is withdrawn.
FirstOpener(g) ==
    (grants[g].github # None /\ grants'[g] # NoGrant) => grants'[g].github = grants[g].github
=============================================================================
