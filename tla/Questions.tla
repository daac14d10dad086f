----------------------------- MODULE Questions ------------------------------
(***************************************************************************)
(* Questions put to the model from a failing test's page: WDYT? (wdyt.py), *)
(* Who can help (who_can_help.py) and the issue draft, which asks one of   *)
(* the two beside its own call (new_issue.py prepare). A question of a key *)
(* is asked by one request, its leader; others wait for it and read the    *)
(* cache. A few slots bound the calls at once, and llm.py tries a call     *)
(* again while nothing of its answer was shown.                            *)
(***************************************************************************)
EXTENDS Naturals, FiniteSets

CONSTANTS
    Requests,       \* request -> [feature: wdyt, who or draft; key; user; by]; "by" names the draft
                    \* a request is a part of, or is "viewer"
    Slots,          \* calls of one feature at once
    UserLimit,      \* questions of one user in the hour the model looks at
    Attempts,       \* of one call
    OkLife, FailureLife,        \* how long an answer and a failure are cached
    MaxTime, MaxFailures

VARIABLES
    now,
    cache,          \* feature, key -> the answer kept, and until when
    inflight,       \* feature, key -> its leader
    free,           \* feature -> slots nobody holds
    asked,          \* feature, user -> questions counted against the user
    phase,          \* request -> new, looking, leading, asking, waiting, done
    attempt,        \* request -> calls made
    shown,          \* requests that showed a part of an answer
    reply,          \* request -> what it was answered
    calls,          \* calls that led to an answer: feature, key and when
    failures

questionVars == <<now, cache, inflight, free, asked, phase, attempt, shown, reply, calls, failures>>

Ids == DOMAIN Requests
Features == {"wdyt", "who", "draft"}
Keys == {Requests[r].key : r \in Ids}
Users == {Requests[r].user : r \in Ids}
None == "none"
NoAnswer == [result |-> None, until |-> 0]

CacheOf(r) == cache[Requests[r].feature][Requests[r].key]
FreshFor(r) == CacheOf(r).until > now
LeaderOf(r) == inflight[Requests[r].feature][Requests[r].key]
IsDraft(r) == Requests[r].feature = "draft"
AtWork(f) == {r \in Ids : Requests[r].feature = f /\ phase[r] = "asking"}
PartsOf(r) == {c \in Ids : Requests[c].by = r}

Answered(r, result) ==
    /\ reply' = [reply EXCEPT ![r] = result]
    /\ phase' = [phase EXCEPT ![r] = "done"]

-----------------------------------------------------------------------------
(* Looking, under the feature's lock *)

\* A viewer asks; the part of a draft starts when the draft makes its calls.
Arrive(r) ==
    /\ phase[r] = "new"
    /\ Requests[r].by # "viewer" => phase[Requests[r].by] = "asking"
    /\ phase' = [phase EXCEPT ![r] = "looking"]
    /\ UNCHANGED <<now, cache, inflight, free, asked, attempt, shown, reply, calls, failures>>

ReadCache(r) ==
    /\ phase[r] = "looking" /\ FreshFor(r)
    /\ Answered(r, CacheOf(r).result)
    /\ UNCHANGED <<now, cache, inflight, free, asked, attempt, shown, calls, failures>>

\* Mutant of Led: a request never finds another at work on its key.
LedByNone(r) == FALSE
\* Somebody is at work on the key. Two drafts of one key do not know of each other.
Led(r) == ~IsDraft(r) /\ LeaderOf(r) # None

Follow(r) ==
    /\ phase[r] = "looking" /\ ~FreshFor(r) /\ Led(r)
    /\ phase' = [phase EXCEPT ![r] = "waiting"]
    /\ UNCHANGED <<now, cache, inflight, free, asked, attempt, shown, reply, calls, failures>>

TooMany(r) == asked[Requests[r].feature][Requests[r].user] >= UserLimit

Limit(r) ==
    /\ phase[r] = "looking" /\ ~FreshFor(r) /\ ~Led(r) /\ TooMany(r)
    /\ Answered(r, "rate_limited")
    /\ UNCHANGED <<now, cache, inflight, free, asked, attempt, shown, calls, failures>>

Lead(r) ==
    /\ phase[r] = "looking" /\ ~FreshFor(r) /\ ~Led(r) /\ ~TooMany(r)
    /\ asked' = [asked EXCEPT ![Requests[r].feature][Requests[r].user] = @ + 1]
    /\ inflight' = IF IsDraft(r) THEN inflight
                   ELSE [inflight EXCEPT ![Requests[r].feature][Requests[r].key] = r]
    /\ phase' = [phase EXCEPT ![r] = "leading"]
    /\ UNCHANGED <<now, cache, free, attempt, shown, reply, calls, failures>>

-----------------------------------------------------------------------------
(* The leader's end: what it found is cached and the key is free, in one step *)

Kept(result) ==
    [result |-> result, until |-> now + (IF result = "ok" THEN OkLife ELSE FailureLife)]

\* WDYT? caches no refusal for want of a slot, a draft no failure at all.
Caches(r, result) ==
    CASE Requests[r].feature = "wdyt" -> result # "busy"
      [] Requests[r].feature = "who" -> TRUE
      [] OTHER -> result = "ok"

Land(r, result) ==
    /\ cache' = IF Caches(r, result)
                THEN [cache EXCEPT ![Requests[r].feature][Requests[r].key] = Kept(result)]
                ELSE cache
    /\ inflight' = IF IsDraft(r) THEN inflight
                   ELSE [inflight EXCEPT ![Requests[r].feature][Requests[r].key] = None]
    /\ Answered(r, result)

TakeSlot(r) ==
    /\ phase[r] = "leading" /\ free[Requests[r].feature] > 0
    /\ free' = [free EXCEPT ![Requests[r].feature] = @ - 1]
    /\ phase' = [phase EXCEPT ![r] = "asking"]
    /\ UNCHANGED <<now, cache, inflight, asked, attempt, shown, reply, calls, failures>>

NoSlot(r) ==
    /\ phase[r] = "leading" /\ free[Requests[r].feature] = 0
    /\ Land(r, "busy")
    /\ UNCHANGED <<now, free, asked, attempt, shown, calls, failures>>

\* Mutant of SlotBack: the slot of a call that raised is not given back.
SlotBackAfterAnswer(r, raised) ==
    IF raised THEN free ELSE [free EXCEPT ![Requests[r].feature] = @ + 1]
SlotBack(r, raised) == [free EXCEPT ![Requests[r].feature] = @ + 1]

\* The model answers. A draft waits for its parts as well.
Ask(r) ==
    /\ phase[r] = "asking" /\ ~IsDraft(r)
    /\ Land(r, "ok")
    /\ free' = SlotBack(r, FALSE)
    /\ calls' = calls \cup {[feature |-> Requests[r].feature, key |-> Requests[r].key, leader |-> r, at |-> now]}
    /\ UNCHANGED <<now, asked, attempt, shown, failures>>

Join(r) ==
    /\ phase[r] = "asking" /\ IsDraft(r)
    /\ \A c \in PartsOf(r) : phase[c] = "done"
    /\ Land(r, "ok")
    /\ free' = SlotBack(r, FALSE)
    /\ UNCHANGED <<now, asked, attempt, shown, calls, failures>>

\* A stream shows a part of its answer before it ends or breaks.
Show(r) ==
    /\ phase[r] = "asking" /\ Requests[r].feature = "wdyt" /\ r \notin shown
    /\ shown' = shown \cup {r}
    /\ UNCHANGED <<now, cache, inflight, free, asked, phase, attempt, reply, calls, failures>>

MayRetry(r) == r \notin shown /\ attempt[r] + 1 < Attempts

Retry(r) ==
    /\ phase[r] = "asking" /\ failures < MaxFailures /\ MayRetry(r)
    /\ failures' = failures + 1
    /\ attempt' = [attempt EXCEPT ![r] = @ + 1]
    /\ UNCHANGED <<now, cache, inflight, free, asked, phase, shown, reply, calls>>

\* The last attempt fails with an error the feature expects.
Fail(r) ==
    /\ phase[r] = "asking" /\ failures < MaxFailures /\ ~MayRetry(r)
    /\ \A c \in PartsOf(r) : phase[c] = "done"
    /\ failures' = failures + 1
    /\ Land(r, "unavailable")
    /\ free' = SlotBack(r, TRUE)
    /\ UNCHANGED <<now, asked, attempt, shown, calls>>

\* A broken HTTP reply (HTTPException) is expected by WDYT? alone. Elsewhere it leaves the
\* feature by its "finally", which gives the slot back and nothing more.
Escape(r) ==
    /\ phase[r] = "asking" /\ failures < MaxFailures /\ ~MayRetry(r)
    /\ Requests[r].feature # "wdyt"
    /\ \A c \in PartsOf(r) : phase[c] = "done"
    /\ failures' = failures + 1
    /\ free' = SlotBack(r, TRUE)
    /\ Answered(r, "unavailable")
    /\ UNCHANGED <<now, cache, inflight, asked, attempt, shown, calls>>

\* A follower reads the cache when its leader lands, or when it waited long enough.
Waited(r) ==
    /\ phase[r] = "waiting"
    /\ Answered(r, IF CacheOf(r) = NoAnswer THEN "busy" ELSE CacheOf(r).result)
    /\ UNCHANGED <<now, cache, inflight, free, asked, attempt, shown, calls, failures>>

-----------------------------------------------------------------------------
ClearCache ==
    /\ cache["wdyt"] # [k \in Keys |-> NoAnswer] /\ failures < MaxFailures
    /\ failures' = failures + 1
    /\ cache' = [cache EXCEPT !["wdyt"] = [k \in Keys |-> NoAnswer]]
    /\ calls' = {c \in calls : c.feature # "wdyt"}
    /\ UNCHANGED <<now, inflight, free, asked, phase, attempt, shown, reply>>

Tick ==
    /\ now < MaxTime
    /\ now' = now + 1
    /\ UNCHANGED <<cache, inflight, free, asked, phase, attempt, shown, reply, calls, failures>>

Init ==
    /\ now = 0
    /\ cache = [f \in Features |-> [k \in Keys |-> NoAnswer]]
    /\ inflight = [f \in Features |-> [k \in Keys |-> None]]
    /\ free = [f \in Features |-> Slots]
    /\ asked = [f \in Features |-> [u \in Users |-> 0]]
    /\ phase = [r \in Ids |-> "new"]
    /\ attempt = [r \in Ids |-> 0]
    /\ shown = {} /\ calls = {}
    /\ reply = [r \in Ids |-> None]
    /\ failures = 0

Next ==
    \/ \E r \in Ids :
           \/ Arrive(r) \/ ReadCache(r) \/ Follow(r) \/ Limit(r) \/ Lead(r)
           \/ TakeSlot(r) \/ NoSlot(r) \/ Ask(r) \/ Join(r) \/ Show(r)
           \/ Retry(r) \/ Fail(r) \/ Escape(r) \/ Waited(r)
    \/ ClearCache \/ Tick

Spec == Init /\ [][Next]_questionVars

-----------------------------------------------------------------------------
(* Properties *)

\* wdyt.py's docstring, "Answers are cached per trace and test": while an answer to a
\* question may be read from the cache, the model is not asked the question again.
AskedOnce ==
    \A c, d \in calls :
        (c # d /\ c.feature = d.feature /\ c.key = d.key /\ c.at <= d.at) => c.at + OkLife <= d.at

\* Whatever a call raises, its slot is given back: slots nobody holds are free.
SlotsKept == \A f \in Features : free[f] + Cardinality(AtWork(f)) = Slots

\* who_can_help.py:351 tells a follower it is "Waiting for the current lookup of this
\* failure": the request it waits for is at work.
LookupIsCurrent ==
    \A r \in Ids : (phase[r] = "waiting" /\ LeaderOf(r) # None) => phase[LeaderOf(r)] # "done"

-----------------------------------------------------------------------------
(* The inductive invariant, for the proof that both hold.                     *)

Asking ==
    /\ IsFiniteSet(Ids) /\ None \notin Ids
    /\ \A r \in Ids : Requests[r].feature \in Features
    /\ Slots \in Nat /\ OkLife \in Nat /\ FailureLife \in Nat

Phases == {"new", "looking", "leading", "asking", "waiting", "done"}
Results == {None, "ok", "busy", "unavailable", "rate_limited"}
Calls == [feature : Features \ {"draft"}, key : Keys, leader : Ids, at : Nat]

\* Every variable holds a value of its kind.
TypeOK ==
    /\ now \in Nat
    /\ cache \in [Features -> [Keys -> [result : Results, until : Nat]]]
    /\ inflight \in [Features -> [Keys -> Ids \cup {None}]]
    /\ free \in [Features -> Nat]
    /\ asked \in [Features -> [Users -> Nat]]
    /\ phase \in [Ids -> Phases]
    /\ attempt \in [Ids -> Nat]
    /\ shown \subseteq Ids
    /\ reply \in [Ids -> Results]
    /\ calls \subseteq Calls
    /\ failures \in Nat

AtIt(r) == phase[r] \in {"leading", "asking"} /\ ~IsDraft(r)
About(c, r) == c.feature = Requests[r].feature /\ c.key = Requests[r].key

\* Who is at work on a key leads it, and the answers to it had run out by then.
LeadsAlone(r) ==
    AtIt(r) => /\ LeaderOf(r) = r
               /\ \A c \in calls : About(c, r) => c.at + OkLife <= now

\* An answer is in the cache, or something later is; it was not asked for in the future.
CallKept(c) ==
    /\ cache[c.feature][c.key].until >= c.at + OkLife
    /\ c.at <= now

Answering ==
    /\ TypeOK
    /\ \A r \in Ids : LeadsAlone(r)
    /\ \A c \in calls : CallKept(c)
    /\ AskedOnce
    /\ SlotsKept
=============================================================================
