----------------------------- MODULE SharedReads -----------------------------
(***************************************************************************)
(* The exporter's answers that several requests share, for one key         *)
(* (otel/trace_exporter.py, _swr_fetch, _swr_build, _swr_store): a value   *)
(* is built once for all who wait for it, served while it is fresh, served *)
(* and rebuilt while it is stale.                                          *)
(***************************************************************************)
EXTENDS Integers, FiniteSets

CONSTANTS
    Requests,
    Fresh, Stale,       \* fresh_seconds, stale_seconds
    BuildTime,          \* assumption: a build takes at most this long
    MaxTime, MaxEvictions

VARIABLES
    clock,
    cache,              \* _swr_cache: when the value was stored and when it was read
    inflight,           \* _swr_inflight: the build that will set the event, or NoBuild
    builds,             \* builds running, with the clock they read their sources at
    finished,           \* builds whose event is set
    pc,                 \* of each request: new, asking, waiting, building, answered, failed
    attempt, waitsFor,
    answer,             \* when the value a request got was read
    seen,               \* history: the newest value answered before the request came
    gaveUp,             \* history: requests that no longer waited for a build
    evictions

sharedVars == <<clock, cache, inflight, builds, finished, pc, attempt, waitsFor, answer, seen, gaveUp, evictions>>

\* Requests are finitely many.
Countable == IsFiniteSet(Requests)

Never == -1
NoBuild == [of |-> {}, kind |-> "none"]
Own(q) == [of |-> {q}, kind |-> "own"]
Background(q) == [of |-> {q}, kind |-> "refresh"]
NoValue == [stored |-> Never, read |-> Never, marked |-> FALSE]

\* A value marked for rebuilding is stale, not gone.
Age == IF cache.marked THEN Fresh ELSE clock - cache.stored
Held == cache # NoValue /\ Age < Stale

Running == {b.build : b \in builds}
Started(build) == builds \union {[build |-> build, read |-> clock]}

-----------------------------------------------------------------------------

Call(q) ==
    /\ pc[q] = "new"
    /\ pc' = [pc EXCEPT ![q] = "asking"]
    /\ seen' = [seen EXCEPT ![q] =
          CHOOSE n \in {answer[p] : p \in Requests} : \A p \in Requests : answer[p] <= n]
    /\ UNCHANGED <<clock, cache, inflight, builds, finished, attempt, waitsFor, answer, gaveUp, evictions>>

Answered(q) ==
    /\ pc' = [pc EXCEPT ![q] = "answered"]
    /\ answer' = [answer EXCEPT ![q] = cache.read]

\* A fresh value; or a stale one, with a rebuild started unless one runs.
Hit(q) ==
    /\ pc[q] = "asking" /\ attempt[q] < 2 /\ Held
    /\ Answered(q)
    /\ IF Age < Fresh \/ inflight # NoBuild
       THEN UNCHANGED <<inflight, builds>>
       ELSE inflight' = Background(q) /\ builds' = Started(Background(q))
    /\ UNCHANGED <<clock, cache, finished, attempt, waitsFor, seen, gaveUp, evictions>>

\* Mutant of MustWait: every miss builds for itself.
MustWaitNever == FALSE

MustWait == inflight # NoBuild

Miss(q) ==
    /\ pc[q] = "asking" /\ attempt[q] < 2 /\ ~Held
    /\ IF MustWait
       THEN /\ pc' = [pc EXCEPT ![q] = "waiting"]
            /\ waitsFor' = [waitsFor EXCEPT ![q] = inflight]
            /\ UNCHANGED <<inflight, builds>>
       ELSE /\ pc' = [pc EXCEPT ![q] = "building"]
            /\ inflight' = Own(q) /\ builds' = Started(Own(q))
            /\ UNCHANGED waitsFor
    /\ UNCHANGED <<clock, cache, finished, attempt, answer, seen, gaveUp, evictions>>

\* The build waited for ended, or wait_seconds passed.
Wake(q) ==
    /\ pc[q] = "waiting"
    /\ attempt' = [attempt EXCEPT ![q] = @ + 1]
    /\ pc' = [pc EXCEPT ![q] = "asking"]
    /\ gaveUp' = IF waitsFor[q] \in finished THEN gaveUp ELSE gaveUp \union {q}
    /\ waitsFor' = [waitsFor EXCEPT ![q] = NoBuild]
    /\ UNCHANGED <<clock, cache, inflight, builds, finished, answer, seen, evictions>>

\* Waited twice: the request builds for itself, whoever else does.
BuildAnyway(q) ==
    /\ pc[q] = "asking" /\ attempt[q] = 2
    /\ pc' = [pc EXCEPT ![q] = "building"]
    /\ inflight' = IF inflight = NoBuild THEN Own(q) ELSE inflight
    /\ builds' = Started(Own(q))
    /\ gaveUp' = gaveUp \union {q}
    /\ UNCHANGED <<clock, cache, finished, attempt, waitsFor, answer, seen, evictions>>

-----------------------------------------------------------------------------

\* Mutant of Cleared: a build that failed keeps its place.
ClearedOnSuccess(b, built) == IF inflight = b.build /\ built THEN NoBuild ELSE inflight

Cleared(b, built) == IF inflight = b.build THEN NoBuild ELSE inflight

Over(b, built) ==
    /\ inflight' = Cleared(b, built)
    /\ builds' = builds \ {b}
    /\ finished' = finished \union {b.build}
    /\ UNCHANGED <<clock, attempt, waitsFor, seen, gaveUp, evictions>>

\* The value is stored (marked, when a source failed), and its builder answered.
BuildEnds(b) ==
    /\ b \in builds
    /\ \E marked \in BOOLEAN :
          cache' = [stored |-> IF marked THEN Never ELSE clock, read |-> b.read, marked |-> marked]
    /\ IF b.build.kind = "own"
       THEN /\ pc' = [q \in Requests |-> IF q \in b.build.of THEN "answered" ELSE pc[q]]
            /\ answer' = [q \in Requests |-> IF q \in b.build.of THEN b.read ELSE answer[q]]
       ELSE UNCHANGED <<pc, answer>>
    /\ Over(b, TRUE)

BuildFails(b) ==
    /\ b \in builds
    /\ pc' = [q \in Requests |->
          IF b.build = Own(q) THEN "failed" ELSE pc[q]]
    /\ Over(b, FALSE)
    /\ UNCHANGED <<cache, answer>>

\* 256 newer keys.
Evict ==
    /\ cache # NoValue /\ evictions < MaxEvictions
    /\ cache' = NoValue
    /\ evictions' = evictions + 1
    /\ UNCHANGED <<clock, inflight, builds, finished, pc, attempt, waitsFor, answer, seen, gaveUp>>

Tick ==
    /\ clock < MaxTime
    /\ \A b \in builds : clock < b.read + BuildTime
    /\ clock' = clock + 1
    /\ UNCHANGED <<cache, inflight, builds, finished, pc, attempt, waitsFor, answer, seen, gaveUp, evictions>>

Init ==
    /\ clock = 0
    /\ cache = NoValue /\ inflight = NoBuild /\ builds = {} /\ finished = {}
    /\ pc = [q \in Requests |-> "new"]
    /\ attempt = [q \in Requests |-> 0]
    /\ waitsFor = [q \in Requests |-> NoBuild]
    /\ answer = [q \in Requests |-> Never] /\ seen = [q \in Requests |-> Never]
    /\ gaveUp = {} /\ evictions = 0

Next ==
    \/ \E q \in Requests : Call(q) \/ Hit(q) \/ Miss(q) \/ Wake(q) \/ BuildAnyway(q)
    \/ \E b \in builds : BuildEnds(b) \/ BuildFails(b)
    \/ Evict \/ Tick

Spec == Init /\ [][Next]_sharedVars

-----------------------------------------------------------------------------
(* Correctness *)

\* One build at a time, but for those of requests that waited in vain; and a
\* key taken for building is being built, so that no failure leaves a stale
\* value that nothing rebuilds.
BuiltOnce ==
    /\ Cardinality(builds) <= 1 + Cardinality(gaveUp)
    /\ inflight # NoBuild => inflight \in Running

\* As long as nobody waited in vain, no request is given an older value than
\* one answered before it came, whatever was evicted or failed in between.
AnswersInOrder ==
    gaveUp = {} => \A q \in Requests : answer[q] # Never => answer[q] >= seen[q]

\* What the comment above _swr_cache says: a value is served "however old (up
\* to stale_seconds)".  One marked for rebuilding has no age: while its
\* rebuilds fail it is served for ever.
StaleBound ==
    [][\A q \in Requests : pc[q] = "asking" /\ pc'[q] = "answered" => clock - cache.read < Stale + BuildTime]_sharedVars

-----------------------------------------------------------------------------
(* What these two rest on *)

Times == Nat \union {Never}

TypeOK ==
    /\ clock \in Nat
    /\ cache \in [stored : Times, read : Times, marked : BOOLEAN]
    /\ builds \subseteq [build : {Own(q) : q \in Requests} \union {Background(q) : q \in Requests}, read : Nat]
    /\ pc \in [Requests -> {"new", "asking", "waiting", "building", "answered", "failed"}]
    /\ answer \in [Requests -> Times] /\ seen \in [Requests -> Times]
    /\ gaveUp \subseteq Requests

\* A build is of a request that waits for it, or was answered and rebuilds; each
\* request has one, which is the one others wait for unless it waited in vain.
Building(b) ==
    \E q \in Requests :
        /\ \/ b.build = Own(q) /\ pc[q] = "building"
           \/ b.build = Background(q) /\ pc[q] = "answered"
        /\ b.build = inflight \/ (b.build = Own(q) /\ q \in gaveUp)

OneEach ==
    /\ inflight # NoBuild => inflight \in Running
    /\ \A b \in builds : Building(b)
    /\ \A b, c \in builds : b.build = c.build => b = c

\* Nothing anybody was told is newer than a value read at that time.
ToldBefore(time) == \A q \in Requests : answer[q] <= time /\ seen[q] <= time

\* What is built now is no older than what is served, and that no older than what
\* anybody was told.
InOrder ==
    /\ ToldBefore(clock) /\ cache.read <= clock /\ \A b \in builds : b.read <= clock
    /\ \A q \in Requests : answer[q] # Never => pc[q] = "answered"
    /\ gaveUp = {} =>
          /\ AnswersInOrder
          /\ cache # NoValue => ToldBefore(cache.read)
          /\ \A b \in builds : cache.read <= b.read /\ ToldBefore(b.read)

Served == TypeOK /\ OneEach /\ InOrder
=============================================================================
