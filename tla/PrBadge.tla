------------------------------ MODULE PrBadge --------------------------------
(***************************************************************************)
(* The badges of a pull request, one of its PR CI and one of its run-slow  *)
(* runs (otel/trace_exporter.py, _pr_run_summary_cached): the newest run   *)
(* of the stream in the published payload; failing that, an answer         *)
(* remembered for a while; failing that, Prometheus, which keeps what each *)
(* payload said; and only when Prometheus cannot be asked, the traces.     *)
(*                                                                         *)
(* A payload is published, and scraped, within a tick.  Retention of       *)
(* Prometheus and of traces is longer than any behaviour; so is no lookup: *)
(* it ends within ReadTime.  NeverBack takes Window >= Keep + ReadTime     *)
(* (an hour; two minutes; the seconds of the HTTP timeouts), and no run    *)
(* that reports after a newer one of its stream has: the payload may hold  *)
(* the older alone.                                                        *)
(***************************************************************************)
EXTENDS Naturals, FiniteSets, FiniteSetsExt

CONSTANTS
    Runs,           \* runs of the PR, numbers in the order they started
    EventOf,        \* ci_event of each run: "pr-comment" is run-slow's
    JobsOf,         \* (test_job, hardware) of each run's jobs
    Streams,        \* those asked for, of "pr-ci" and "run-slow"
    Overlap,        \* a run may report after a newer one of its stream has
    Requests,
    Window,         \* how long a run stays in the payload after its last trace
    Keep,           \* _badge_cache_seconds
    ReadTime,       \* bound on how long a lookup takes
    MaxTime,
    MaxFaults       \* bound on lookups Prometheus does not answer

VARIABLES
    clock,
    arrived,        \* per run: the jobs whose trace is in Tempo
    lastTrace,      \* per run: when the last of them came
    payload,        \* the published series: per run, its jobs
    stored,         \* Prometheus: per run, the jobs of the last scrape that had it
    memo,           \* _pr_summary_cache, per stream
    request,        \* what each request is at
    newest,         \* history, per stream: the furthest answer given so far
    told,           \* history: the last answer, and newest when its request came in
    faults

badgeVars == <<clock, arrived, lastTrace, payload, stored, memo, request, newest, told, faults>>

Suited ==
    /\ Runs \subseteq Nat /\ \E last \in Runs \union {0} : Runs \subseteq 1 .. last
    /\ \A r \in Runs : IsFiniteSet(JobsOf[r])
    /\ Streams # {} /\ Streams \subseteq {"pr-ci", "run-slow"}
    /\ {Window, Keep, ReadTime} \subseteq Nat /\ Window > 0 /\ Window >= Keep + ReadTime
    /\ ~Overlap

Sources == {"metrics", "traces"}
None == [run |-> 0, jobs |-> 0]
NoMemo == [until |-> 0, answer |-> None, from |-> "metrics"]
Idle == [step |-> "idle"]

\* Mutant of InStream: a targeted rerun counts as PR CI.
InStreamOrRerun(r, s) == (EventOf[r] = "pr-comment") <=> (s = "run-slow")
\* _badge_event_matches: a rerun of failed tests belongs to neither stream.
InStream(r, s) ==
    /\ EventOf[r] # "rerun-failed"
    /\ (EventOf[r] = "pr-comment") <=> (s = "run-slow")

SameStream(r, n) == \E s \in Streams : InStream(r, s) /\ InStream(n, s)

\* Mutant of JobCount: keyed by test_job, whatever the hardware.
JobCountByName(jobs) == Cardinality({j.name : j \in jobs})
\* One job of the run per test_job and hardware.
JobCount(jobs) == Cardinality(jobs)

\* The run of the stream that started last, of those series or traces name.
Latest(series, s) ==
    LET found == {r \in Runs : series[r] # {} /\ InStream(r, s)}
    IN  IF found = {} THEN None ELSE [run |-> Max(found), jobs |-> Cardinality(series[Max(found)])]

\* Prometheus' totals are summed over the jobs of the run chosen.
LatestStored(s) ==
    LET latest == Latest(stored, s)
    IN  IF latest = None THEN None ELSE [latest EXCEPT !.jobs = JobCount(stored[latest.run])]

-----------------------------------------------------------------------------
(* Traces, renders and scrapes *)

Arrive(r, j) ==
    /\ j \in JobsOf[r] \ arrived[r]
    /\ Overlap \/ \A n \in Runs : n > r /\ SameStream(r, n) => arrived[n] = {}
    /\ arrived' = [arrived EXCEPT ![r] = @ \union {j}]
    /\ lastTrace' = [lastTrace EXCEPT ![r] = clock]
    /\ UNCHANGED <<clock, payload, stored, memo, request, newest, told, faults>>

Pending(q) == request[q] # Idle
Tick ==
    /\ clock < MaxTime
    /\ \A q \in Requests : Pending(q) => clock - request[q].since < ReadTime
    /\ clock' = clock + 1
    /\ payload' = [r \in Runs |-> IF clock' - lastTrace[r] <= Window THEN arrived[r] ELSE {}]
    /\ stored' = [r \in Runs |-> stored[r] \union payload'[r]]
    /\ UNCHANGED <<arrived, lastTrace, memo, request, newest, told, faults>>

-----------------------------------------------------------------------------
(* A request *)

Further(a, b) == a.run > b.run \/ (a.run = b.run /\ a.jobs >= b.jobs)

Answered(q, s, answer, from, floor) ==
    /\ request' = [request EXCEPT ![q] = Idle]
    /\ told' = [stream |-> s, answer |-> answer, from |-> from, floor |-> floor]
    /\ newest' = IF from = "metrics" /\ Further(answer, newest[s])
                 THEN [newest EXCEPT ![s] = answer] ELSE newest

\* The payload is read first: what is remembered of a run may be older.
FromPayload(q, s) ==
    /\ ~Pending(q)
    /\ Latest(payload, s) # None
    /\ Answered(q, s, Latest(payload, s), "metrics", newest[s])
    /\ UNCHANGED <<clock, arrived, lastTrace, payload, stored, memo, faults>>

FromMemo(q, s) ==
    /\ ~Pending(q)
    /\ Latest(payload, s) = None
    /\ memo[s].until > clock
    /\ Answered(q, s, memo[s].answer, memo[s].from, newest[s])
    /\ UNCHANGED <<clock, arrived, lastTrace, payload, stored, memo, faults>>

Ask(q, s) ==
    /\ ~Pending(q)
    /\ Latest(payload, s) = None
    /\ memo[s].until <= clock
    /\ request' = [request EXCEPT ![q] =
                     [step |-> "asking", stream |-> s, since |-> clock, floor |-> newest[s]]]
    /\ UNCHANGED <<clock, arrived, lastTrace, payload, stored, memo, newest, told, faults>>

Found(q, answer, from) ==
    request' = [request EXCEPT ![q] =
                  [step |-> "found", stream |-> @.stream, since |-> @.since, floor |-> @.floor,
                   answer |-> answer, from |-> from]]

\* "No such run" from Prometheus is an answer as any.
PrometheusAnswers(q) ==
    /\ request[q].step = "asking"
    /\ Found(q, LatestStored(request[q].stream), "metrics")
    /\ UNCHANGED <<clock, arrived, lastTrace, payload, stored, memo, newest, told, faults>>

PrometheusFails(q) ==
    /\ request[q].step = "asking" /\ faults < MaxFaults
    /\ faults' = faults + 1
    /\ request' = [request EXCEPT ![q].step = "searching"]
    /\ UNCHANGED <<clock, arrived, lastTrace, payload, stored, memo, newest, told>>

\* The search may fail, and the fetch of any trace: what is left is the answer.
SearchTraces(q) ==
    /\ request[q].step = "searching"
    /\ \E read \in [Runs -> SUBSET UNION {JobsOf[r] : r \in Runs}] :
          /\ \A r \in Runs : read[r] \subseteq arrived[r]
          /\ Found(q, Latest(read, request[q].stream), "traces")
    /\ UNCHANGED <<clock, arrived, lastTrace, payload, stored, memo, newest, told, faults>>

\* Mutant of Until: a remembered answer is good until the process ends.
UntilEnd == MaxTime + 1
Until == clock + Keep

Remember(q) ==
    /\ request[q].step = "found"
    /\ memo' = [memo EXCEPT ![request[q].stream] =
                  [until |-> Until, answer |-> request[q].answer, from |-> request[q].from]]
    /\ Answered(q, request[q].stream, request[q].answer, request[q].from, request[q].floor)
    /\ UNCHANGED <<clock, arrived, lastTrace, payload, stored, faults>>

\* render_pr_badge_svg: without a run, the badge of a stream only some pull
\* requests have says so; the other says that nothing is known.
Message(s, answer) ==
    IF answer # None THEN "counts" ELSE IF s = "run-slow" THEN "not run" ELSE "no data"

-----------------------------------------------------------------------------
Init ==
    /\ clock = 1
    /\ arrived = [r \in Runs |-> {}] /\ lastTrace = [r \in Runs |-> 0]
    /\ payload = [r \in Runs |-> {}] /\ stored = [r \in Runs |-> {}]
    /\ memo = [s \in Streams |-> NoMemo]
    /\ request = [q \in Requests |-> Idle]
    /\ newest = [s \in Streams |-> None]
    /\ told = [stream |-> CHOOSE s \in Streams : TRUE, answer |-> None, from |-> "metrics", floor |-> None]
    /\ faults = 0

Next ==
    \/ \E r \in Runs : \E j \in JobsOf[r] : Arrive(r, j)
    \/ Tick
    \/ \E q \in Requests, s \in Streams : FromPayload(q, s) \/ FromMemo(q, s) \/ Ask(q, s)
    \/ \E q \in Requests :
          PrometheusAnswers(q) \/ PrometheusFails(q) \/ SearchTraces(q) \/ Remember(q)

Spec == Init /\ [][Next]_badgeVars

-----------------------------------------------------------------------------
(* Properties *)

\* While Prometheus answers, a badge does not go back: whichever of the three
\* sources each answer came from, and however lookups overlap, no request is told
\* of an older run, or of fewer jobs of the same run, than was told before it came
\* in.
NeverBack == told.from = "metrics" => Further(told.answer, told.floor)

\* A badge is of a run of its stream, and counts no job that has not reported.
OfItsStream ==
    LET answer == told.answer
    IN  answer # None =>
          /\ IF told.stream = "run-slow" THEN EventOf[answer.run] = "pr-comment"
             ELSE EventOf[answer.run] \notin {"pr-comment", "rerun-failed"}
          /\ answer.jobs <= Cardinality(arrived[answer.run])

\* "A run-slow run only exists once a maintainer asks for one, so its absence is
\* a fact about the PR": a badge that comes to say "not run" is of a pull request
\* none of whose run-slow runs has been published.
NotRunIsAFact ==
    [][(told' # told /\ Message(told'.stream, told'.answer) = "not run")
       => \A r \in Runs : InStream(r, "run-slow") => stored[r] = {}]_badgeVars
-----------------------------------------------------------------------------
(* What the first two rest on *)

Answers == [run : Nat, jobs : Nat]
Jobs == UNION {JobsOf[r] : r \in Runs}

TypeOK ==
    /\ clock \in Nat
    /\ {arrived, payload, stored} \subseteq [Runs -> SUBSET Jobs]
    /\ lastTrace \in [Runs -> Nat]
    /\ memo \in [Streams -> [until : Nat, answer : Answers, from : Sources]]
    /\ request \in [Requests -> {Idle}
          \union [step : {"asking", "searching"}, stream : Streams, since : Nat, floor : Answers]
          \union [step : {"found"}, stream : Streams, since : Nat, floor : Answers,
                  answer : Answers, from : Sources]]
    /\ newest \in [Streams -> Answers]
    /\ told \in [stream : Streams, answer : Answers, from : Sources, floor : Answers]

\* A tick publishes and keeps whatever has arrived, as long as its run is in the window.
Published ==
    \A r \in Runs :
        /\ arrived[r] \subseteq JobsOf[r] /\ stored[r] \subseteq arrived[r]
        /\ payload[r] \in {{}, stored[r]}
        /\ lastTrace[r] <= clock
        /\ stored[r] # arrived[r] => lastTrace[r] = clock

\* A run that is published has every newer one of its stream published with it.
Outlasted ==
    \A r, n \in Runs : r < n /\ SameStream(r, n) =>
        /\ arrived[r] # {} /\ arrived[n] # {} => lastTrace[r] <= lastTrace[n]
        /\ payload[r] # {} /\ stored[n] # {} => payload[n] # {}

\* An answer is the one there is now, or until a time the payload has another.
Current(s, answer, until) ==
    \/ answer = Latest(stored, s)
    \/ \E r \in Runs : InStream(r, s) /\ payload[r] # {} /\ until <= lastTrace[r] + Window

\* An answer is of its stream, and no further than what has been published.
Sound(s, answer, from) ==
    /\ answer # None => /\ answer.run \in Runs /\ InStream(answer.run, s)
                       /\ answer.jobs <= Cardinality(arrived[answer.run])
    /\ from = "metrics" => Further(Latest(stored, s), answer)

Remembered(s) ==
    LET m == memo[s] IN
    /\ m.until <= clock + Keep /\ Sound(s, m.answer, m.from)
    /\ m.from = "metrics" /\ clock < m.until => Current(s, m.answer, m.until)

Asked(q) ==
    Pending(q) =>
        LET p == request[q] IN
        /\ p.since <= clock /\ clock <= p.since + ReadTime
        /\ Further(Latest(stored, p.stream), p.floor)
        /\ p.step = "found" => Sound(p.stream, p.answer, p.from)
        /\ p.step = "found" /\ p.from = "metrics" =>
              Further(p.answer, p.floor) /\ Current(p.stream, p.answer, p.since + Window)

Told ==
    /\ TypeOK /\ Published /\ Outlasted
    /\ \A s \in Streams : Remembered(s) /\ Further(Latest(stored, s), newest[s])
    /\ \A q \in Requests : Asked(q)
    /\ NeverBack /\ Sound(told.stream, told.answer, told.from)
=============================================================================
