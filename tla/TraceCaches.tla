----------------------------- MODULE TraceCaches -----------------------------
(***************************************************************************)
(* The exporter's two caches of CI traces (otel/trace_exporter.py: the raw *)
(* and the shaped LRU, the growth tracker that decides when a trace is     *)
(* complete, _iter_window_shaped_all).  Spans of a trace reach Tempo over  *)
(* time; the render loop and request threads read it while it grows.       *)
(***************************************************************************)
EXTENDS Naturals, Sequences, SequencesExt, FiniteSets

CONSTANTS
    Traces,
    Asked,              \* traces requests ask for, and whose job ends while they are in the window
    Final,              \* how many spans each trace will have
    Settle, Reverify,   \* how long a span count must hold before a trace is settled
    Refetch,            \* _trace_refetch_interval
    MaxNew,             \* fetches of a render
    RawMax, ShapedMax,  \* entries each cache holds
    RawSpans, ShapedSpans,  \* the byte budget of each, in spans
    Gap,                \* assumption: spans of a trace come at most this far apart
    ReadTime,           \* assumption: a read ends at most this long after its clock was read
    MaxTime, MaxReliefs   \* bounds on the exploration

VARIABLES
    clock,
    spans, lastSpan,            \* Tempo: spans of each trace, when the last came
    growth,                     \* _trace_growth: last count and when it changed, or Unseen
    raw, shaped,                \* the caches, least recently used first
    dueSince,                   \* _job_refetch_due: a finished job's trace, read no earlier than this
    renderNow,                  \* now of the render under way, or Idle
    toFetch, held, served,      \* fetches left; traces with a shape at the start; served so far
    reading,                    \* the read under way of the render and of a request
    published,                  \* spans behind each trace's rows in the last payload
    reliefs

cachesVars == <<clock, spans, lastSpan, growth, raw, shaped, dueSince, renderNow, toFetch,
                held, served, reading, published, reliefs>>
tempoVars == <<spans, lastSpan>>
renderVars == <<renderNow, toFetch, held, served, published>>

Unseen == [count |-> 0, at |-> 0]
Idle == MaxTime + 1
NoRead == [trace |-> {}, now |-> 0, count |-> 0]
Readers == {"render", "request"}

-----------------------------------------------------------------------------
(* An LRU bounded by entries and by a budget. *)

Ids(cache) == {cache[i].id : i \in DOMAIN cache}
Entry(cache, t) == cache[CHOOSE i \in DOMAIN cache : cache[i].id = t]
Weight(cache) == FoldSeq(LAMBDA e, w : e.spans + w, 0, cache)

\* The oldest entries go until both bounds hold, the new one itself if it alone is too much.
Fit(cache, entries, budget) ==
    LET Tail_(k) == SubSeq(cache, k, Len(cache))
        Fits(k) == Len(Tail_(k)) <= entries /\ Weight(Tail_(k)) <= budget
    IN  Tail_(CHOOSE k \in 1..Len(cache) + 1 : Fits(k) /\ \A j \in 1..k - 1 : ~Fits(j))

Without(cache, t) == SelectSeq(cache, LAMBDA e : e.id # t)
Used(cache, t) == Append(Without(cache, t), Entry(cache, t))

StoreRaw(t, n) == Fit(Append(Without(raw, t), [id |-> t, spans |-> n]), RawMax, RawSpans)
StoreShaped(t, n, settled, now) ==
    Fit(Append(Without(shaped, t), [id |-> t, spans |-> n, settled |-> settled, at |-> now]),
        ShapedMax, ShapedSpans)

-----------------------------------------------------------------------------
(* Tempo and the clock. *)

SpanArrives(t) ==
    /\ spans[t] < Final[t]
    /\ spans' = [spans EXCEPT ![t] = @ + 1]
    /\ lastSpan' = [lastSpan EXCEPT ![t] = IF spans'[t] < Final[t] THEN clock ELSE 0]
    /\ UNCHANGED <<clock, growth, raw, shaped, dueSince, renderVars, reading, reliefs>>

Tick ==
    /\ clock < MaxTime
    /\ \A t \in Traces : spans[t] \in 1..Final[t] - 1 => clock < lastSpan[t] + Gap
    /\ \A w \in Readers : reading[w] # NoRead => clock < reading[w].now + ReadTime
    /\ renderNow # Idle => clock < renderNow + ReadTime
    /\ clock' = clock + 1
    /\ UNCHANGED <<tempoVars, growth, raw, shaped, dueSince, renderVars, reading, reliefs>>

\* The job of a trace is over: its trace is to be read again after its end.
JobEnds(t) ==
    /\ t \in Asked /\ dueSince[t] = Idle /\ spans[t] > 0
    /\ dueSince' = [dueSince EXCEPT ![t] = clock]
    /\ UNCHANGED <<clock, tempoVars, growth, raw, shaped, renderVars, reading, reliefs>>

-----------------------------------------------------------------------------
(* _trace_is_settled *)

\* Mutant of SteadyFor: no margin for spans that surface late.
SteadyForSettle(now, since) == now - since >= Settle
SteadyFor(now, since) == now - since >= Settle + Reverify

ChangedAt(t, count, now) == IF count # growth[t].count THEN now ELSE growth[t].at

IsSettled(t, count, now) ==
    growth[t] # Unseen /\ SteadyFor(now, ChangedAt(t, count, now))

Track(t, count, now) ==
    growth' = [growth EXCEPT ![t] =
        IF growth[t] = Unseen THEN [count |-> count, at |-> now]
        ELSE IF IsSettled(t, count, now) THEN Unseen
        ELSE [count |-> count, at |-> ChangedAt(t, count, now)]]

-----------------------------------------------------------------------------
(* _fetch_trace_with_settled, from a request (get_trace) and from the render. *)

\* The clock is read before Tempo is, by a request as by a render.  A request's
\* trace in the raw cache is served from there, marked as used.
RequestServed(t) ==
    /\ t \in Asked \intersect Ids(raw)
    /\ raw' = Used(raw, t)
    /\ UNCHANGED <<clock, tempoVars, growth, shaped, dueSince, renderVars, reading, reliefs>>

BeginRead(w, t) ==
    /\ reading[w] = NoRead
    /\ t \notin Ids(raw) /\ spans[t] > 0
    /\ t \in IF w = "render" THEN toFetch ELSE Asked
    /\ \E now \in IF w = "render" THEN {renderNow} ELSE {clock, clock - ReadTime} :
          reading' = [reading EXCEPT ![w] = [trace |-> {t}, now |-> now, count |-> spans[t]]]
    /\ UNCHANGED <<clock, tempoVars, growth, raw, shaped, dueSince, renderVars, reliefs>>

RequestRead ==
    /\ reading["request"] # NoRead
    /\ LET r == reading["request"] IN \E t \in r.trace :
          /\ Track(t, r.count, r.now)
          /\ raw' = IF IsSettled(t, r.count, r.now) THEN StoreRaw(t, r.count) ELSE raw
    /\ reading' = [reading EXCEPT !["request"] = NoRead]
    /\ UNCHANGED <<clock, tempoVars, shaped, dueSince, renderVars, reliefs>>

RequestFails ==
    /\ reading["request"] # NoRead
    /\ reading' = [reading EXCEPT !["request"] = NoRead]
    /\ UNCHANGED <<clock, tempoVars, growth, raw, shaped, dueSince, renderVars, reliefs>>

-----------------------------------------------------------------------------
(* A render: _relieve_memory_pressure, then _iter_window_shaped_all. *)

\* Over the soft limit the raw cache goes, and the shaped one if that was not enough.
RelieveMemory ==
    /\ renderNow = Idle /\ reliefs < MaxReliefs
    /\ reliefs' = reliefs + 1
    /\ raw' = <<>>
    /\ shaped' \in {shaped, <<>>}
    /\ UNCHANGED <<clock, tempoVars, growth, dueSince, renderVars, reading>>

JobDue(t, now) ==
    /\ ~Entry(shaped, t).settled
    /\ dueSince[t] # Idle
    /\ now >= dueSince[t] /\ dueSince[t] > Entry(shaped, t).at
NeedFetch(t, now) ==
    \/ t \notin Ids(shaped)
    \/ ~Entry(shaped, t).settled /\ now - Entry(shaped, t).at >= Refetch

\* The window is enumerated, perhaps not completely (truncated); traces a job
\* waits for are read first, and what the cap leaves out is served as it is.
BeginRender ==
    /\ renderNow = Idle /\ clock < MaxTime
    /\ \E window \in SUBSET {t \in Traces : spans[t] > 0} :
          LET have == window \intersect Ids(shaped)
              jobDue == {t \in have : JobDue(t, clock)}
              others == {t \in window \ jobDue : NeedFetch(t, clock)}
          IN  \E fetch \in SUBSET (jobDue \union others) :
              /\ Cardinality(fetch) = IF Cardinality(jobDue \union others) < MaxNew
                                      THEN Cardinality(jobDue \union others) ELSE MaxNew
              /\ jobDue \subseteq fetch \/ fetch \subseteq jobDue
              /\ toFetch' = fetch
              /\ held' = have
              /\ served' = [t \in Traces |->
                    IF t \in have \ fetch THEN Entry(shaped, t).spans ELSE 0]
    /\ renderNow' = clock
    /\ shaped' = FoldFunctionOnSet(LAMBDA e, cache : Used(cache, e), shaped, [t \in Traces |-> t],
                     {t \in held' : ~NeedFetch(t, clock) /\ ~JobDue(t, clock)})
    /\ UNCHANGED <<clock, tempoVars, growth, raw, dueSince, reading, published, reliefs>>

\* A trace settled before: shaped from the raw cache, for good.
RenderFromRaw(t) ==
    /\ t \in toFetch /\ t \in Ids(raw) /\ reading["render"] = NoRead
    /\ LET n == Entry(raw, t).spans IN
          /\ shaped' = StoreShaped(t, n, TRUE, renderNow)
          /\ served' = [served EXCEPT ![t] = n]
    /\ raw' = Used(raw, t)
    /\ toFetch' = toFetch \ {t}
    /\ UNCHANGED <<clock, tempoVars, growth, dueSince, renderNow, held, reading, published, reliefs>>

RenderRead ==
    /\ reading["render"] # NoRead
    /\ LET r == reading["render"] IN \E t \in r.trace :
          LET settled == IsSettled(t, r.count, r.now) IN
          /\ Track(t, r.count, r.now)
          /\ raw' = IF settled THEN StoreRaw(t, r.count) ELSE raw
          /\ shaped' = StoreShaped(t, r.count, settled, r.now)
          /\ served' = [served EXCEPT ![t] = r.count]
          /\ toFetch' = toFetch \ {t}
    /\ reading' = [reading EXCEPT !["render"] = NoRead]
    /\ UNCHANGED <<clock, tempoVars, dueSince, renderNow, held, published, reliefs>>

\* Mutant of AfterFailure: a trace that could not be read is left out.
AfterFailureNothing(t) == 0

\* The shape held from before stands in for a read that failed.
AfterFailure(t) == IF t \in held /\ t \in Ids(shaped) THEN Entry(shaped, t).spans ELSE 0

RenderFails(t) ==
    /\ t \in toFetch /\ reading["render"].trace \in {{}, {t}}
    /\ served' = [served EXCEPT ![t] = AfterFailure(t)]
    /\ toFetch' = toFetch \ {t}
    /\ reading' = [reading EXCEPT !["render"] = NoRead]
    /\ UNCHANGED <<clock, tempoVars, growth, raw, shaped, dueSince, renderNow, held, published, reliefs>>

EndRender ==
    /\ renderNow # Idle /\ toFetch = {} /\ reading["render"] = NoRead
    /\ published' = served
    /\ renderNow' = Idle
    /\ held' = {} /\ served' = [t \in Traces |-> 0]
    /\ UNCHANGED <<clock, tempoVars, growth, raw, shaped, dueSince, toFetch, reading, reliefs>>

-----------------------------------------------------------------------------

Init ==
    /\ clock = 1
    /\ spans = [t \in Traces |-> 0] /\ lastSpan = [t \in Traces |-> 0]
    /\ growth = [t \in Traces |-> Unseen]
    /\ raw = <<>> /\ shaped = <<>>
    /\ dueSince = [t \in Traces |-> Idle]
    /\ renderNow = Idle /\ toFetch = {} /\ held = {} /\ served = [t \in Traces |-> 0]
    /\ reading = [w \in Readers |-> NoRead]
    /\ published = [t \in Traces |-> 0]
    /\ reliefs = 0

Next ==
    \/ \E t \in Traces : SpanArrives(t) \/ JobEnds(t) \/ RequestServed(t) \/ RenderFromRaw(t) \/ RenderFails(t)
    \/ \E w \in Readers, t \in Traces : BeginRead(w, t)
    \/ Tick \/ RequestRead \/ RequestFails \/ RelieveMemory \/ BeginRender \/ RenderRead \/ EndRender

Spec == Init /\ [][Next]_cachesVars

-----------------------------------------------------------------------------
(* Correctness *)

\* What is kept for good has every span: neither cache ever holds as settled a
\* trace that still grows, whoever read it, however late, and whatever was
\* evicted meanwhile.  This rests on Gap < Settle + Reverify - ReadTime.
FrozenComplete ==
    /\ \A i \in DOMAIN raw : raw[i].spans = Final[raw[i].id]
    /\ \A i \in DOMAIN shaped : shaped[i].settled => shaped[i].spans = Final[shaped[i].id]

\* A payload shows no fewer tests of a trace than the one before, as long as
\* the window and the shaped cache still hold it, though reads overlap and fail.
RowsNeverShrink ==
    [][renderNow # Idle /\ renderNow' = Idle =>
          \A t \in held \intersect Ids(shaped) : published'[t] >= published[t]]_cachesVars

=============================================================================
