---------------------------- MODULE StatusScrapes ----------------------------
(***************************************************************************)
(* How ci-github-status answers GET /metrics (status/server.py): a body is *)
(* rendered at most once per metrics_max_age, on the request's thread      *)
(* under _render_lock until render_loop runs, then on that loop's thread   *)
(* when a scrape asks.  A body stands for the state of the store it shows. *)
(***************************************************************************)
EXTENDS Naturals, FiniteSets

CONSTANTS
    Scrapes,            \* requests for /metrics
    MaxChanges          \* bound on the changes of the store

VARIABLES
    changes,            \* store: how often it has changed
    body,               \* _metrics: the state the last body shows, or NoBody
    fresh,              \* that body is younger than metrics_max_age
    worker,             \* _render_worker
    requested,          \* _render_requested
    rendering,          \* _rendering
    loop,               \* the state render_loop is rendering, or NoBody
    scrape,             \* where each scrape is, and the state it renders or got
    early               \* history: a render on the lock path outlived the loop's start

scrapesVars == <<changes, body, fresh, worker, requested, rendering, loop, scrape, early>>

NoBody == 0             \* the store's first state is 1

RequestThreads == {s \in Scrapes : scrape[s].at = "rendering"}
Renders == Cardinality(RequestThreads) + IF loop = NoBody THEN 0 ELSE 1

To(s, at, shows) == scrape' = [scrape EXCEPT ![s] = [at |-> at, shows |-> shows]]

\* notify_all: whoever waits sees a newer body, or a failure since it asked.
Notify ==
    scrape' = [s \in Scrapes |->
                  IF scrape[s].at = "waiting" THEN [scrape[s] EXCEPT !.at = "woken"] ELSE scrape[s]]

-----------------------------------------------------------------------------

StoreChanges ==
    /\ changes <= MaxChanges
    /\ changes' = changes + 1
    /\ UNCHANGED <<body, fresh, worker, requested, rendering, loop, scrape, early>>

BodyAges ==
    /\ fresh
    /\ fresh' = FALSE
    /\ UNCHANGED <<changes, body, worker, requested, rendering, loop, scrape, early>>

ServeFresh(s) ==
    /\ scrape[s].at = "new" /\ fresh
    /\ worker \/ RequestThreads = {}
    /\ To(s, "served", body)
    /\ UNCHANGED <<changes, body, fresh, worker, requested, rendering, loop, early>>

\* Mutant of OnRequest: a scrape that finds no loop rendering does it itself.
OnRequestWhileIdle == ~rendering

\* Before the loop runs the scrape renders, holding the lock.
OnRequest == ~worker

RenderOnRequest(s) ==
    /\ scrape[s].at = "new" /\ ~fresh /\ OnRequest
    /\ RequestThreads = {}
    /\ To(s, "rendering", changes)
    /\ UNCHANGED <<changes, body, fresh, worker, requested, rendering, loop, early>>

RequestRendered(s) ==
    /\ scrape[s].at = "rendering"
    /\ body' = scrape[s].shows
    /\ fresh' = TRUE
    /\ To(s, "served", scrape[s].shows)
    /\ UNCHANGED <<changes, worker, requested, rendering, loop, early>>

RequestFails(s) ==
    /\ scrape[s].at = "rendering"
    /\ To(s, "served", NoBody)
    /\ UNCHANGED <<changes, body, fresh, worker, requested, rendering, loop, early>>

\* A render in flight answers the scrape; else it asks for one.
MustAsk == ~rendering

Ask(s) ==
    /\ scrape[s].at = "new" /\ ~fresh /\ worker
    /\ requested' = (requested \/ MustAsk)
    /\ To(s, "waiting", NoBody)
    /\ UNCHANGED <<changes, body, fresh, worker, rendering, loop, early>>

\* What it serves is the last body; having none, it is an error.
Wake(s) ==
    /\ scrape[s].at = "woken"
    /\ To(s, "served", body)
    /\ UNCHANGED <<changes, body, fresh, worker, requested, rendering, loop, early>>

\* metrics_wait is over.
WaitEnds(s) ==
    /\ scrape[s].at = "waiting"
    /\ To(s, "served", body)
    /\ UNCHANGED <<changes, body, fresh, worker, requested, rendering, loop, early>>

Leave(s) ==
    /\ scrape[s].at = "served"
    /\ To(s, "new", NoBody)
    /\ UNCHANGED <<changes, body, fresh, worker, requested, rendering, loop, early>>

-----------------------------------------------------------------------------
(* render_loop *)

LoopStarts ==
    /\ ~worker
    /\ worker' = TRUE
    /\ early' = (RequestThreads # {})
    /\ UNCHANGED <<changes, body, fresh, requested, rendering, loop, scrape>>

LoopTakes ==
    /\ worker /\ loop = NoBody /\ requested
    /\ requested' = FALSE
    /\ rendering' = TRUE
    /\ loop' = changes
    /\ UNCHANGED <<changes, body, fresh, worker, scrape, early>>

LoopPublishes ==
    /\ loop # NoBody
    /\ body' = loop
    /\ fresh' = TRUE
    /\ rendering' = FALSE
    /\ loop' = NoBody
    /\ Notify
    /\ UNCHANGED <<changes, worker, requested, early>>

\* Mutant of RenderingAfterFailure: a failed render leaves its flag set.
RenderingStuck == TRUE

RenderingAfterFailure == FALSE

\* The previous body goes on being served.
LoopFails ==
    /\ loop # NoBody
    /\ rendering' = RenderingAfterFailure
    /\ loop' = NoBody
    /\ Notify
    /\ UNCHANGED <<changes, body, fresh, worker, requested, early>>

Init ==
    /\ changes = 1
    /\ body = NoBody /\ fresh = FALSE
    /\ worker = FALSE /\ requested = FALSE /\ rendering = FALSE /\ loop = NoBody
    /\ scrape = [s \in Scrapes |-> [at |-> "new", shows |-> NoBody]]
    /\ early = FALSE

OfScrape(s) ==
    \/ ServeFresh(s) \/ RenderOnRequest(s) \/ RequestRendered(s) \/ RequestFails(s)
    \/ Ask(s) \/ Wake(s) \/ WaitEnds(s) \/ Leave(s)

Next ==
    \/ StoreChanges \/ BodyAges
    \/ \E s \in Scrapes : OfScrape(s)
    \/ LoopStarts \/ LoopTakes \/ LoopPublishes \/ LoopFails

\* The loop's thread runs, and so does a thread that was notified.
Fairness ==
    /\ WF_scrapesVars(LoopTakes)
    /\ WF_scrapesVars(LoopPublishes \/ LoopFails)
    /\ \A s \in Scrapes : WF_scrapesVars(Wake(s))

SafetySpec == Init /\ [][Next]_scrapesVars

Spec == SafetySpec /\ Fairness

-----------------------------------------------------------------------------
(* Correctness *)

\* One render is in memory at a time, and no body shows an older state than
\* the one it replaces; unless a scrape was rendering as the loop started.
OneRenderInOrder == [][early \/ (Renders' <= 1 /\ body' >= body)]_scrapesVars

\* A scrape that waits is woken by a render, never left to its time limit,
\* though renders fail and scrapes arrive at any point of one.
Woken == \A s \in Scrapes : scrape[s].at = "waiting" ~> scrape[s].at # "waiting"

-----------------------------------------------------------------------------
(* The inductive invariant, for the proof of OneRenderInOrder *)

Stages == {"new", "rendering", "waiting", "woken", "served"}

TypeOK ==
    /\ changes \in Nat \ {0} /\ body \in 0 .. changes /\ loop \in 0 .. changes
    /\ fresh \in BOOLEAN /\ worker \in BOOLEAN /\ requested \in BOOLEAN
    /\ rendering \in BOOLEAN /\ early \in BOOLEAN
    /\ scrape \in [Scrapes -> [at : Stages, shows : 0 .. changes]]

\* One request renders at a time; the loop only after it started, and no request then,
\* but for the one that was at it as the loop started.
Alone ==
    /\ \A s, t \in RequestThreads : s = t
    /\ loop # NoBody => worker
    /\ early => worker
    /\ worker /\ RequestThreads # {} => early

\* What is being rendered is no older than what is served.
Newer ==
    early \/ /\ loop # NoBody => loop >= body
             /\ \A s \in RequestThreads : scrape[s].shows >= body

Rendered == TypeOK /\ Alone /\ Newer

=============================================================================
