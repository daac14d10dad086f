------------------------------ MODULE PrCiView ------------------------------
(***************************************************************************)
(* The CI panel of a pull request (otel/trace_exporter.py,                 *)
(* _pr_ci_view_payload and what it reads): the newest run of a lane, then  *)
(* the pages of its GitHub jobs.  Three caches sit between the panel and   *)
(* GitHub: the newest run, every GitHub path by itself, and, for hours,    *)
(* the whole job list of a run attempt that is over.  Meanwhile the run    *)
(* gains jobs, ends, and is run again.                                     *)
(***************************************************************************)
EXTENDS Naturals, Sequences, FiniteSets, FiniteSetsExt

CONSTANTS
    PerPage, MaxJobs,   \* PR_CI_JOBS_PER_PAGE, PR_CI_MAX_JOBS
    PathTtl,            \* RERUN_GITHUB_CACHE_SECONDS
    SourcesTtl,         \* fresh_seconds of _pr_ci_view_sources
    Attempts,           \* attempts of the run
    Sizes,              \* numbers of jobs GitHub lists as the run goes on
    MaxTime, MaxFaults  \* bounds on the exploration

VARIABLES
    clock,
    attempt, total, done,   \* GitHub: the latest attempt, its jobs so far, and that it is over
    doneAt,                 \* history: since when
    seen,                   \* the newest attempt telemetry has named
    paths,                  \* _rerun_github_cache: of the run and of the pages of its jobs
    sources,                \* _swr_cache of the lane's newest run
    kept,                   \* _completed_jobs_cache, per run attempt
    guess,                  \* _job_pages_seen of the lane
    build,                  \* the view being built
    faults

vars == <<clock, attempt, total, done, doneAt, seen, paths, sources, kept, guess, build, faults>>
github == <<attempt, total, done, doneAt, seen>>

Nothing == [at |-> 0, held |-> FALSE]
LastPage == (MaxJobs + PerPage - 1) \div PerPage
PageNumbers == 1..LastPage
Paths == 0..LastPage        \* 0 stands for the run itself
Lower(a, b) == IF a < b THEN a ELSE b
Idle == [step |-> "idle"]
Failed == [failed |-> TRUE]

Init ==
    /\ clock = 1
    /\ attempt = 1 /\ total \in Sizes /\ done = FALSE /\ doneAt = 0 /\ seen = 1
    /\ paths = [p \in Paths |-> Nothing]
    /\ sources = Nothing
    /\ kept = [a \in Attempts |-> Nothing]
    /\ guess = 1
    /\ build = Idle
    /\ faults = 0

(***************************************************************************)
(* GitHub and the telemetry that names its runs.                           *)
(***************************************************************************)
Grow ==
    /\ ~done /\ \E n \in Sizes : n > total /\ total' = n
    /\ UNCHANGED <<clock, attempt, done, doneAt, seen, paths, sources, kept, guess, build, faults>>

Complete ==
    /\ ~done /\ done' = TRUE /\ doneAt' = clock
    /\ UNCHANGED <<clock, attempt, total, seen, paths, sources, kept, guess, build, faults>>

RunAgain ==
    /\ done /\ attempt + 1 \in Attempts
    /\ attempt' = attempt + 1 /\ done' = FALSE /\ doneAt' = 0
    /\ total' \in Sizes
    /\ UNCHANGED <<clock, seen, paths, sources, kept, guess, build, faults>>

Named ==
    /\ seen < attempt /\ seen' = attempt
    /\ UNCHANGED <<clock, attempt, total, done, doneAt, paths, sources, kept, guess, build, faults>>

(* A build of the view ends within a tick. *)
Tick ==
    /\ clock < MaxTime /\ build = Idle /\ clock' = clock + 1
    /\ UNCHANGED <<paths, sources, kept, guess, build, faults>> /\ UNCHANGED github

(***************************************************************************)
(* _rerun_github_api: a path is read again once its answer is PathTtl old. *)
(***************************************************************************)
Hit(p) == paths[p].held /\ clock - paths[p].at < PathTtl

JobsOn(n) == {j \in 1..total : (j - 1) \div PerPage + 1 = n}
Now(p) ==
    IF p = 0
    THEN [at |-> clock, held |-> TRUE, attempt |-> attempt, done |-> done]
    ELSE [at |-> clock, held |-> TRUE, attempt |-> attempt, done |-> done,
          jobs |-> JobsOn(p), total |-> total]
Answer(p) == IF Hit(p) THEN paths[p] ELSE Now(p)
Refilled(asked) == [p \in Paths |-> IF p \in asked THEN Answer(p) ELSE paths[p]]

(* The rerun picker reads the run past the cache, and refills it. *)
ReadFresh ==
    /\ paths' = [paths EXCEPT ![0] = Now(0)] /\ paths' # paths
    /\ UNCHANGED <<clock, sources, kept, guess, build, faults>> /\ UNCHANGED github

(***************************************************************************)
(* _pr_ci_sources: the newest run telemetry names, with the status GitHub  *)
(* gives its run id, whose latest attempt may be another.                  *)
(***************************************************************************)
Sourced(entry) == [run |-> seen, completed |-> entry.done]

Start ==
    /\ build = Idle
    /\ IF sources.held /\ clock - sources.at < SourcesTtl
       THEN /\ build' = [step |-> "first", source |-> sources.source]
            /\ UNCHANGED <<sources, paths, faults>>
       ELSE \/ /\ paths' = Refilled({0})
               /\ sources' = [at |-> clock, held |-> TRUE, source |-> Sourced(Answer(0))]
               /\ build' = [step |-> "first", source |-> Sourced(Answer(0))]
               /\ UNCHANGED faults
            \/ /\ ~Hit(0) /\ faults < MaxFaults /\ faults' = faults + 1
               /\ sources' = [at |-> clock, held |-> TRUE,
                              source |-> [run |-> seen, completed |-> FALSE]]
               /\ build' = [step |-> "first", source |-> [run |-> seen, completed |-> FALSE]]
               /\ UNCHANGED paths
    /\ UNCHANGED <<clock, kept, guess>> /\ UNCHANGED github

(***************************************************************************)
(* _pr_ci_run_jobs.                                                        *)
(***************************************************************************)
FromKept ==
    /\ build # Idle /\ build.step = "first"
    /\ build.source.completed /\ kept[build.source.run].held
    /\ build' = Idle
    /\ UNCHANGED <<clock, paths, sources, kept, guess, faults>> /\ UNCHANGED github

\* A read of pages of which those in bad fail; only what is not cached can.
Reads(asked, bad) ==
    /\ bad \subseteq {p \in asked : ~Hit(p)}
    /\ faults + Cardinality(bad) <= MaxFaults
    /\ faults' = faults + Cardinality(bad)
    /\ paths' = Refilled(asked \ bad)
Result(p, bad) == IF p \in bad THEN Failed ELSE Answer(p)

\* Mutant of PagesOf: the last, partly filled page is not counted.
PagesOfWhole(n) == IF n < PerPage THEN 1 ELSE Lower(LastPage, n \div PerPage)
PagesOf(n) == Lower(LastPage, (n + PerPage - 1) \div PerPage)

First ==
    /\ build # Idle /\ build.step = "first"
    /\ ~(build.source.completed /\ kept[build.source.run].held)
    /\ \E bad \in SUBSET (1..guess) :
          /\ Reads(1..guess, bad)
          /\ IF 1 \in bad
             THEN build' = Idle /\ UNCHANGED guess    \* the note instead of a list
             ELSE /\ guess' = IF PagesOf(Answer(1).total) < 1 THEN 1
                              ELSE PagesOf(Answer(1).total)
                  /\ build' = [step |-> "rest", source |-> build.source, upTo |-> guess,
                               pages |-> [p \in 1..guess |-> Result(p, bad)]]
    /\ UNCHANGED <<clock, sources, kept>> /\ UNCHANGED github

(* The pages that make the list: of those read, the ones page 1 calls for, *)
(* as far as the first that failed.                                        *)
Needed(pages) ==
    IF Cardinality(pages[1].jobs) < PerPage THEN 1 ELSE PagesOf(pages[1].total)
Unbroken(pages) ==
    {p \in 1..Needed(pages) : \A q \in 1..p : pages[q] # Failed}

\* Mutant of Whole: a page that failed does not keep the list from being kept.
WholeWithNotes(pages) == TRUE
Whole(pages) == Unbroken(pages) = 1..Needed(pages)

Rest ==
    /\ build # Idle /\ build.step = "rest"
    /\ LET rest == {p \in PageNumbers : p > build.upTo /\ p <= Needed(build.pages)}
       IN  \E bad \in SUBSET rest :
              /\ Reads(rest, bad)
              /\ LET pages == [p \in (1..build.upTo) \cup rest |->
                                  IF p \in rest THEN Result(p, bad) ELSE build.pages[p]]
                 IN  kept' =
                        IF build.source.completed /\ Whole(pages)
                        THEN [kept EXCEPT ![build.source.run] =
                                [at |-> clock, held |-> TRUE,
                                 jobs |-> UNION {pages[p].jobs : p \in Unbroken(pages)},
                                 oldest |-> FoldSet(Lower, clock,
                                                    {pages[p].at : p \in Unbroken(pages)}),
                                 attempts |-> {pages[p].attempt : p \in Unbroken(pages)},
                                 final |-> \A p \in Unbroken(pages) : pages[p].done]]
                        ELSE kept
    /\ build' = Idle
    /\ UNCHANGED <<clock, sources, guess>> /\ UNCHANGED github

Next ==
    \/ Grow \/ Complete \/ RunAgain \/ Named \/ Tick \/ ReadFresh
    \/ Start \/ FromKept \/ First \/ Rest

Spec == Init /\ [][Next]_vars
-----------------------------------------------------------------------------
(* A job list kept for hours whose pages were all read after the run had   *)
(* ended, and before it was run again, has every job of it: whatever the   *)
(* guess of the number of pages was, whichever pages failed or came out of *)
(* the cache (otel/trace_exporter.py, _pr_ci_run_jobs).                    *)
KeptListsWhole ==
    \A a \in Attempts :
        kept[a].held /\ kept[a].attempts = {attempt} /\ done /\ kept[a].oldest > doneAt
            => 1..Lower(total, MaxJobs) \subseteq kept[a].jobs

(* "A finished attempt's job list never changes, so it is kept far longer  *)
(* than the 30s GitHub cache": a list that is kept was read when the       *)
(* attempt was finished.                                                   *)
KeptListsFinal == \A a \in Attempts : kept[a].held => kept[a].final
=============================================================================
