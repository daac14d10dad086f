------------------------------ MODULE MicPage ------------------------------
(***************************************************************************)
(* The Mergeability-in-CI page (otel/mic_page.py, and the MIC rows         *)
(* otel/trace_exporter.py keeps for it): which failing cases are sticky,   *)
(* that is, not cleared by a later check of the same case.  The rows of a  *)
(* run reach the store while the page is built from Prometheus, the store  *)
(* and, for what the store lacks, from traces.  A run is named by its      *)
(* start, all starts differ; every run is within the days asked for.       *)
(***************************************************************************)
EXTENDS Naturals, FiniteSets

CONSTANTS
    Runs,           \* start times of the MIC jobs
    PrOf,           \* the pull request, or branch, of each
    Checks,         \* checks of a job; "setup" stands for a job that ran none
    Branches,       \* values of PrOf that are no pull requests
    Older           \* jobs whose runner may be an older one

VARIABLES
    outcome,        \* GitHub: [emits, of] of each run; of gives each item's status
    closed,         \* GitHub: pull requests that are closed
    arrived,        \* Tempo: items of each run whose spans are there
    main, mic,      \* run store and its mic/ directory: detail of each item
    published,      \* Prometheus: "no", "failures" or "totals" of each run
    misses,         \* _mic_trace_misses: runs whose trace had no details
    pc, index, totals, loaded,  \* a build of the page
    page            \* the cases of the last page, each [run, status]

vars == <<outcome, closed, arrived, main, mic, published, misses,
          pc, index, totals, loaded, page>>
storeVars == <<main, mic>>
buildVars == <<pc, index, totals, loaded>>

Items == Checks \union {"setup"}

\* Runs are told apart by when they started.
StartsAssumption == Runs \subseteq Nat \ {0} /\ IsFiniteSet(Runs) /\ "setup" \notin Checks

Keys == Items \X {PrOf[r] : r \in Runs}
KeyOf(r, i) == <<i, PrOf[r]>>
Nothing == [i \in Items |-> "none"]

-----------------------------------------------------------------------------
(* Jobs, their traces and their rows *)

\* What a job may come to: every check a status, or a failed setup and no check.
Outcomes ==
    {[i \in Items |-> IF i = "setup" THEN "absent" ELSE s[i]] :
        s \in [Checks -> {"pass", "fail"}]}
    \union {[i \in Items |-> IF i = "setup" THEN "fail" ELSE "absent"]}
NotRun == [emits |-> FALSE, of |-> [i \in Items |-> "absent"]]

Present(r) == {i \in Items : outcome[r].of[i] # "absent"}
Fails(r) == {i \in Items : outcome[r].of[i] = "fail"}

\* An older runner does not say what the page wants to know of a check.
JobRuns(r) ==
    /\ outcome[r] = NotRun
    /\ \E emits \in {TRUE} \union {r \notin Older} : \E of \in Outcomes :
          outcome' = [outcome EXCEPT ![r] = [emits |-> emits, of |-> of]]
    /\ UNCHANGED <<closed, arrived, storeVars, published, misses, buildVars, page>>

SpanArrives(r, i) ==
    /\ i \in Present(r) \ arrived[r]
    /\ arrived' = [arrived EXCEPT ![r] = @ \union {i}]
    /\ UNCHANGED <<outcome, closed, storeVars, published, misses, buildVars, page>>

PrCloses(p) ==
    /\ p \notin closed \union Branches
    /\ closed' = closed \union {p}
    /\ UNCHANGED <<outcome, arrived, storeVars, published, misses, buildVars, page>>

\* Mutant of WithDetail: the row replaces the one on file.
WithDetailOfRow(old, row) == IF row = "none" THEN old ELSE row

\* A merged row keeps every field the new one does not have.
WithDetail(old, row) ==
    IF "full" \in {old, row} THEN "full" ELSE IF row = "none" THEN old ELSE row

PersistedMic(rows, r) == [mic EXCEPT ![r] = [i \in Items |-> WithDetail(@[i], rows[i])]]

\* A render persists what it has of a run; a row an older exporter shaped has no
\* MIC fields, whatever its span says.
PersistRows(r) ==
    \E shaped \in {"bare"} \union IF outcome[r].emits THEN {"full"} ELSE {} :
        LET rows == [i \in Items |-> IF i \in arrived[r] THEN shaped ELSE main[r][i]] IN
        /\ arrived[r] # {}
        /\ main' = [main EXCEPT ![r] = rows]
        /\ IF rows # main[r] \/ mic[r] = Nothing
           THEN mic' = PersistedMic(rows, r) ELSE UNCHANGED mic
        /\ UNCHANGED <<outcome, closed, arrived, published, misses, buildVars, page>>

\* Failures are published as they are read, a job's total once it is over; its rows
\* may not be on file by then, or never.
Publish(r) ==
    /\ arrived[r] # {}
    /\ \/ published[r] = "no"
          /\ published' = [published EXCEPT ![r] = "failures"]
       \/ published[r] = "failures" /\ arrived[r] = Present(r)
          /\ published' = [published EXCEPT ![r] = "totals"]
    /\ UNCHANGED <<outcome, closed, arrived, storeVars, misses, buildVars, page>>

\* MIC_TRACE_MISS_TTL_SECONDS have passed.
MissExpires(r) ==
    /\ r \in misses
    /\ misses' = misses \ {r}
    /\ UNCHANGED <<outcome, closed, arrived, storeVars, published, buildVars, page>>

-----------------------------------------------------------------------------
(* build_rows *)

\* closed_prs: without an answer about its state a pull request is kept.
Kept(known) == {r \in Runs : ~(known /\ PrOf[r] \in closed)}

\* failure_index, and run_totals.
FailureIndex == {f \in Runs \X Items :
                    published[f[1]] # "no" /\ f[2] \in Fails(f[1]) \intersect arrived[f[1]]}
RunTotals == {r \in Runs : published[r] = "totals"}

Query(known) ==
    /\ pc = "idle"
    /\ index' = {f \in FailureIndex : f[1] \in Kept(known)}
    /\ totals' = RunTotals
    /\ pc' = "load"
    /\ UNCHANGED <<outcome, closed, arrived, storeVars, published, misses, loaded, page>>

LoadRows ==
    /\ pc = "load"
    /\ loaded' = [r \in Runs |-> IF r \in totals \/ \E i \in Items : <<r, i>> \in index
                                 THEN mic[r] ELSE Nothing]
    /\ pc' = "recover"
    /\ UNCHANGED <<outcome, closed, arrived, storeVars, published, misses, index, totals, page>>

\* Traces of the failures whose details the store lacks: those Tempo answers about
\* are read, and kept; one without details is not read again for a while.
Missing == {r \in Runs : \E i \in Items : <<r, i>> \in index /\ loaded[r][i] # "full"}
Recover(answered) ==
    LET rows == [r \in Runs |-> [i \in Items |->
            IF r \notin answered \/ i \notin arrived[r] THEN "none"
            ELSE IF outcome[r].emits THEN "full" ELSE "bare"]] IN
    /\ pc = "recover"
    /\ answered \subseteq Missing \ misses
    /\ loaded' = [r \in Runs |-> [i \in Items |->
            IF rows[r][i] = "none" THEN loaded[r][i] ELSE rows[r][i]]]
    /\ mic' = [r \in Runs |-> [i \in Items |-> WithDetail(mic[r][i], rows[r][i])]]
    /\ misses' = misses \union {r \in answered : ~outcome[r].emits}
    /\ pc' = "show"
    /\ UNCHANGED <<outcome, closed, arrived, main, published, index, totals, page>>

Known(r, i) == loaded[r][i] = "full"
Listed == {KeyOf(f[1], f[2]) : f \in index}

\* Mutant of Whole: the recorded checks pass, whether or not there are others.
WholeOfRecorded(r) ==
    /\ r \in totals
    /\ \A i \in Items : loaded[r][i] # "none" => Known(r, i) /\ outcome[r].of[i] = "pass"

\* Every check of the job is recorded, and none fails.
Whole(r) ==
    /\ r \in totals
    /\ {i \in Items : loaded[r][i] # "none"} = Present(r)
    /\ \A i \in Present(r) : Known(r, i) /\ outcome[r].of[i] = "pass"

\* What the records of a run say of a case: its check, or for a failed setup that a
\* job of the pull request went well as a whole.
Says(r, k) ==
    IF k[2] # PrOf[r] THEN "nothing"
    ELSE IF Known(r, k[1]) THEN outcome[r].of[k[1]]
    ELSE IF k[1] = "setup" /\ k \in Listed /\ Whole(r) THEN "pass" ELSE "nothing"

\* Mutant of Newer: the records are taken in the order they come.
NewerAny(r, latest) == TRUE
Newer(r, latest) == r > latest.run

\* note
Noted(latest, r) ==
    [k \in Keys |-> IF Says(r, k) # "nothing" /\ Newer(r, latest[k])
                    THEN [run |-> r, status |-> Says(r, k)] ELSE latest[k]]

\* The newest failure of each listed case, the newest row of its group.
FirstRows ==
    [k \in Keys |->
        LET failed == {r \in Runs : <<r, k[1]>> \in index /\ PrOf[r] = k[2]} IN
        IF failed = {} THEN [run |-> 0, status |-> "none"]
        ELSE [run |-> CHOOSE r \in failed : \A q \in failed : q <= r, status |-> "fail"]]

\* add_history: runs are met in no particular order.
Orders == {order \in [1 .. Cardinality(Runs) -> Runs] : \A r \in Runs : \E n \in DOMAIN order : order[n] = r}
Latest(order) ==
    LET met[n \in 0 .. Cardinality(Runs)] ==
            IF n = 0 THEN FirstRows ELSE Noted(met[n - 1], order[n])
    IN  met[Cardinality(Runs)]

Show(order) ==
    /\ pc = "show"
    /\ page' = [k \in Listed |-> Latest(order)[k]]
    /\ pc' = "idle"
    /\ index' = {} /\ totals' = {} /\ loaded' = [r \in Runs |-> Nothing]
    /\ UNCHANGED <<outcome, closed, arrived, storeVars, published, misses>>

Init ==
    /\ outcome = [r \in Runs |-> NotRun]
    /\ closed = {}
    /\ arrived = [r \in Runs |-> {}]
    /\ main = [r \in Runs |-> Nothing] /\ mic = [r \in Runs |-> Nothing]
    /\ published = [r \in Runs |-> "no"]
    /\ misses = {}
    /\ pc = "idle" /\ index = {} /\ totals = {} /\ loaded = [r \in Runs |-> Nothing]
    /\ page = [k \in {} |-> <<>>]

Next ==
    \/ \E r \in Runs : JobRuns(r) \/ PersistRows(r) \/ Publish(r) \/ MissExpires(r)
    \/ \E r \in Runs : \E i \in Items : SpanArrives(r, i)
    \/ \E r \in Runs : PrCloses(PrOf[r])
    \/ \E known \in BOOLEAN : Query(known)
    \/ LoadRows
    \/ \E answered \in SUBSET Runs : Recover(answered)
    \/ \E order \in Orders : Show(order)

Spec == Init /\ [][Next]_vars

-----------------------------------------------------------------------------
(* Correctness *)

\* A case the page does not call sticky has passed, after every failure of it the
\* page knows: its check, or for a failed setup every check of a later job
\* (mic_page.py: "never from totals alone").
ClearedByPass ==
    \A k \in DOMAIN page :
        page[k].status = "pass" =>
            /\ PrOf[page[k].run] = k[2]
            /\ \A i \in IF k[1] = "setup" THEN Checks ELSE {k[1]} :
                  outcome[page[k].run].of[i] = "pass"

\* A sticky case has no later pass among the records the page is built from: which
\* run is met first does not matter.
StickyUntilPassed ==
    [][\A k \in DOMAIN page' :
          pc = "show" /\ pc' = "idle" /\ page'[k].status = "fail" =>
              \A r \in Runs :
                  PrOf[r] = k[2] /\ Known(r, k[1]) /\ outcome[r].of[k[1]] = "pass" =>
                      r < page'[k].run]_vars

\* Once shown as cleared a case is sticky again only for a newer failure: what was
\* recovered from a trace is not lost to the rows stored after it.
ClearedForGood ==
    [][\A k \in DOMAIN page \intersect DOMAIN page' :
          page[k].status = "pass" /\ page'[k].status = "fail" =>
              page'[k].run > page[k].run]_vars

-----------------------------------------------------------------------------
(* What these rest on *)

Details == [Runs -> [Items -> {"none", "bare", "full"}]]

TypeOK ==
    /\ outcome \in [Runs -> [emits : BOOLEAN, of : Outcomes \union {NotRun.of}]]
    /\ arrived \in [Runs -> SUBSET Items]
    /\ main \in Details /\ mic \in Details /\ loaded \in Details
    /\ published \in [Runs -> {"no", "failures", "totals"}]
    /\ index \subseteq Runs \X Items /\ totals \subseteq Runs
    /\ pc \in {"idle", "load", "recover", "show"}

\* A row on file is of a span that arrived, whole only if its job said so.
RowTrue(rows, r, i) ==
    /\ rows[r][i] # "none" => i \in arrived[r]
    /\ rows[r][i] = "full" => outcome[r].emits

RecordsTrue ==
    \A r \in Runs :
        /\ arrived[r] \subseteq Present(r)
        /\ published[r] # "no" => arrived[r] # {}
        /\ \A i \in Items : RowTrue(main, r, i) /\ RowTrue(mic, r, i) /\ RowTrue(loaded, r, i)
        /\ \A i \in Items : loaded[r][i] = "full" => mic[r][i] = "full"

\* What a build has found is published, and it has the rows of no other runs.
FoundTrue ==
    /\ index \subseteq FailureIndex /\ totals \subseteq RunTotals
    /\ pc \in {"idle", "load"} => \A r \in Runs : loaded[r] = Nothing
    /\ \A r \in Runs : loaded[r] # Nothing => r \in totals \/ \E i \in Items : <<r, i>> \in index

\* The checks whose records clear a case.
Clearing(k) == IF k[1] = "setup" THEN Present(page[k].run) ELSE {k[1]}

\* What cleared a case is on file, whole, and found by every later query.
ClearedOnFile(k) ==
    LET r == page[k].run IN
    /\ k[1] \in Items /\ r \in Runs /\ PrOf[r] = k[2]
    /\ \A i \in Clearing(k) : outcome[r].of[i] = "pass" /\ mic[r][i] = "full"
    /\ published[r] = "totals" \/ (k[1] # "setup" /\ \E i \in Items : <<r, i>> \in FailureIndex)

\* And every build under way that lists the case has it.
ClearedFound(k) ==
    LET r == page[k].run IN
    k \in Listed =>
        /\ pc = "load" => r \in totals \/ (k[1] # "setup" /\ \E i \in Items : <<r, i>> \in index)
        /\ pc \in {"recover", "show"} =>
              (k[1] = "setup" => r \in totals) /\ \A i \in Clearing(k) : loaded[r][i] = "full"

Recorded ==
    /\ TypeOK /\ RecordsTrue /\ FoundTrue
    /\ \A k \in DOMAIN page : page[k].status = "pass" => ClearedOnFile(k) /\ ClearedFound(k)
=============================================================================
