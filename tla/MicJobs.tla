------------------------------- MODULE MicJobs -------------------------------
(***************************************************************************)
(* Remote MIC jobs (src/src/transformersci/otel/mic_jobs.py).  A person    *)
(* posts a request and one workflow run is dispatched for it; who asks for *)
(* the job makes the server read its run from GitHub; the run itself posts *)
(* its progress.  Every request is handled on a thread of its own, and all *)
(* of them write the job's one record, read before calls that take seconds.*)
(***************************************************************************)
EXTENDS Naturals, FiniteSets, TLAPS

CONSTANTS
    Jobs,           \* the requests people make, one job each
    Actors,         \* who makes them
    ActorOf,        \* whose request each is
    Handlers,       \* threads of the HTTP server
    Profiles,       \* what a run collects, each with its own progress
    Hourly,         \* jobs one actor may create in an hour
    Slots,          \* unfinished jobs allowed at a time
    MaxProgress     \* how often a run reports a profile's progress

ASSUME ActorAssumption == ActorOf \in [Jobs -> Actors]
ASSUME LimitAssumption == Hourly \in Nat \ {0} /\ Slots \in Nat \ {0}
ASSUME BoundsAssumption == MaxProgress \in Nat

VARIABLES
    record,         \* table mic_jobs
    age,            \* time since each job's creation
    run,            \* GitHub: the job's workflow run
    artifacts,      \* GitHub: every artifact the job needs is there
    dispatches,     \* GitHub: how many runs were dispatched for each job
    handler         \* what each thread is at, with the record it read

githubVars == <<run, artifacts, dispatches>>
vars == <<record, age, githubVars, handler>>

-----------------------------------------------------------------------------
(* Records *)

Terminal == {"completed", "failed", "cancelled", "unknown"}
Active == {"dispatching", "dispatch-uncertain", "queued", "running"}

NoProgress == [p \in Profiles |-> 0]
NoJob == [status |-> "none"]
NewJob == [status |-> "dispatching", run |-> FALSE,
           waiting |-> FALSE, progress |-> NoProgress]

\* Mutant of OnFile: a request whose dispatch is uncertain is dispatched again.
OnFileCertain(j) == record[j].status \notin {"none", "dispatch-uncertain"}

OnFile(j) == record[j] # NoJob

\* Ten minutes, an hour and eight hours are what the code tells apart.
Level == [new |-> 0, late |-> 1, hour |-> 2, overdue |-> 3]
NextAge == [new |-> "late", late |-> "hour", hour |-> "overdue"]
Older(j, a) == Level[age[j]] >= Level[a]

Recent(actor) == {j \in Jobs : OnFile(j) /\ ActorOf[j] = actor /\ ~Older(j, "hour")}
Unfinished == {j \in Jobs : record[j].status \in Active /\ ~Older(j, "overdue")}
MayCreate(j) ==
    /\ Cardinality(Recent(ActorOf[j])) < Hourly
    /\ Cardinality(Unfinished) < Slots

\* Mutant of MergedProgress: the progress this thread read is the one to keep.
MergedProgressOwn(rec, old) == rec.progress

\* Progress on file is never older than the progress a thread read.
MergedProgress(rec, old) ==
    [p \in Profiles |-> IF old.progress[p] # 0 THEN old.progress[p] ELSE rec.progress[p]]

\* save: what callbacks write is kept, the rest is this thread's.
Saved(rec, old) ==
    [rec EXCEPT !.run = @ \/ old.run,
                !.progress = MergedProgress(rec, old)]

-----------------------------------------------------------------------------
(* Requests *)

Resting == [at |-> "idle"]
At(h, step) == handler[h].at = step
Begin(h, work) == At(h, "idle") /\ handler' = [handler EXCEPT ![h] = work]
Work(h, work) == handler' = [handler EXCEPT ![h] = work]
Goto(h, step, rec) == Work(h, [at |-> step, job |-> handler[h].job, rec |-> rec])
\* Answered, or refused, or the call it waited for raised.
Reply(h) == Work(h, Resting)
Save(h, rec) == record' = [record EXCEPT ![handler[h].job] = Saved(rec, @)]

(* submit *)

\* create holds the store's lock throughout: one step, that GitHub may fail.
Create(h, j) ==
    /\ ~OnFile(j)
    /\ MayCreate(j)
    /\ Begin(h, [at |-> "dispatch", job |-> j, rec |-> NewJob])
    /\ record' = [record EXCEPT ![j] = NewJob]
    /\ UNCHANGED githubVars

\* The request reaches GitHub or not, and the answer arrives or does not.
Dispatch(h) ==
    LET j == handler[h].job IN
    /\ At(h, "dispatch")
    /\ \E arrives \in BOOLEAN, status \in {"queued", "dispatch-uncertain"} :
          /\ status = "queued" => arrives
          /\ Goto(h, "save", [handler[h].rec EXCEPT !.status = status])
          /\ IF arrives
             THEN /\ run' = [run EXCEPT ![j] = IF @ = "none" THEN "queued" ELSE @]
                  /\ dispatches' = [dispatches EXCEPT ![j] = IF @ < 2 THEN @ + 1 ELSE @]
             ELSE UNCHANGED <<run, dispatches>>
    /\ UNCHANGED <<record, artifacts>>

SaveAndReply(h) ==
    /\ At(h, "save")
    /\ Save(h, handler[h].rec)
    /\ Reply(h)
    /\ UNCHANGED githubVars

(* refresh *)

Get(h, j) ==
    /\ record[j].status \in Active
    /\ Begin(h, [at |-> IF record[j].run THEN "run" ELSE "list", job |-> j, rec |-> record[j]])
    /\ UNCHANGED <<record, githubVars>>

\* The listing may lag, or have a hundred newer runs.
ListRuns(h) ==
    LET j == handler[h].job
        rec == handler[h].rec IN
    /\ At(h, "list")
    /\ \/ run[j] # "none" /\ Goto(h, "run", [rec EXCEPT !.run = TRUE])
       \/ IF Older(j, "late") THEN Goto(h, "finish", [rec EXCEPT !.status = "unknown"])
          ELSE Goto(h, "finish", rec)
    /\ UNCHANGED <<record, githubVars>>

\* Mutant of Ending: GitHub's conclusion is the status.
EndingUnmapped == [failure |-> "failure", cancelled |-> "cancelled"]

Ending == [failure |-> "failed", cancelled |-> "cancelled"]

\* What the run's jobs are at is read next, and changes nothing modelled.
ReadRun(h) ==
    LET now == run[handler[h].job]
        rec == handler[h].rec IN
    /\ At(h, "run")
    /\ \/ now = "success" /\ Goto(h, "artifacts", rec)
       \/ now \in {"queued", "running"} /\ Goto(h, "finish", [rec EXCEPT !.status = now])
       \/ now \in DOMAIN Ending /\ Goto(h, "finish", [rec EXCEPT !.status = Ending[now]])
    /\ UNCHANGED <<record, githubVars>>

\* Mutant of Complete: a run that succeeded is all a job needs.
CompleteIfSuccess(j) == run[j] = "success"

Complete(j) == artifacts[j]

\* Artifacts are waited for three minutes from the first reading without them.
ReadArtifacts(h) ==
    LET j == handler[h].job
        rec == handler[h].rec IN
    /\ At(h, "artifacts")
    /\ IF Complete(j) THEN Goto(h, "finish", [rec EXCEPT !.status = "completed"])
       ELSE \/ Goto(h, "finish", [rec EXCEPT !.waiting = TRUE])
            \/ rec.waiting /\ Goto(h, "finish", [rec EXCEPT !.status = "failed"])
    /\ UNCHANGED <<record, githubVars>>

\* Mutant of Overdue: nothing is given up that has a run.
OverdueWithout(j, rec) == Older(j, "overdue") /\ ~rec.run

Overdue(j, rec) == Older(j, "overdue")

Finish(h) ==
    LET j == handler[h].job
        rec == handler[h].rec IN
    /\ At(h, "finish")
    /\ Save(h, IF rec.status \in Active /\ Overdue(j, rec)
               THEN [rec EXCEPT !.status = "unknown"] ELSE rec)
    /\ Reply(h)
    /\ UNCHANGED githubVars

(* progress *)

Newer(n, old) == n > old

\* A report of a run that has begun may be late, repeated, overtaken or lost.
\* Once GitHub has confirmed that the run is the job's the record is read again,
\* under the lock it is written under: one step.
Progress(j, p, n) ==
    /\ OnFile(j)
    /\ run[j] \notin {"none", "queued"}
    /\ Newer(n, record[j].progress[p])
    /\ record' = [record EXCEPT ![j].run = TRUE, ![j].progress[p] = n]
    /\ UNCHANGED <<githubVars, handler>>

\* A call raises, or the process dies and is started again: only the record
\* on file is left.  All threads stop at once, or one after another.
Stops(h) ==
    /\ ~At(h, "idle")
    /\ Reply(h)
    /\ UNCHANGED <<record, githubVars>>

GetOn(h) ==
    \/ Dispatch(h) \/ SaveAndReply(h) \/ ListRuns(h) \/ ReadRun(h)
    \/ ReadArtifacts(h) \/ Finish(h) \/ Stops(h)

Handling ==
    /\ \/ \E h \in Handlers : GetOn(h) \/ \E j \in Jobs : Create(h, j) \/ Get(h, j)
       \/ \E j \in Jobs, p \in Profiles, n \in 1..MaxProgress : Progress(j, p, n)
    /\ UNCHANGED age

-----------------------------------------------------------------------------
(* GitHub, time *)

RunSteps == [queued |-> {"running", "cancelled"},
             running |-> {"success", "failure", "cancelled"}]

RunMoves(j) ==
    /\ run[j] \in DOMAIN RunSteps
    /\ \E s \in RunSteps[run[j]] : run' = [run EXCEPT ![j] = s]
    /\ UNCHANGED artifacts

\* The listing may show them some time after the run; nobody reads it before.
Uploaded(j) ==
    /\ run[j] = "success"
    /\ ~artifacts[j]
    /\ artifacts' = [artifacts EXCEPT ![j] = TRUE]
    /\ UNCHANGED run

GitHub ==
    /\ \E j \in Jobs : RunMoves(j) \/ Uploaded(j)
    /\ UNCHANGED <<record, age, dispatches, handler>>

Age(j) ==
    /\ OnFile(j)
    /\ age[j] \in DOMAIN NextAge
    /\ age' = [age EXCEPT ![j] = NextAge[@]]

Time ==
    /\ \E j \in Jobs : Age(j)
    /\ UNCHANGED <<record, githubVars, handler>>

Init ==
    /\ record = [j \in Jobs |-> NoJob]
    /\ age = [j \in Jobs |-> "new"]
    /\ run = [j \in Jobs |-> "none"]
    /\ artifacts = [j \in Jobs |-> FALSE]
    /\ dispatches = [j \in Jobs |-> 0]
    /\ handler = [h \in Handlers |-> Resting]

Next == Handling \/ GitHub \/ Time

Spec == Init /\ [][Next]_vars

\* Of the readings of a job made again and again one is answered, and gets to
\* its end.  Time passes.  Nobody has to ask, and no thread is sure to go on.
ReadStep(h) == ListRuns(h) \/ ReadRun(h) \/ ReadArtifacts(h) \/ Finish(h)
FairSpec ==
    /\ Spec
    /\ \A j \in Jobs :
          /\ WF_vars(Age(j) /\ Time)
          /\ \A step \in {"list", "run", "artifacts", "finish"} :
                SF_vars((\E h \in Handlers : At(h, step) /\ handler[h].job = j /\ ReadStep(h))
                        /\ Handling)

-----------------------------------------------------------------------------
(* Correctness *)

Records ==
    [status : Active \union Terminal, run : BOOLEAN, waiting : BOOLEAN,
     progress : [Profiles -> 0..MaxProgress]]
Steps == {"dispatch", "save", "list", "run", "artifacts", "finish"}

\* Every variable holds a value of its kind, and a thread at work a record, of
\* a job on file.
TypeOK ==
    /\ record \in [Jobs -> Records \union {NoJob}]
    /\ age \in [Jobs -> DOMAIN Level]
    /\ run \in [Jobs -> {"none", "queued", "running", "success", "failure", "cancelled"}]
    /\ artifacts \in [Jobs -> BOOLEAN]
    /\ dispatches \in [Jobs -> 0..2]
    /\ handler \in [Handlers -> {Resting} \union [at : Steps, job : Jobs, rec : Records]]
    /\ \A h \in Handlers : ~At(h, "idle") => OnFile(handler[h].job)

\* submit: "A retry never creates another run", whoever retries when, whatever
\* was lost and whatever died.
AtMostOneDispatch == \A j \in Jobs : dispatches[j] <= 1

\* A job is never said to have ended otherwise than its run did, nor to be
\* complete without what it was run for.
Borne(j, status) ==
    /\ status = "completed" => run[j] = "success" /\ artifacts[j]
    /\ status = "cancelled" => run[j] = "cancelled"
    /\ status = "failed" => run[j] \in {"success", "failure"}
OutcomeTrue == \A j \in Jobs : Borne(j, record[j].status)

\* Why they hold: a request is dispatched by the one thread that put it on
\* file, while nothing else is known of it, and what a thread is going to write
\* is borne out by the run it read, which does not end twice.
DispatchedOnce ==
    /\ \A j \in Jobs : ~OnFile(j) => dispatches[j] = 0 /\ run[j] = "none"
    /\ \A h \in Handlers : At(h, "dispatch") =>
          /\ dispatches[handler[h].job] = 0
          /\ \A k \in Handlers :
                At(k, "dispatch") /\ handler[k].job = handler[h].job => k = h
Held(work) ==
    /\ Borne(work.job, work.rec.status)
    /\ work.at = "artifacts" => run[work.job] = "success"
    /\ work.at \in {"run", "artifacts"} => work.rec.run
    /\ work.rec.run => run[work.job] # "none"
HeldTrue == \A h \in Handlers : ~At(h, "idle") => Held(handler[h])
RecordTrue == \A j \in Jobs : OnFile(j) /\ record[j].run => run[j] # "none"

\* Progress, and what is known of the run, survive every write by a thread that
\* read the record before: nothing goes back, nothing is forgotten.
NothingForgotten ==
    [][\A j \in Jobs : OnFile(j) =>
          /\ record[j].run => record'[j].run
          /\ \A p \in Profiles : record'[j].progress[p] >= record[j].progress[p]]_vars

\* A job asked about for ever is in the end terminal for good, though a thread
\* that read its run earlier may write after one that found it ended.
AskedAbout(j) == \E h \in Handlers : handler[h].at \in {"list", "run"} /\ handler[h].job = j
Settles ==
    \A j \in Jobs :
        []<>(record[j].status \in Terminal \/ AskedAbout(j)) => <>[](record[j].status \in Terminal)

\* A terminal job stays as it is; no more jobs are unfinished than there are
\* slots.
TerminalStays ==
    [][\A j \in Jobs : record[j].status \in Terminal =>
          record'[j].status = record[j].status]_vars
SlotsKept == Cardinality(Unfinished) <= Slots

-----------------------------------------------------------------------------
(* The instance that is model-checked: one person makes every request.        *)
OfOne == [j \in Jobs |-> CHOOSE a \in Actors : TRUE]

-----------------------------------------------------------------------------
(* Proofs, for any jobs, people, threads and limits.  First, types.           *)

\* A record, written by save or by a progress report, is a record.
LEMMA SavedType ==
    ASSUME NEW rec \in Records, NEW old \in Records
    PROVE  Saved(rec, old) \in Records
<1>1. MergedProgress(rec, old) \in [Profiles -> 0..MaxProgress]
    BY DEF MergedProgress, Records
<1>2. QED
    BY <1>1 DEF Saved, Records

LEMMA NewJobType == NewJob \in Records
<1>1. NoProgress \in [Profiles -> 0..MaxProgress]
    BY BoundsAssumption DEF NoProgress
<1>2. QED
    BY <1>1 DEF NewJob, Records, Active

\* What is on file is a record, and a record is not the absence of one.
LEMMA FileType ==
    ASSUME TypeOK, NEW j \in Jobs
    PROVE  /\ OnFile(j) => record[j] \in Records
           /\ record[j] \in Records => OnFile(j)
<1>1. \A rec \in Records : rec.status # "none"
    BY DEF Records, Active, Terminal
<1>2. QED
    BY <1>1 DEF TypeOK, OnFile, NoJob

LEMMA TypeInit == Init => TypeOK
<1> SUFFICES ASSUME Init
             PROVE  TypeOK
    OBVIOUS
<1>1. record \in [Jobs -> Records \union {NoJob}] /\ age \in [Jobs -> DOMAIN Level]
    BY DEF Init, Level
<1>2. /\ run \in [Jobs -> {"none", "queued", "running", "success", "failure", "cancelled"}]
      /\ artifacts \in [Jobs -> BOOLEAN]
      /\ dispatches \in [Jobs -> 0..2]
    BY DEF Init
<1>3. /\ handler \in [Handlers -> {Resting} \union [at : Steps, job : Jobs, rec : Records]]
      /\ \A h \in Handlers : At(h, "idle")
    BY DEF Init, Resting, At
<1>4. QED
    BY <1>1, <1>2, <1>3 DEF TypeOK

\* A thread that is not resting holds a step, a job on file and a record.
LEMMA WorkType ==
    ASSUME TypeOK, NEW h \in Handlers, ~At(h, "idle")
    PROVE  /\ handler[h] \in [at : Steps, job : Jobs, rec : Records]
           /\ handler[h].job \in Jobs
           /\ handler[h].rec \in Records
           /\ record[handler[h].job] \in Records
<1>1. handler[h] \in [at : Steps, job : Jobs, rec : Records]
    BY DEF TypeOK, At, Resting
<1>2. QED
    BY <1>1, FileType DEF TypeOK

\* The part of TypeOK about threads.
Threads ==
    /\ handler \in [Handlers -> {Resting} \union [at : Steps, job : Jobs, rec : Records]]
    /\ \A h \in Handlers : ~At(h, "idle") => OnFile(handler[h].job)

\* A thread goes on with a job on file, while no job is taken off it.
LEMMA WorkKept ==
    ASSUME TypeOK,
           NEW h \in Handlers, NEW step \in Steps, NEW j \in Jobs, NEW rec \in Records,
           Work(h, [at |-> step, job |-> j, rec |-> rec]),
           OnFile(j)', \A k \in Jobs : OnFile(k) => OnFile(k)'
    PROVE  Threads'
<1>1. handler' \in [Handlers -> {Resting} \union [at : Steps, job : Jobs, rec : Records]]
    BY DEF TypeOK, Work
<1>2. ASSUME NEW k \in Handlers, ~At(k, "idle")'
      PROVE  OnFile(handler[k].job)'
    <2>1. CASE k = h
        BY <2>1 DEF TypeOK, Work
    <2>2. CASE k # h
        <3>1. handler'[k] = handler[k]
            BY <2>2 DEF TypeOK, Work
        <3>2. ~At(k, "idle")
            BY <1>2, <3>1 DEF At
        <3>3. handler[k].job \in Jobs /\ OnFile(handler[k].job)
            BY <3>2, WorkType DEF TypeOK
        <3>4. QED
            BY <3>1, <3>3
    <2>3. QED
        BY <2>1, <2>2
<1>3. QED
    BY <1>1, <1>2 DEF Threads

\* A thread rests, while no job is taken off file.
LEMMA ReplyKept ==
    ASSUME TypeOK, NEW h \in Handlers, Reply(h), \A k \in Jobs : OnFile(k) => OnFile(k)'
    PROVE  Threads'
<1>1. handler' \in [Handlers -> {Resting} \union [at : Steps, job : Jobs, rec : Records]]
    BY DEF TypeOK, Reply, Work
<1>2. ASSUME NEW k \in Handlers, ~At(k, "idle")'
      PROVE  OnFile(handler[k].job)'
    <2>1. k # h
        BY <1>2 DEF TypeOK, Reply, Work, At, Resting
    <2>2. handler'[k] = handler[k]
        BY <2>1 DEF TypeOK, Reply, Work
    <2>3. ~At(k, "idle")
        BY <1>2, <2>2 DEF At
    <2>4. handler[k].job \in Jobs /\ OnFile(handler[k].job)
        BY <2>3, WorkType DEF TypeOK
    <2>5. QED
        BY <2>2, <2>4
<1>3. QED
    BY <1>1, <1>2 DEF Threads

\* Saving what a thread holds leaves records on file.
LEMMA SaveKept ==
    ASSUME TypeOK, NEW h \in Handlers, ~At(h, "idle"), NEW rec \in Records, Save(h, rec)
    PROVE  /\ record' \in [Jobs -> Records \union {NoJob}]
           /\ \A k \in Jobs : OnFile(k) => OnFile(k)'
<1> DEFINE j == handler[h].job
<1>1. j \in Jobs /\ Saved(rec, record[j]) \in Records
    BY WorkType, SavedType
<1>2. record' = [record EXCEPT ![j] = Saved(rec, record[j])]
    BY DEF Save
<1>3. record' \in [Jobs -> Records \union {NoJob}]
    <2> HIDE DEF j
    <2>1. QED
        BY <1>1, <1>2 DEF TypeOK
<1>4. \A r \in Records : r # NoJob
    BY DEF Records, NoJob, Active, Terminal
<1>5. ASSUME NEW k \in Jobs, OnFile(k) PROVE OnFile(k)'
    <2> HIDE DEF j
    <2>1. QED
        BY <1>1, <1>2, <1>4, <1>5 DEF TypeOK, OnFile
<1>6. QED
    BY <1>3, <1>5

\* Reading GitHub, a thread goes on with a record.
LEMMA ReadKept ==
    ASSUME TypeOK, NEW h \in Handlers, ReadStep(h), ~At(h, "finish")
    PROVE  Threads' /\ UNCHANGED <<record, githubVars>>
<1> DEFINE j == handler[h].job
           rec == handler[h].rec
<1>1. ASSUME NEW step \in {"list", "run", "artifacts"}, At(h, step)
      PROVE  j \in Jobs /\ rec \in Records /\ OnFile(j)
    BY <1>1, WorkType, FileType DEF At
<1>2. ASSUME UNCHANGED record, NEW step \in Steps, NEW new \in Records, Goto(h, step, new),
             j \in Jobs, OnFile(j)
      PROVE  Threads'
    BY <1>2, WorkKept DEF Goto, OnFile
<1>3. CASE ListRuns(h)
    <2>1. rec \in Records /\ j \in Jobs /\ OnFile(j) /\ UNCHANGED <<record, githubVars>>
        BY <1>3, <1>1 DEF ListRuns
    <2>2. /\ [rec EXCEPT !.run = TRUE] \in Records
          /\ [rec EXCEPT !.status = "unknown"] \in Records
        BY <2>1 DEF Records, Terminal
    <2>3. QED
        BY <1>3, <1>2, <2>1, <2>2 DEF ListRuns, Steps
<1>4. CASE ReadRun(h)
    <2>1. rec \in Records /\ j \in Jobs /\ OnFile(j) /\ UNCHANGED <<record, githubVars>>
        BY <1>4, <1>1 DEF ReadRun
    <2>2. CASE run[j] = "success" /\ Goto(h, "artifacts", rec)
        BY <1>2, <2>1, <2>2 DEF Steps
    <2>3. CASE run[j] \in {"queued", "running"}
               /\ Goto(h, "finish", [rec EXCEPT !.status = run[j]])
        <3>1. [rec EXCEPT !.status = run[j]] \in Records
            BY <2>1, <2>3 DEF Records, Active
        <3>2. QED
            BY <1>2, <2>1, <2>3, <3>1 DEF Steps
    <2>4. CASE run[j] \in DOMAIN Ending
               /\ Goto(h, "finish", [rec EXCEPT !.status = Ending[run[j]]])
        <3>1. Ending[run[j]] \in {"failed", "cancelled"}
            BY <2>4 DEF Ending
        <3>2. [rec EXCEPT !.status = Ending[run[j]]] \in Records
            BY <2>1, <3>1 DEF Records, Terminal
        <3>3. QED
            BY <1>2, <2>1, <2>4, <3>2 DEF Steps
    <2>5. QED
        BY <1>4, <2>1, <2>2, <2>3, <2>4 DEF ReadRun
<1>5. CASE ReadArtifacts(h)
    <2>1. rec \in Records /\ j \in Jobs /\ OnFile(j) /\ UNCHANGED <<record, githubVars>>
        BY <1>5, <1>1 DEF ReadArtifacts
    <2>2. /\ [rec EXCEPT !.waiting = TRUE] \in Records
          /\ [rec EXCEPT !.status = "completed"] \in Records
          /\ [rec EXCEPT !.status = "failed"] \in Records
        BY <2>1 DEF Records, Terminal
    <2>3. QED
        BY <1>5, <1>2, <2>1, <2>2 DEF ReadArtifacts, Steps
<1>6. QED
    BY <1>3, <1>4, <1>5 DEF ReadStep, Finish

\* What TypeOK says of everything but threads and records.
Rest ==
    /\ age \in [Jobs -> DOMAIN Level]
    /\ run \in [Jobs -> {"none", "queued", "running", "success", "failure", "cancelled"}]
    /\ artifacts \in [Jobs -> BOOLEAN]
    /\ dispatches \in [Jobs -> 0..2]

LEMMA TypeParts == TypeOK => Threads /\ Rest /\ record \in [Jobs -> Records \union {NoJob}]
BY DEF TypeOK, Threads, Rest

LEMMA TypeAgain == Threads' /\ Rest' /\ record' \in [Jobs -> Records \union {NoJob}] => TypeOK'
BY DEF TypeOK, Threads, Rest

LEMMA DispatchType ==
    ASSUME TypeOK, NEW h \in Handlers, Dispatch(h)
    PROVE  Threads' /\ (Rest /\ UNCHANGED age => Rest') /\ UNCHANGED record
<1> DEFINE j == handler[h].job
           rec == handler[h].rec
<1>1. j \in Jobs /\ rec \in Records /\ OnFile(j)
    BY WorkType, FileType DEF Dispatch, At
<1>2. UNCHANGED <<record, artifacts>>
    BY DEF Dispatch
<1>3. PICK arrives \in BOOLEAN, status \in {"queued", "dispatch-uncertain"} :
          /\ Goto(h, "save", [rec EXCEPT !.status = status])
          /\ IF arrives
             THEN /\ run' = [run EXCEPT ![j] = IF @ = "none" THEN "queued" ELSE @]
                  /\ dispatches' = [dispatches EXCEPT ![j] = IF @ < 2 THEN @ + 1 ELSE @]
             ELSE UNCHANGED <<run, dispatches>>
    BY DEF Dispatch
<1>4. [rec EXCEPT !.status = status] \in Records
    BY <1>1 DEF Records, Active
<1>5. Threads'
    BY <1>1, <1>2, <1>3, <1>4, WorkKept DEF Goto, Steps, OnFile
<1>6. ASSUME Rest, UNCHANGED age PROVE Rest'
    <2> HIDE DEF j, rec
    <2>1. run' \in [Jobs -> {"none", "queued", "running", "success", "failure", "cancelled"}]
        BY <1>1, <1>3, <1>6 DEF Rest
    <2>2. \A n \in 0..2 : (IF n < 2 THEN n + 1 ELSE n) \in 0..2
        OBVIOUS
    <2>3. dispatches' \in [Jobs -> 0..2]
        BY <1>1, <1>3, <1>6, <2>2 DEF Rest
    <2>4. QED
        BY <1>2, <1>6, <2>1, <2>3 DEF Rest
<1>7. QED
    BY <1>2, <1>5, <1>6

\* Every kind of step of a thread, and of a progress report.
LEMMA HandlingType == TypeOK /\ Handling => TypeOK'
<1> SUFFICES ASSUME TypeOK, Handling
             PROVE  TypeOK'
    OBVIOUS
<1> USE TypeParts, TypeAgain
<1> DEFINE Kept == \A k \in Jobs : OnFile(k) => OnFile(k)'
<1>1. UNCHANGED age
    BY DEF Handling
<1>2. ASSUME UNCHANGED githubVars PROVE Rest'
    BY <1>1, <1>2 DEF Rest, githubVars
<1>3. UNCHANGED record => Kept /\ record' \in [Jobs -> Records \union {NoJob}]
    BY DEF OnFile
<1>4. ASSUME NEW h \in Handlers, GetOn(h) PROVE TypeOK'
    <2>1. CASE Dispatch(h)
        BY <1>1, <1>3, <2>1, DispatchType
    <2>2. CASE SaveAndReply(h)
        <3>1. ~At(h, "idle") /\ Save(h, handler[h].rec) /\ Reply(h) /\ UNCHANGED githubVars
            BY <2>2 DEF SaveAndReply, At
        <3>2. QED
            BY <1>2, <3>1, WorkType, SaveKept, ReplyKept
    <2>3. CASE Finish(h)
        <3> DEFINE rec == handler[h].rec
                   new == IF rec.status \in Active /\ Overdue(handler[h].job, rec)
                          THEN [rec EXCEPT !.status = "unknown"] ELSE rec
        <3>1. ~At(h, "idle") /\ Save(h, new) /\ Reply(h) /\ UNCHANGED githubVars
            BY <2>3 DEF Finish, At
        <3>2. rec \in Records
            BY <3>1, WorkType
        <3>3. new \in Records
            BY <3>2 DEF Records, Terminal
        <3>4. QED
            BY <1>2, <3>1, <3>3, SaveKept, ReplyKept
    <2>4. CASE ListRuns(h) \/ ReadRun(h) \/ ReadArtifacts(h)
        <3>1. ~At(h, "finish") /\ ReadStep(h)
            BY <2>4 DEF ListRuns, ReadRun, ReadArtifacts, ReadStep, At
        <3>2. QED
            BY <1>2, <1>3, <3>1, ReadKept
    <2>5. CASE Stops(h)
        BY <1>2, <1>3, <2>5, ReplyKept DEF Stops
    <2>6. QED
        BY <1>4, <2>1, <2>2, <2>3, <2>4, <2>5 DEF GetOn
<1>5. ASSUME NEW h \in Handlers, NEW j \in Jobs, Create(h, j) PROVE TypeOK'
    <2>1. /\ Work(h, [at |-> "dispatch", job |-> j, rec |-> NewJob])
          /\ record' = [record EXCEPT ![j] = NewJob]
          /\ UNCHANGED githubVars
        BY <1>5 DEF Create, Begin, Work
    <2>2. NewJob # NoJob
        BY DEF NewJob, NoJob
    <2>3. record' \in [Jobs -> Records \union {NoJob}] /\ Kept /\ OnFile(j)'
        BY <2>1, <2>2, NewJobType DEF OnFile
    <2>4. QED
        BY <1>2, <2>1, <2>3, NewJobType, WorkKept DEF Steps
<1>6. ASSUME NEW h \in Handlers, NEW j \in Jobs, Get(h, j) PROVE TypeOK'
    <2> DEFINE step == IF record[j].run THEN "run" ELSE "list"
    <2>1. /\ Work(h, [at |-> step, job |-> j, rec |-> record[j]])
          /\ record[j].status \in Active
          /\ UNCHANGED <<record, githubVars>>
        BY <1>6 DEF Get, Begin, Work
    <2>2. OnFile(j) /\ record[j] \in Records
        BY <2>1, FileType DEF OnFile, NoJob, Active
    <2>3. step \in Steps
        BY DEF Steps
    <2>4. QED
        <3> HIDE DEF step
        <3>1. QED
            BY <1>2, <1>3, <2>1, <2>2, <2>3, WorkKept
<1>7. ASSUME NEW j \in Jobs, NEW p \in Profiles, NEW n \in 1..MaxProgress, Progress(j, p, n)
      PROVE  TypeOK'
    <2> DEFINE new == [record[j] EXCEPT !.run = TRUE, !.progress[p] = n]
    <2>1. /\ record' = [record EXCEPT ![j] = new]
          /\ OnFile(j) /\ UNCHANGED <<githubVars, handler>>
        BY <1>7 DEF Progress
    <2>2. record[j] \in Records
        BY <2>1, FileType
    <2>3. new \in Records
        <3>1. [record[j].progress EXCEPT ![p] = n] \in [Profiles -> 0..MaxProgress]
            BY <2>2, BoundsAssumption DEF Records
        <3>2. new = [[record[j] EXCEPT !.run = TRUE]
                         EXCEPT !.progress = [record[j].progress EXCEPT ![p] = n]]
            BY <2>2 DEF Records
        <3>3. QED
            BY <2>2, <3>1, <3>2 DEF Records
    <2>4. new # NoJob
        BY <2>3 DEF Records, NoJob, Active, Terminal
    <2>5. record' \in [Jobs -> Records \union {NoJob}] /\ Kept
        <3> HIDE DEF new
        <3>1. QED
            BY <2>1, <2>3, <2>4 DEF OnFile
    <2>6. Threads'
        <3>1. \A h \in Handlers : ~At(h, "idle") => handler[h].job \in Jobs
            BY WorkType
        <3>2. QED
            BY <2>1, <2>5, <3>1 DEF Threads, At
    <2>7. QED
        BY <1>2, <2>1, <2>5, <2>6
<1>8. QED
    BY <1>4, <1>5, <1>6, <1>7 DEF Handling

LEMMA TypeStep == TypeOK /\ [Next]_vars => TypeOK'
<1> SUFFICES ASSUME TypeOK, [Next]_vars
             PROVE  TypeOK'
    OBVIOUS
<1> USE TypeParts, TypeAgain
<1>1. UNCHANGED <<record, handler>> => Threads' /\ record' \in [Jobs -> Records \union {NoJob}]
    BY DEF Threads, At, OnFile
<1>2. CASE Handling
    BY <1>2, HandlingType
<1>3. CASE GitHub
    <2>1. ASSUME NEW j \in Jobs, RunMoves(j) PROVE Rest'
        <3>1. \A s \in DOMAIN RunSteps : RunSteps[s] \subseteq
                 {"none", "queued", "running", "success", "failure", "cancelled"}
            BY DEF RunSteps
        <3>2. QED
            BY <1>3, <2>1, <3>1 DEF RunMoves, GitHub, Rest
    <2>2. ASSUME NEW j \in Jobs, Uploaded(j) PROVE Rest'
        BY <1>3, <2>2 DEF Uploaded, GitHub, Rest
    <2>3. QED
        BY <1>1, <1>3, <2>1, <2>2 DEF GitHub
<1>4. CASE Time
    <2>1. \A a \in DOMAIN NextAge : NextAge[a] \in DOMAIN Level
        BY DEF NextAge, Level
    <2>2. QED
        BY <1>1, <1>4, <2>1 DEF Time, Age, Rest, githubVars
<1>5. CASE UNCHANGED vars
    BY <1>1, <1>5 DEF vars, githubVars, Rest
<1>6. QED
    BY <1>2, <1>3, <1>4, <1>5 DEF Next

\* Every reachable state is well typed, and a thread at work works for a job on
\* file, for any jobs, people, threads and limits.
THEOREM TypeCorrect == Spec => []TypeOK
BY TypeInit, TypeStep, PTL DEF Spec

-----------------------------------------------------------------------------
(* Progress *)

\* The ways to write a record.
LEMMA RecordMoves ==
    ASSUME TypeOK, [Next]_vars
    PROVE  \/ UNCHANGED record
           \/ \E h \in Handlers, rec \in Records :
                  /\ ~At(h, "idle")
                  /\ Save(h, rec)
                  /\ rec.run = handler[h].rec.run
                  /\ rec.status \in {handler[h].rec.status, "unknown"}
           \/ \E h \in Handlers, j \in Jobs : Create(h, j)
           \/ \E j \in Jobs, p \in Profiles, n \in 1..MaxProgress : Progress(j, p, n)
<1>1. CASE Handling
    <2>1. ASSUME NEW h \in Handlers, SaveAndReply(h)
          PROVE  /\ ~At(h, "idle")
                 /\ handler[h].rec \in Records
                 /\ Save(h, handler[h].rec)
        BY <2>1, WorkType DEF SaveAndReply, At
    <2>2. ASSUME NEW h \in Handlers, Finish(h)
          PROVE  \E rec \in Records :
                     /\ ~At(h, "idle")
                     /\ Save(h, rec)
                     /\ rec.run = handler[h].rec.run
                     /\ rec.status \in {handler[h].rec.status, "unknown"}
        <3>1. ~At(h, "idle") /\ handler[h].rec \in Records
            BY <2>2, WorkType DEF Finish, At
        <3>2. [handler[h].rec EXCEPT !.status = "unknown"] \in Records
            BY <3>1 DEF Records, Terminal
        <3>3. /\ [handler[h].rec EXCEPT !.status = "unknown"].run = handler[h].rec.run
              /\ [handler[h].rec EXCEPT !.status = "unknown"].status = "unknown"
            BY <3>1 DEF Records
        <3>4. QED
            BY <2>2, <3>1, <3>2, <3>3 DEF Finish
    <2>3. ASSUME NEW h \in Handlers,
                 Dispatch(h) \/ ListRuns(h) \/ ReadRun(h) \/ ReadArtifacts(h) \/ Stops(h)
          PROVE  UNCHANGED record
        BY <2>3 DEF Dispatch, ListRuns, ReadRun, ReadArtifacts, Stops
    <2>4. ASSUME NEW h \in Handlers, NEW j \in Jobs, Get(h, j) PROVE UNCHANGED record
        BY <2>4 DEF Get
    <2>5. QED
        BY <1>1, <2>1, <2>2, <2>3, <2>4 DEF Handling, GetOn
<1>2. CASE GitHub
    BY <1>2 DEF GitHub
<1>3. CASE Time
    BY <1>3 DEF Time
<1>4. CASE UNCHANGED vars
    BY <1>4 DEF vars
<1>5. QED
    BY <1>1, <1>2, <1>3, <1>4 DEF Next

\* What save and a report put on file.
LEMMA SavedFields ==
    ASSUME TypeOK, NEW h \in Handlers, ~At(h, "idle"), NEW rec \in Records, Save(h, rec),
           NEW j \in Jobs
    PROVE  /\ j # handler[h].job => record'[j] = record[j]
           /\ j = handler[h].job =>
                /\ record'[j].status = rec.status
                /\ record'[j].run = (rec.run \/ record[j].run)
                /\ \A p \in Profiles : record'[j].progress[p] >= record[j].progress[p]
<1>1. record[handler[h].job] \in Records /\ handler[h].job \in Jobs
    BY WorkType
<1>2. record' = [record EXCEPT ![handler[h].job] = Saved(rec, record[handler[h].job])]
    BY DEF Save
<1>3. ASSUME NEW old \in Records
      PROVE  /\ Saved(rec, old).status = rec.status
             /\ Saved(rec, old).run = (rec.run \/ old.run)
             /\ Saved(rec, old).progress = MergedProgress(rec, old)
    BY DEF Saved, Records
<1>4. ASSUME NEW old \in Records, NEW p \in Profiles
      PROVE  MergedProgress(rec, old)[p] >= old.progress[p]
    BY BoundsAssumption DEF MergedProgress, Records
<1>5. record'[handler[h].job] = Saved(rec, record[handler[h].job])
    BY <1>1, <1>2 DEF TypeOK
<1>6. CASE j # handler[h].job
    BY <1>2, <1>6 DEF TypeOK
<1>7. CASE j = handler[h].job
    BY <1>1, <1>3, <1>4, <1>5, <1>7
<1>8. QED
    BY <1>6, <1>7

LEMMA ReportedFields ==
    ASSUME TypeOK, NEW j \in Jobs, NEW p \in Profiles, NEW n \in 1..MaxProgress,
           Progress(j, p, n), NEW k \in Jobs
    PROVE  /\ k # j => record'[k] = record[k]
           /\ k = j =>
                /\ record'[k].status = record[k].status
                /\ record'[k].run
                /\ \A q \in Profiles : record'[k].progress[q] >= record[k].progress[q]
<1>1. record[j] \in Records /\ n > record[j].progress[p]
    BY FileType DEF Progress, Newer
<1>2. record'[j] = [record[j] EXCEPT !.run = TRUE, !.progress[p] = n]
    BY DEF Progress, TypeOK
<1>3. record'[j] = [record[j] EXCEPT !.run = TRUE,
                                     !.progress = [record[j].progress EXCEPT ![p] = n]]
    BY <1>1, <1>2 DEF Records
<1>4. \A q \in Profiles : [record[j].progress EXCEPT ![p] = n][q] >= record[j].progress[q]
    BY <1>1, BoundsAssumption DEF Records
<1>5. CASE k # j
    BY <1>5 DEF Progress, TypeOK
<1>6. CASE k = j
    BY <1>1, <1>3, <1>4, <1>6 DEF Records
<1>7. QED
    BY <1>5, <1>6

\* No write of a record undoes a report that came in after the record was read,
\* or forgets the run it came from, for any number of threads and reports.
THEOREM NothingForgottenCorrect == Spec => NothingForgotten
<1>1. TypeOK /\ [Next]_vars =>
          [\A j \in Jobs : OnFile(j) =>
              /\ record[j].run => record'[j].run
              /\ \A p \in Profiles : record'[j].progress[p] >= record[j].progress[p]]_vars
    <2> SUFFICES ASSUME TypeOK, [Next]_vars, NEW j \in Jobs, OnFile(j)
                 PROVE  /\ record[j].run => record'[j].run
                        /\ \A p \in Profiles : record'[j].progress[p] >= record[j].progress[p]
        OBVIOUS
    <2>1. record[j] \in Records
        BY FileType
    <2>2. CASE record'[j] = record[j]
        BY <2>1, <2>2, BoundsAssumption DEF Records
    <2>3. ASSUME NEW h \in Handlers, NEW rec \in Records, ~At(h, "idle"), Save(h, rec)
          PROVE  /\ record[j].run => record'[j].run
                 /\ \A p \in Profiles : record'[j].progress[p] >= record[j].progress[p]
        BY <2>2, <2>3, SavedFields
    <2>4. ASSUME NEW h \in Handlers, NEW k \in Jobs, Create(h, k)
          PROVE  record'[j] = record[j]
        BY <2>4 DEF Create, TypeOK
    <2>5. ASSUME NEW k \in Jobs, NEW p \in Profiles, NEW n \in 1..MaxProgress, Progress(k, p, n)
          PROVE  /\ record[j].run => record'[j].run
                 /\ \A q \in Profiles : record'[j].progress[q] >= record[j].progress[q]
        BY <2>2, <2>5, ReportedFields
    <2>6. QED
        BY <2>2, <2>3, <2>4, <2>5, RecordMoves
<1>2. QED
    BY <1>1, TypeCorrect, PTL DEF Spec, NothingForgotten

-----------------------------------------------------------------------------
(* Dispatches *)

\* No step takes a job off file.
LEMMA FileKept ==
    ASSUME TypeOK, [Next]_vars, NEW j \in Jobs, OnFile(j)
    PROVE  OnFile(j)'
<1>1. record[j] \in Records /\ record[j].status # "none"
    BY FileType DEF Records, Active, Terminal
<1>2. \A rec \in Records : rec.status # "none"
    BY DEF Records, Active, Terminal
<1>3. record'[j] = NoJob => record'[j].status = "none"
    BY DEF NoJob
<1>4. ASSUME NEW h \in Handlers, NEW rec \in Records, ~At(h, "idle"), Save(h, rec)
      PROVE  record'[j] = record[j] \/ record'[j].status = rec.status
    BY <1>4, SavedFields
<1>5. ASSUME NEW h \in Handlers, NEW k \in Jobs, Create(h, k)
      PROVE  record'[j] = record[j]
    BY <1>5 DEF Create, TypeOK
<1>6. ASSUME NEW k \in Jobs, NEW p \in Profiles, NEW n \in 1..MaxProgress, Progress(k, p, n)
      PROVE  record'[j].status = record[j].status
    BY <1>6, ReportedFields
<1>7. QED
    BY <1>1, <1>2, <1>3, <1>4, <1>5, <1>6, RecordMoves DEF OnFile

\* A step other than Dispatch spends no run, and leaves no thread about to
\* dispatch that was not, but for the one that creates the job.
LEMMA DispatchesKept ==
    ASSUME TypeOK, [Next]_vars, \A h \in Handlers : ~Dispatch(h)
    PROVE  /\ UNCHANGED dispatches
           /\ \A j \in Jobs : run[j] = "none" => run'[j] = "none"
           /\ \A k \in Handlers : At(k, "dispatch")' =>
                \/ handler'[k] = handler[k]
                \/ \E j \in Jobs : Create(k, j) /\ handler'[k].job = j
<1>1. CASE UNCHANGED handler
    <2>1. CASE Handling
        <3>1. UNCHANGED githubVars
            BY <1>1, <2>1, WorkType DEF Handling, GetOn, SaveAndReply, ListRuns, ReadRun,
               ReadArtifacts, Finish, Stops, Create, Get, Progress, githubVars
        <3>2. QED
            BY <1>1, <3>1 DEF githubVars
    <2>2. CASE GitHub
        BY <1>1, <2>2 DEF GitHub, RunMoves, RunSteps, Uploaded, TypeOK
    <2>3. CASE Time \/ UNCHANGED vars
        BY <1>1, <2>3 DEF Time, vars, githubVars
    <2>4. QED
        BY <1>1, <2>1, <2>2, <2>3 DEF Next
<1>2. ASSUME NEW h \in Handlers,
             SaveAndReply(h) \/ Finish(h) \/ Stops(h) \/ ListRuns(h) \/ ReadRun(h)
                \/ ReadArtifacts(h)
      PROVE  /\ UNCHANGED githubVars
             /\ \A k \in Handlers : At(k, "dispatch")' => handler'[k] = handler[k]
    <2>1. UNCHANGED githubVars
        BY <1>2 DEF SaveAndReply, Finish, Stops, ListRuns, ReadRun, ReadArtifacts
    <2>2. PICK work : Work(h, work) /\ work.at # "dispatch"
        BY <1>2 DEF SaveAndReply, Finish, Stops, ListRuns, ReadRun, ReadArtifacts, Reply, Goto,
           Resting
    <2>3. QED
        BY <2>1, <2>2 DEF Work, At, TypeOK
<1>3. ASSUME NEW h \in Handlers, NEW j \in Jobs, Get(h, j)
      PROVE  /\ UNCHANGED githubVars
             /\ \A k \in Handlers : At(k, "dispatch")' => handler'[k] = handler[k]
    BY <1>3 DEF Get, Begin, At, TypeOK
<1>4. ASSUME NEW h \in Handlers, NEW j \in Jobs, Create(h, j)
      PROVE  /\ UNCHANGED githubVars
             /\ \A k \in Handlers : At(k, "dispatch")' =>
                  \/ handler'[k] = handler[k]
                  \/ Create(k, j) /\ handler'[k].job = j
    <2>1. handler' = [handler EXCEPT ![h] = [at |-> "dispatch", job |-> j, rec |-> NewJob]]
        BY <1>4 DEF Create, Begin
    <2>2. UNCHANGED githubVars
        BY <1>4 DEF Create
    <2>3. QED
        BY <1>4, <2>1, <2>2 DEF TypeOK
<1>5. QED
    BY <1>1, <1>2, <1>3, <1>4 DEF Next, Handling, GetOn, GitHub, Time, Progress, vars, githubVars

LEMMA DispatchedStep ==
    ASSUME TypeOK, DispatchedOnce, AtMostOneDispatch, [Next]_vars
    PROVE  DispatchedOnce' /\ AtMostOneDispatch'
<1>1. CASE \A h \in Handlers : ~Dispatch(h)
    <2>1. AtMostOneDispatch'
        BY <1>1, DispatchesKept DEF AtMostOneDispatch
    <2>2. ASSUME NEW j \in Jobs, ~OnFile(j)'
          PROVE  dispatches'[j] = 0 /\ run'[j] = "none"
        BY <1>1, <2>2, FileKept, DispatchesKept DEF DispatchedOnce
    <2>3. ASSUME NEW h \in Handlers, At(h, "dispatch")'
          PROVE  /\ dispatches'[handler'[h].job] = 0
                 /\ \A k \in Handlers :
                        At(k, "dispatch")' /\ handler'[k].job = handler'[h].job => k = h
        <3>1. ASSUME NEW k \in Handlers, handler'[k] = handler[k], At(k, "dispatch")'
              PROVE  At(k, "dispatch") /\ handler[k].job \in Jobs /\ OnFile(handler[k].job)
            BY <3>1, WorkType DEF At, TypeOK
        <3>2. ASSUME NEW k \in Handlers, NEW j \in Jobs, Create(k, j)
              PROVE  /\ ~OnFile(j)
                     /\ dispatches'[j] = 0
                     /\ \A l \in Handlers \ {k} : handler'[l] = handler[l]
            BY <1>1, <3>2, DispatchesKept DEF Create, Begin, DispatchedOnce, TypeOK
        <3>3. CASE handler'[h] = handler[h]
            BY <1>1, <2>3, <3>1, <3>2, <3>3, DispatchesKept DEF DispatchedOnce
        <3>4. CASE \E j \in Jobs : Create(h, j) /\ handler'[h].job = j
            BY <1>1, <3>1, <3>2, <3>4
        <3>5. QED
            BY <1>1, <2>3, <3>3, <3>4, DispatchesKept
    <2>4. QED
        BY <2>1, <2>2, <2>3 DEF DispatchedOnce
<1>2. ASSUME NEW h \in Handlers, Dispatch(h)
      PROVE  DispatchedOnce' /\ AtMostOneDispatch'
    <2> DEFINE j == handler[h].job
    <2>1. j \in Jobs /\ OnFile(j) /\ dispatches[j] = 0 /\ UNCHANGED record
        BY <1>2, WorkType, FileType DEF Dispatch, At, DispatchedOnce
    <2>2. \A i \in Jobs : i # j => dispatches'[i] = dispatches[i] /\ run'[i] = run[i]
        BY <1>2, <2>1 DEF Dispatch, TypeOK
    <2>3. dispatches'[j] \in 0..1
        BY <1>2, <2>1 DEF Dispatch, TypeOK
    <2>4. ~At(h, "dispatch")' /\ \A k \in Handlers : k # h => handler'[k] = handler[k]
        BY <1>2 DEF Dispatch, Goto, Work, At, TypeOK
    <2>5. ASSUME NEW k \in Handlers, At(k, "dispatch")'
          PROVE  /\ k # h /\ handler'[k] = handler[k] /\ At(k, "dispatch")
                 /\ handler[k].job \in Jobs /\ handler[k].job # j
        BY <1>2, <2>4, <2>5, WorkType DEF At, Dispatch, DispatchedOnce
    <2>6. QED
        <3> HIDE DEF j
        <3>1. AtMostOneDispatch'
            BY <2>1, <2>2, <2>3 DEF AtMostOneDispatch
        <3>2. \A i \in Jobs : ~OnFile(i)' => dispatches'[i] = 0 /\ run'[i] = "none"
            BY <2>1, <2>2 DEF OnFile, DispatchedOnce
        <3>3. \A k \in Handlers : At(k, "dispatch")' =>
                  /\ dispatches'[handler'[k].job] = 0
                  /\ \A l \in Handlers :
                        At(l, "dispatch")' /\ handler'[l].job = handler'[k].job => l = k
            BY <2>2, <2>5 DEF DispatchedOnce
        <3>4. QED
            BY <3>1, <3>2, <3>3 DEF DispatchedOnce
<1>3. QED
    BY <1>1, <1>2

\* A request makes at most one run, whoever makes it again when, whatever answer
\* is lost and whatever dies, for any number of requests and threads.
THEOREM AtMostOneDispatchCorrect == Spec => []AtMostOneDispatch
<1>1. Init => DispatchedOnce /\ AtMostOneDispatch
    BY DEF Init, DispatchedOnce, AtMostOneDispatch, At, Resting
<1>2. QED
    BY <1>1, DispatchedStep, TypeCorrect, PTL DEF Spec

-----------------------------------------------------------------------------
(* Outcomes *)

\* GitHub takes nothing back: a run that has ended stays as it ended, and an
\* artifact that is there stays there.
LEMMA GitHubStays ==
    ASSUME TypeOK, [Next]_vars, NEW j \in Jobs
    PROVE  /\ run[j] \in {"success", "failure", "cancelled"} => run'[j] = run[j]
           /\ run[j] # "none" => run'[j] # "none"
           /\ artifacts[j] => artifacts'[j]
<1>1. CASE UNCHANGED githubVars
    BY <1>1 DEF githubVars
<1>2. ASSUME NEW h \in Handlers, Dispatch(h)
      PROVE  UNCHANGED artifacts /\ (run[j] # "none" => run'[j] = run[j])
    <2>1. UNCHANGED run \/ run' = [run EXCEPT ![handler[h].job] = IF @ = "none" THEN "queued" ELSE @]
        BY <1>2 DEF Dispatch
    <2>2. QED
        BY <1>2, <2>1 DEF Dispatch, TypeOK
<1>3. ASSUME NEW k \in Jobs, RunMoves(k)
      PROVE  /\ UNCHANGED artifacts
             /\ run[j] \in {"success", "failure", "cancelled"} => run'[j] = run[j]
             /\ run[j] # "none" => run'[j] # "none"
    BY <1>3 DEF RunMoves, RunSteps, TypeOK
<1>4. ASSUME NEW k \in Jobs, Uploaded(k)
      PROVE  UNCHANGED run /\ (artifacts[j] => artifacts'[j])
    BY <1>4 DEF Uploaded, TypeOK
<1>5. CASE Handling
    <2>1. (\E h \in Handlers : Dispatch(h)) \/ UNCHANGED githubVars
        BY <1>5 DEF Handling, GetOn, SaveAndReply, ListRuns, ReadRun, ReadArtifacts, Finish, Stops,
           Create, Get, Progress
    <2>2. QED
        BY <1>1, <1>2, <2>1
<1>6. QED
    BY <1>1, <1>3, <1>4, <1>5 DEF Next, GitHub, Time, vars, githubVars

LEMMA BorneStays ==
    ASSUME TypeOK, [Next]_vars, NEW j \in Jobs, NEW status, Borne(j, status)
    PROVE  Borne(j, status)'
BY GitHubStays DEF Borne

LEMMA HeldStays ==
    ASSUME TypeOK, [Next]_vars, NEW work \in [at : Steps, job : Jobs, rec : Records], Held(work)
    PROVE  Held(work)'
<1>1. work.job \in Jobs
    OBVIOUS
<1>2. Borne(work.job, work.rec.status)'
    BY <1>1, BorneStays DEF Held
<1>3. QED
    BY <1>1, <1>2, GitHubStays DEF Held

LEMMA BorneUnended ==
    ASSUME NEW j \in Jobs, NEW status \in Active \union {"unknown", "none"}
    PROVE  Borne(j, status)
BY DEF Borne, Active

\* What a thread goes on with is borne out, if it was borne out so far.
LEMMA HeldNew ==
    ASSUME TypeOK, HeldTrue, OutcomeTrue, RecordTrue, Handling
    PROVE  \/ UNCHANGED handler
           \/ \E h \in Handlers : Reply(h)
           \/ \E h \in Handlers, work \in [at : Steps, job : Jobs, rec : Records] :
                 Work(h, work) /\ Held(work)
<1> DEFINE Goes(h) == \E work \in [at : Steps, job : Jobs, rec : Records] :
                          Work(h, work) /\ Held(work)
<1>1. ASSUME NEW h \in Handlers, NEW step \in Steps, NEW rec \in Records,
             ~At(h, "idle"), Goto(h, step, rec), Held([at |-> step, job |-> handler[h].job, rec |-> rec])
      PROVE  Goes(h)
    BY <1>1, WorkType DEF Goto
<1>2. ASSUME NEW h \in Handlers, ~At(h, "idle")
      PROVE  /\ handler[h].job \in Jobs
             /\ handler[h].rec \in Records
             /\ Held(handler[h])
    BY <1>2, WorkType DEF HeldTrue
<1>3. ASSUME NEW h \in Handlers, NEW j \in Jobs, Create(h, j) PROVE Goes(h)
    <2>1. Held([at |-> "dispatch", job |-> j, rec |-> NewJob])
        BY DEF Held, Borne, NewJob
    <2>2. QED
        BY <1>3, <2>1, NewJobType DEF Create, Begin, Work, Steps
<1>4. ASSUME NEW h \in Handlers, NEW j \in Jobs, Get(h, j) PROVE Goes(h)
    <2> DEFINE step == IF record[j].run THEN "run" ELSE "list"
    <2>1. OnFile(j) /\ record[j] \in Records
        BY <1>4, FileType DEF Get, OnFile, NoJob, Active
    <2>2. Held([at |-> step, job |-> j, rec |-> record[j]])
        BY <2>1 DEF Held, OutcomeTrue, RecordTrue
    <2>3. QED
        BY <1>4, <2>1, <2>2 DEF Get, Begin, Work, Steps
<1>5. ASSUME NEW h \in Handlers, Dispatch(h) PROVE Goes(h)
    <2>1. ~At(h, "idle")
        BY <1>5 DEF Dispatch, At
    <2>2. PICK status \in {"queued", "dispatch-uncertain"} :
              Goto(h, "save", [handler[h].rec EXCEPT !.status = status])
        BY <1>5 DEF Dispatch
    <2> DEFINE rec == [handler[h].rec EXCEPT !.status = status]
    <2>3. rec \in Records /\ rec.status = status /\ rec.run = handler[h].rec.run
        BY <1>2, <2>1 DEF Records, Active
    <2>4. QED
        <3> HIDE DEF rec
        <3>1. Held([at |-> "save", job |-> handler[h].job, rec |-> rec])
            BY <1>2, <2>1, <2>3 DEF Held, Borne
        <3>2. QED
            BY <1>1, <2>1, <2>2, <2>3, <3>1 DEF Steps, rec
<1>6. ASSUME NEW h \in Handlers, ListRuns(h) PROVE Goes(h)
    <2>1. ~At(h, "idle")
        BY <1>6 DEF ListRuns, At
    <2> DEFINE rec == handler[h].rec
    <2>2. CASE run[handler[h].job] # "none" /\ Goto(h, "run", [rec EXCEPT !.run = TRUE])
        <3>1. [rec EXCEPT !.run = TRUE] \in Records /\ [rec EXCEPT !.run = TRUE].status = rec.status
            BY <1>2, <2>1 DEF Records
        <3>2. [rec EXCEPT !.run = TRUE].run
            BY <1>2, <2>1 DEF Records
        <3>3. Held([at |-> "run", job |-> handler[h].job, rec |-> [rec EXCEPT !.run = TRUE]])
            BY <1>2, <2>1, <2>2, <3>1, <3>2 DEF Held
        <3>4. QED
            BY <1>1, <2>1, <2>2, <3>1, <3>3 DEF Steps
    <2>3. CASE Goto(h, "finish", [rec EXCEPT !.status = "unknown"])
        <3>1. /\ [rec EXCEPT !.status = "unknown"] \in Records
              /\ [rec EXCEPT !.status = "unknown"].status = "unknown"
              /\ [rec EXCEPT !.status = "unknown"].run = rec.run
            BY <1>2, <2>1 DEF Records, Terminal
        <3>2. Held([at |-> "finish", job |-> handler[h].job,
                    rec |-> [rec EXCEPT !.status = "unknown"]])
            BY <1>2, <2>1, <3>1 DEF Held, Borne
        <3>3. QED
            BY <1>1, <2>1, <2>3, <3>1, <3>2 DEF Steps
    <2>4. CASE Goto(h, "finish", rec)
        <3>1. Held([at |-> "finish", job |-> handler[h].job, rec |-> rec])
            BY <1>2, <2>1 DEF Held
        <3>2. QED
            BY <1>1, <1>2, <2>1, <2>4, <3>1 DEF Steps
    <2>5. QED
        BY <1>6, <2>2, <2>3, <2>4 DEF ListRuns
<1>7. ASSUME NEW h \in Handlers, ReadRun(h) PROVE Goes(h)
    <2>1. ~At(h, "idle") /\ handler[h].at = "run" /\ handler[h].rec.run
        BY <1>2, <1>7 DEF ReadRun, At, Held
    <2> DEFINE rec == handler[h].rec
               now == run[handler[h].job]
    <2>2. CASE now = "success" /\ Goto(h, "artifacts", rec)
        <3>1. Held([at |-> "artifacts", job |-> handler[h].job, rec |-> rec])
            BY <1>2, <2>1, <2>2 DEF Held
        <3>2. QED
            BY <1>1, <1>2, <2>1, <2>2, <3>1 DEF Steps
    <2>3. ASSUME NEW status \in Active \union Terminal, Borne(handler[h].job, status),
                 Goto(h, "finish", [rec EXCEPT !.status = status])
          PROVE  Goes(h)
        <3>1. /\ [rec EXCEPT !.status = status] \in Records
              /\ [rec EXCEPT !.status = status].status = status
              /\ [rec EXCEPT !.status = status].run = rec.run
            BY <1>2, <2>1 DEF Records
        <3>2. Held([at |-> "finish", job |-> handler[h].job,
                    rec |-> [rec EXCEPT !.status = status]])
            BY <1>2, <2>1, <2>3, <3>1 DEF Held
        <3>3. QED
            BY <1>1, <2>1, <2>3, <3>1, <3>2 DEF Steps
    <2>4. CASE now \in {"queued", "running"} /\ Goto(h, "finish", [rec EXCEPT !.status = now])
        BY <2>3, <2>4 DEF Active, Borne
    <2>5. CASE now \in DOMAIN Ending /\ Goto(h, "finish", [rec EXCEPT !.status = Ending[now]])
        <3>1. Ending[now] \in Terminal /\ Borne(handler[h].job, Ending[now])
            BY <2>5 DEF Ending, Terminal, Borne
        <3>2. QED
            BY <2>3, <2>5, <3>1
    <2>6. QED
        BY <1>7, <2>2, <2>4, <2>5 DEF ReadRun
<1>8. ASSUME NEW h \in Handlers, ReadArtifacts(h) PROVE Goes(h)
    <2>1. ~At(h, "idle") /\ run[handler[h].job] = "success"
        BY <1>2, <1>8 DEF ReadArtifacts, At, Held
    <2> DEFINE rec == handler[h].rec
    <2>2. ASSUME NEW new \in Records, Goto(h, "finish", new), new.run = rec.run,
                 Borne(handler[h].job, new.status)
          PROVE  Goes(h)
        <3>1. Held([at |-> "finish", job |-> handler[h].job, rec |-> new])
            BY <1>2, <2>1, <2>2 DEF Held
        <3>2. QED
            BY <1>1, <2>1, <2>2, <3>1 DEF Steps
    <2>3. ASSUME NEW status \in {"completed", "failed"}
          PROVE  /\ [rec EXCEPT !.status = status] \in Records
                 /\ [rec EXCEPT !.status = status].run = rec.run
                 /\ [rec EXCEPT !.status = status].status = status
        BY <1>2, <2>1 DEF Records, Terminal
    <2>4. CASE artifacts[handler[h].job] /\ Goto(h, "finish", [rec EXCEPT !.status = "completed"])
        BY <2>1, <2>2, <2>3, <2>4 DEF Borne
    <2>5. CASE Goto(h, "finish", [rec EXCEPT !.waiting = TRUE])
        <3>1. /\ [rec EXCEPT !.waiting = TRUE] \in Records
              /\ [rec EXCEPT !.waiting = TRUE].run = rec.run
              /\ [rec EXCEPT !.waiting = TRUE].status = rec.status
            BY <1>2, <2>1 DEF Records
        <3>2. Borne(handler[h].job, rec.status)
            BY <1>2, <2>1 DEF Held
        <3>3. QED
            BY <2>2, <2>5, <3>1, <3>2
    <2>6. CASE Goto(h, "finish", [rec EXCEPT !.status = "failed"])
        BY <2>1, <2>2, <2>3, <2>6 DEF Borne
    <2>7. QED
        BY <1>8, <2>4, <2>5, <2>6 DEF ReadArtifacts, Complete
<1>9. QED
    BY <1>3, <1>4, <1>5, <1>6, <1>7, <1>8
       DEF Handling, GetOn, SaveAndReply, Finish, Stops, Progress

LEMMA HeldStep ==
    ASSUME TypeOK, HeldTrue, OutcomeTrue, RecordTrue, [Next]_vars
    PROVE  HeldTrue'
<1>1. ASSUME NEW k \in Handlers, handler'[k] = handler[k], ~At(k, "idle")'
      PROVE  Held(handler[k])' /\ ~At(k, "idle")
    <2>1. ~At(k, "idle") /\ handler[k] \in [at : Steps, job : Jobs, rec : Records]
        BY <1>1, WorkType DEF At
    <2>2. PICK work \in [at : Steps, job : Jobs, rec : Records] : work = handler[k]
        BY <2>1
    <2>3. Held(work)'
        BY <2>1, <2>2, HeldStays DEF HeldTrue
    <2>4. QED
        BY <1>1, <2>1, <2>2, <2>3 DEF Held, Borne
<1>2. CASE UNCHANGED handler
    BY <1>1, <1>2 DEF HeldTrue
<1>3. ASSUME NEW h \in Handlers, Reply(h)
      PROVE  HeldTrue'
    <2>1. At(h, "idle")' /\ \A k \in Handlers : k # h => handler'[k] = handler[k]
        BY <1>3 DEF Reply, Work, At, Resting, TypeOK
    <2>2. QED
        BY <1>1, <2>1 DEF HeldTrue
<1>4. ASSUME NEW h \in Handlers, NEW work \in [at : Steps, job : Jobs, rec : Records],
             Work(h, work), Held(work)
      PROVE  HeldTrue'
    <2>1. handler'[h] = work /\ \A k \in Handlers : k # h => handler'[k] = handler[k]
        BY <1>4 DEF Work, TypeOK
    <2>2. Held(work)'
        BY <1>4, HeldStays
    <2>3. Held(handler[h])'
        BY <2>1, <2>2 DEF Held, Borne
    <2>4. QED
        BY <1>1, <2>1, <2>3 DEF HeldTrue
<1>5. CASE Handling
    BY <1>2, <1>3, <1>4, <1>5, HeldNew
<1>6. QED
    BY <1>2, <1>5 DEF Next, GitHub, Time, vars

LEMMA RecordStep ==
    ASSUME TypeOK, HeldTrue, OutcomeTrue, RecordTrue, [Next]_vars
    PROVE  OutcomeTrue' /\ RecordTrue'
<1> SUFFICES ASSUME NEW j \in Jobs
             PROVE  /\ Borne(j, record[j].status)'
                    /\ OnFile(j)' /\ record'[j].run => run'[j] # "none"
    BY DEF OutcomeTrue, RecordTrue
<1>1. /\ Borne(j, record[j].status)
      /\ OnFile(j) /\ record[j].run => run[j] # "none"
    BY DEF OutcomeTrue, RecordTrue
<1>2. ASSUME NEW status, Borne(j, status), record'[j].status = status
      PROVE  Borne(j, record[j].status)'
    BY <1>2, BorneStays DEF Borne
<1>3. ASSUME record'[j] = record[j]
      PROVE  /\ Borne(j, record[j].status)'
             /\ OnFile(j)' /\ record'[j].run => run'[j] # "none"
    BY <1>1, <1>2, <1>3, GitHubStays DEF OnFile
<1>4. ASSUME NEW h \in Handlers, NEW rec \in Records, ~At(h, "idle"), Save(h, rec),
             rec.run = handler[h].rec.run, rec.status \in {handler[h].rec.status, "unknown"}
      PROVE  /\ Borne(j, record[j].status)'
             /\ OnFile(j)' /\ record'[j].run => run'[j] # "none"
    <2>1. CASE j # handler[h].job
        BY <1>3, <1>4, <2>1, SavedFields
    <2>2. CASE j = handler[h].job
        <3>1. record'[j].status = rec.status /\ record'[j].run = (rec.run \/ record[j].run)
            BY <1>4, <2>2, SavedFields
        <3>2. /\ Borne(j, handler[h].rec.status)
              /\ handler[h].rec.run => run[j] # "none"
            BY <1>4, <2>2 DEF HeldTrue, Held
        <3>3. Borne(j, "unknown")
            BY DEF Borne
        <3>4. Borne(j, record[j].status)'
            BY <1>2, <1>4, <3>1, <3>2, <3>3
        <3>5. OnFile(j)
            BY <1>4, <2>2, WorkType, FileType
        <3>6. QED
            BY <1>1, <1>4, <3>1, <3>2, <3>4, <3>5, GitHubStays
    <2>3. QED
        BY <2>1, <2>2
<1>5. ASSUME NEW h \in Handlers, NEW k \in Jobs, Create(h, k)
      PROVE  /\ Borne(j, record[j].status)'
             /\ OnFile(j)' /\ record'[j].run => run'[j] # "none"
    <2>1. CASE j # k
        BY <1>3, <1>5, <2>1 DEF Create, TypeOK
    <2>2. CASE j = k
        <3>1. record'[j] = NewJob
            BY <1>5, <2>2 DEF Create, TypeOK
        <3>2. QED
            BY <3>1 DEF NewJob, Borne
    <2>3. QED
        BY <2>1, <2>2
<1>6. ASSUME NEW k \in Jobs, NEW p \in Profiles, NEW n \in 1..MaxProgress, Progress(k, p, n)
      PROVE  /\ Borne(j, record[j].status)'
             /\ OnFile(j)' /\ record'[j].run => run'[j] # "none"
    <2>1. CASE j # k
        BY <1>3, <1>6, <2>1, ReportedFields
    <2>2. CASE j = k
        <3>1. record'[j].status = record[j].status /\ run[j] # "none"
            BY <1>6, <2>2, ReportedFields DEF Progress
        <3>2. QED
            BY <1>1, <1>2, <3>1, GitHubStays
    <2>3. QED
        BY <2>1, <2>2
<1>7. QED
    BY <1>3, <1>4, <1>5, <1>6, RecordMoves

\* No job is ever said to have ended otherwise than its run did, or to be
\* complete without its artifacts, whichever threads read and write when.
THEOREM OutcomeTrueCorrect == Spec => []OutcomeTrue
<1>1. Init => HeldTrue /\ OutcomeTrue /\ RecordTrue
    BY DEF Init, HeldTrue, OutcomeTrue, RecordTrue, Borne, At, Resting, OnFile, NoJob
<1>2. QED
    BY <1>1, HeldStep, RecordStep, TypeCorrect, PTL DEF Spec

=============================================================================
