------------------------- MODULE StatusServiceProofs -------------------------
(* Proofs about the status service, for any number of runs and jobs.       *)
EXTENDS StatusService, TLAPS

USE DEF Absent, Completed

-----------------------------------------------------------------------------
(* The merge keeps the kind of a row.                                       *)

LEMMA MergeRunType ==
    ASSUME NEW row \in RunRow, NEW update,
           update.status \in Statuses, update.conclusion \in AnyConclusion,
           update.event \in Events, update.prs \in SUBSET PRs,
           NEW authoritative \in BOOLEAN
    PROVE  MergeRun(row, update, authoritative) \in RunRow
BY DEF MergeRun, RunRow, AdvancedStatus, AdvancedConclusion, MergedLookup,
       Conflict, Filled

LEMMA MergeJobType ==
    ASSUME NEW row \in JobRow, NEW update,
           update.status \in Statuses, update.conclusion \in AnyConclusion,
           NEW authoritative \in BOOLEAN
    PROVE  MergeJob(row, update, authoritative) \in JobRow
BY DEF MergeJob, JobRow, AdvancedStatus, AdvancedConclusion, MergedLookup,
       Conflict

LEMMA ParsedRunType ==
    ASSUME NEW r \in Runs, NEW progress,
           progress.status \in Statuses, progress.conclusion \in AnyConclusion
    PROVE  ParsedRun(r, progress) \in RunUpdate
BY DEF ParsedRun, RunUpdate, EventOf, Events, PRs

LEMMA StubType ==
    ASSUME NEW update, update.status \in Statuses
    PROVE  RunStub(update) \in RunUpdate
BY DEF RunStub, RunUpdate, Events, Statuses, AnyConclusion


LEMMA ProgressType ==
    /\ Queued \in Progress
    /\ InProgress \in Progress
    /\ \A c \in Conclusions : Done(c) \in Progress
<1>1. Queued \in Progress
    BY DEF Queued, Progress, Statuses, AnyConclusion
<1>2. InProgress \in Progress
    BY DEF InProgress, Progress, Statuses, AnyConclusion
<1>3. ASSUME NEW c \in Conclusions
      PROVE  Done(c) \in Progress
    BY DEF Done, Progress, Statuses, AnyConclusion
<1>4. QED
    BY <1>1, <1>2, <1>3

LEMMA EventType ==
    ASSUME NEW progress \in Progress
    PROVE  /\ \A r \in Runs : RunEvent(r, progress) \in Delivery
           /\ \A j \in Jobs : JobEvent(j, progress) \in Delivery
BY DEF RunEvent, JobEvent, Delivery, Progress

-----------------------------------------------------------------------------
(* Type correctness                                                         *)

LEMMA TypeInit == Init => TypeOK
<1>1. /\ NoProgress \in Progress
      /\ NoRunRow \in RunRow
      /\ NoJobRow \in JobRow
    BY DEF NoProgress, Progress, NoRunRow, RunRow, NoJobRow, JobRow,
           Statuses, AnyConclusion, Events
<1>2. QED
    <2> SUFFICES ASSUME Init
                 PROVE  TypeOK
        OBVIOUS
    <2>1. /\ DOMAIN read = {}
          /\ DOMAIN jobsRead = {}
        BY DEF Init, Nothing
    <2>2. revisions \in 0..MaxRevisions
        BY MaxRevisionsAssumption DEF Init
    <2>3. QED
        BY <1>1, <2>1, <2>2 DEF Init, TypeOK, Stages

\* GitHub's steps touch none of the service's variables.
LEMMA GitHubType == TypeOK /\ GitHub => TypeOK'
<1> SUFFICES ASSUME TypeOK, GitHub
             PROVE  TypeOK'
    OBVIOUS
<1>0. /\ UNCHANGED <<runs, jobs, deliveries, pc, due, cur, read, jobsRead,
                     complete, unsettled>>
    BY DEF GitHub, storeVars, recVars
<1> DEFINE Typed == /\ ghRun' \in [Runs -> Progress]
                   /\ ghJob' \in [Jobs -> Progress]
                   /\ deleted' \subseteq Runs
                   /\ revisions' \in 0..MaxRevisions
                   /\ sent' \subseteq Delivery
                   /\ sent \subseteq sent'
<1>1. Typed
    <2>1. CASE \E r \in Runs : CreateRun(r)
        BY <2>1, ProgressType, EventType DEF CreateRun, TypeOK
    <2>2. CASE \E r \in Runs : DeleteRun(r)
        BY <2>2 DEF DeleteRun, TypeOK
    <2>3. CASE \E j \in Jobs : CreateJob(j)
        BY <2>3, ProgressType, EventType DEF CreateJob, TypeOK
    <2>4. ASSUME NEW j \in Jobs, NEW progress \in Progress,
                 AdvanceJob(j, progress)
          PROVE  Typed
        BY <2>4, RunOfAssumption, ProgressType, EventType
           DEF AdvanceJob, TypeOK
    <2>5. CASE \E j \in Jobs : StartJob(j)
        BY <2>4, <2>5, ProgressType DEF StartJob
    <2>6. CASE \E j \in Jobs, c \in Conclusions : FinishJob(j, c)
        BY <2>4, <2>6, ProgressType DEF FinishJob
    <2>7. CASE \E r \in Runs, c \in Conclusions : FinishRun(r, c)
        BY <2>7, ProgressType, EventType DEF FinishRun, TypeOK
    <2>8. CASE \E r \in Runs, c \in Conclusions : ReviseRun(r, c)
        BY <2>8, ProgressType, EventType, MaxRevisionsAssumption
           DEF ReviseRun, TypeOK
    <2>9. QED
        BY <2>1, <2>2, <2>3, <2>5, <2>6, <2>7, <2>8 DEF GitHub
<1>2. QED
    BY <1>0, <1>1 DEF TypeOK

LEMMA DeliverType ==
    ASSUME TypeOK, NEW m \in sent, Deliver(m)
    PROVE  TypeOK'
<1>1. m \in Delivery
    BY DEF TypeOK
<1>2. /\ runs' \in [Runs -> RunRow]
      /\ jobs' \in [Jobs -> JobRow]
      /\ unsettled' \subseteq Runs
    <2>1. CASE m.kind = "run"
        <3>1. m.key \in Runs /\ ParsedRun(m.key, m) \in RunUpdate
            BY <1>1, <2>1, ParsedRunType DEF Delivery
        <3>2. MergeRun(runs[m.key], ParsedRun(m.key, m), FALSE) \in RunRow
            BY <3>1, MergeRunType DEF TypeOK, RunUpdate
        <3>3. QED
            BY <2>1, <3>1, <3>2 DEF Deliver, TypeOK
    <2>2. CASE m.kind = "job"
        <3>1. m.key \in Jobs /\ RunOf[m.key] \in Runs /\ RunStub(m) \in RunUpdate
            BY <1>1, <2>2, StubType, RunOfAssumption DEF Delivery
        <3>2. /\ MergeRun(runs[RunOf[m.key]], RunStub(m), FALSE) \in RunRow
              /\ MergeJob(jobs[m.key], m, FALSE) \in JobRow
            BY <1>1, <3>1, MergeRunType, MergeJobType DEF TypeOK, RunUpdate, Delivery
        <3>3. QED
            BY <2>2, <3>1, <3>2 DEF Deliver, TypeOK
    <2>3. QED
        BY <2>1, <2>2 DEF Deliver
<1>3. QED
    BY <1>2 DEF Deliver, TypeOK, ghVars, recVars

\* The part of TypeOK about what the reconciler holds.
Holding ==
    /\ pc \in Stages
    /\ DOMAIN read \subseteq Runs
    /\ \A r \in DOMAIN read : read[r] \in RunUpdate
    /\ DOMAIN jobsRead \subseteq Jobs
    /\ \A j \in DOMAIN jobsRead : jobsRead[j] \in Progress
    /\ complete \in BOOLEAN
    /\ IF pc \in {"idle", "listing", "listed", "select", "next"}
       THEN cur = NoRun
       ELSE cur \in Runs /\ (pc # "mark_pr" => DOMAIN read = {cur})

LEMMA RestType ==
    ASSUME NEW stage \in {"idle", "listing", "select", "next"}, Rest(stage)
    PROVE  Holding'
BY DEF Rest, Nothing, Holding, Stages

LEMMA AfterJobsType ==
    ASSUME TypeOK, pc \in {"jobs_read", "mark_synced"}, AfterJobs
    PROVE  Holding'
<1>1. CASE /\ pc' = "find_pr"
           /\ UNCHANGED <<cur, read, jobsRead, complete>>
    BY <1>1 DEF TypeOK, Holding, Stages
<1>2. QED
    BY <1>1, RestType DEF AfterJobs

LEMMA ReconcilerType == TypeOK /\ Reconciler => TypeOK'
<1> SUFFICES ASSUME TypeOK, Reconciler
             PROVE  TypeOK'
    OBVIOUS
<1> USE DEF Stages
<1>1. CASE StartCycle
    BY <1>1 DEF StartCycle, TypeOK, Rest, Nothing, ghVars, storeVars
<1>2. CASE SelectDue
    BY <1>2 DEF SelectDue, TypeOK, Rest, Nothing, ghVars, storeVars
<1>3. CASE EndCycle
    BY <1>3 DEF EndCycle, TypeOK, Rest, Nothing, ghVars, storeVars
<1>4. CASE AbortCycle
    BY <1>4 DEF AbortCycle, TypeOK, Rest, Nothing, ghVars, storeVars
<1>5. ASSUME NEW listed \in SUBSET Runs, ListRuns(listed)
      PROVE  TypeOK'
    <2>1. \A r \in listed : ParsedRun(r, ghRun[r]) \in RunUpdate
        BY ParsedRunType DEF TypeOK, Progress
    <2>2. QED
        BY <1>5, <2>1 DEF ListRuns, TypeOK, ghVars, storeVars
<1>6. ASSUME NEW next \in {"listing", "select"}, ApplyListing(next)
      PROVE  TypeOK'
    <2>1. runs' \in [Runs -> RunRow]
        BY <1>6, MergeRunType DEF ApplyListing, Reconciled, TypeOK, RunUpdate
    <2>2. QED
        BY <1>6, <2>1 DEF ApplyListing, Settle, Rest, Nothing, TypeOK, ghVars
<1>7. ASSUME NEW r \in Runs, ReadRun(r)
      PROVE  TypeOK'
    <2>1. ParsedRun(r, ghRun[r]) \in RunUpdate
        BY ParsedRunType DEF TypeOK, Progress
    <2>2. QED
        BY <1>7, <2>1 DEF ReadRun, TypeOK, ghVars, storeVars
<1>8. ASSUME NEW r \in Runs, RunGone(r)
      PROVE  TypeOK'
    BY <1>8 DEF RunGone, TypeOK, Rest, Nothing, RunRow, ghVars
<1>9. ASSUME NEW r \in Runs, RefreshFails(r)
      PROVE  TypeOK'
    BY <1>9 DEF RefreshFails, TypeOK, Rest, Nothing, ghVars, storeVars
<1>10. CASE ApplyRun
    <2>1. cur \in Runs /\ read[cur] \in RunUpdate
        BY <1>10 DEF ApplyRun, TypeOK
    <2>2. MergeRun(runs[cur], read[cur], TRUE) \in RunRow
        BY <2>1, MergeRunType DEF TypeOK, RunUpdate
    <2>3. QED
        BY <1>10, <2>1, <2>2 DEF ApplyRun, Reconciled, Settle, TypeOK, ghVars
<1>11. ASSUME NEW listed \in SUBSET Jobs, NEW all \in BOOLEAN,
              ListJobs(listed, all)
       PROVE  TypeOK'
    BY <1>11 DEF ListJobs, TypeOK, ghVars, storeVars
<1>12. CASE ApplyJobs
    <2>1. cur \in Runs /\ DOMAIN read = {cur}
        BY <1>12 DEF ApplyJobs, TypeOK
    <2>2. jobs' \in [Jobs -> JobRow]
        BY <1>12, MergeJobType DEF ApplyJobs, TypeOK, Progress
    <2>3. \A u \in {InProgress, Queued} :
             MergeRun(runs[cur], RunStub(u), FALSE) \in RunRow
        <3>1. \A u \in {InProgress, Queued} : RunStub(u) \in RunUpdate
            BY StubType, ProgressType DEF Progress
        <3>2. QED
            BY <2>1, <3>1, MergeRunType DEF TypeOK, RunUpdate
    <2>4. runs' \in [Runs -> RunRow]
        BY <1>12, <2>1, <2>3 DEF ApplyJobs, TypeOK
    <2>5. CASE AfterJobs
        BY <1>12, <2>2, <2>4, <2>5, AfterJobsType
           DEF ApplyJobs, TypeOK, Holding, ghVars
    <2>6. CASE pc' = "mark_synced" /\ UNCHANGED <<cur, read, jobsRead, complete>>
        BY <1>12, <2>1, <2>2, <2>4, <2>6 DEF ApplyJobs, TypeOK, ghVars
    <2>7. QED
        BY <1>12, <2>5, <2>6 DEF ApplyJobs
<1>13. CASE MarkSynced
    <2>1. runs' \in [Runs -> RunRow]
        BY <1>13 DEF MarkSynced, TypeOK, RunRow
    <2>2. QED
        BY <1>13, <2>1, AfterJobsType DEF MarkSynced, TypeOK, Holding, ghVars
<1>14. ASSUME NEW found \in SUBSET PRs, FindPr(found)
       PROVE  TypeOK'
    BY <1>14 DEF FindPr, Nothing, TypeOK, RunUpdate, Events, AnyConclusion, ghVars, storeVars
<1>15. CASE ApplyPr
    <2>1. cur \in Runs /\ read[cur] \in RunUpdate
        BY <1>15 DEF ApplyPr, TypeOK
    <2>2. MergeRun(runs[cur], read[cur], TRUE) \in RunRow
        BY <2>1, MergeRunType DEF TypeOK, RunUpdate
    <2>3. QED
        BY <1>15, <2>1, <2>2 DEF ApplyPr, Reconciled, Nothing, TypeOK, ghVars
<1>16. CASE MarkPr
    BY <1>16 DEF MarkPr, Rest, Nothing, TypeOK, RunRow, ghVars
<1>17. QED
    BY <1>1, <1>2, <1>3, <1>4, <1>5, <1>6, <1>7, <1>8, <1>9, <1>10, <1>11,
       <1>12, <1>13, <1>14, <1>15, <1>16 DEF Reconciler

LEMMA TypeStep == TypeOK /\ [Next]_vars => TypeOK'
<1> SUFFICES ASSUME TypeOK, [Next]_vars
             PROVE  TypeOK'
    OBVIOUS
<1>1. CASE Crash
    BY <1>1 DEF Crash, Rest, Nothing, TypeOK, Stages, ghVars, storeVars
<1>2. CASE UNCHANGED vars
    BY <1>2 DEF vars, ghVars, storeVars, recVars, TypeOK
<1>3. QED
    BY <1>1, <1>2, GitHubType, DeliverType, ReconcilerType DEF Next

\* Every reachable state of the service holds values of the right kinds, and
\* an API answer is held only while its run is being refreshed.
THEOREM TypeCorrect == Spec => []TypeOK
<1>1. QED
    BY TypeInit, TypeStep, PTL DEF Spec

-----------------------------------------------------------------------------
(* What a merge does to the status and the conclusion                        *)

LEMMA RankValues ==
    /\ StatusRank(Absent) = 0
    /\ StatusRank("queued") = 1
    /\ StatusRank("in_progress") = 2
    /\ StatusRank(Completed) = 3
BY DEF StatusRank, NotStarted

LEMMA RankType == \A status \in Statuses : StatusRank(status) \in 0..3
BY RankValues DEF Statuses

\* The greater of the two ranks wins; a terminal conclusion is the row's own
\* or the update's.
LEMMA MergeRunProgress ==
    ASSUME NEW row \in RunRow, NEW update,
           update.status \in Statuses, update.status # Absent,
           NEW authoritative \in BOOLEAN,
           NEW merged, merged = MergeRun(row, update, authoritative)
    PROVE  /\ merged.status \in {row.status, update.status}
           /\ StatusRank(merged.status) >= StatusRank(row.status)
           /\ StatusRank(merged.status) >= StatusRank(update.status)
           /\ merged.status = Completed =>
                 \/ /\ row.status = Completed
                    /\ merged.conclusion = row.conclusion
                 \/ /\ update.status = Completed
                    /\ merged.conclusion = update.conclusion
<1>1. row.status \in Statuses
    BY DEF RunRow
<1>2. CASE row.status = Absent
    BY <1>2, RankValues, RankType DEF MergeRun, RunRow, Statuses
<1>3. CASE row.status # Absent
    <2>1. /\ merged.status = AdvancedStatus(row, update)
          /\ merged.conclusion = AdvancedConclusion(row, update, authoritative)
        BY <1>3 DEF MergeRun, RunRow
    <2>2. /\ StatusRank(row.status) \in 1..3
          /\ StatusRank(update.status) \in 1..3
          /\ StatusRank(row.status) = 3 <=> row.status = Completed
          /\ StatusRank(update.status) = 3 <=> update.status = Completed
        BY <1>1, <1>3, RankValues DEF Statuses
    <2>3. /\ \/ merged.conclusion = row.conclusion
             \/ /\ merged.conclusion = update.conclusion
                /\ \/ StatusRank(update.status) > StatusRank(row.status)
                   \/ row.status = Completed /\ update.status = Completed
          /\ StatusRank(update.status) > StatusRank(row.status) =>
                merged.conclusion = update.conclusion
        BY <2>1, Zenon DEF AdvancedConclusion
    <2>4. CASE StatusRank(update.status) >= StatusRank(row.status)
        BY <2>1, <2>2, <2>3, <2>4 DEF AdvancedStatus
    <2>5. CASE StatusRank(update.status) < StatusRank(row.status)
        BY <2>1, <2>2, <2>3, <2>5 DEF AdvancedStatus
    <2>6. QED
        BY <2>2, <2>4, <2>5
<1>4. QED
    BY <1>2, <1>3

LEMMA MergeJobProgress ==
    ASSUME NEW row \in JobRow, NEW update,
           update.status \in Statuses, update.status # Absent,
           NEW authoritative \in BOOLEAN,
           NEW merged, merged = MergeJob(row, update, authoritative)
    PROVE  /\ merged.status \in {row.status, update.status}
           /\ StatusRank(merged.status) >= StatusRank(row.status)
           /\ StatusRank(merged.status) >= StatusRank(update.status)
           /\ merged.status = Completed =>
                 \/ /\ row.status = Completed
                    /\ merged.conclusion = row.conclusion
                 \/ /\ update.status = Completed
                    /\ merged.conclusion = update.conclusion
<1>1. row.status \in Statuses
    BY DEF JobRow
<1>2. CASE row.status = Absent
    BY <1>2, RankValues, RankType DEF MergeJob, JobRow, Statuses
<1>3. CASE row.status # Absent
    <2>1. /\ merged.status = AdvancedStatus(row, update)
          /\ merged.conclusion = AdvancedConclusion(row, update, authoritative)
        BY <1>3 DEF MergeJob, JobRow
    <2>2. /\ StatusRank(row.status) \in 1..3
          /\ StatusRank(update.status) \in 1..3
          /\ StatusRank(row.status) = 3 <=> row.status = Completed
          /\ StatusRank(update.status) = 3 <=> update.status = Completed
        BY <1>1, <1>3, RankValues DEF Statuses
    <2>3. /\ \/ merged.conclusion = row.conclusion
             \/ /\ merged.conclusion = update.conclusion
                /\ \/ StatusRank(update.status) > StatusRank(row.status)
                   \/ row.status = Completed /\ update.status = Completed
          /\ StatusRank(update.status) > StatusRank(row.status) =>
                merged.conclusion = update.conclusion
        BY <2>1, Zenon DEF AdvancedConclusion
    <2>4. CASE StatusRank(update.status) >= StatusRank(row.status)
        BY <2>1, <2>2, <2>3, <2>4 DEF AdvancedStatus
    <2>5. CASE StatusRank(update.status) < StatusRank(row.status)
        BY <2>1, <2>2, <2>3, <2>5 DEF AdvancedStatus
    <2>6. QED
        BY <2>2, <2>4, <2>5
<1>4. QED
    BY <1>2, <1>3

\* A stub never finishes a run.
LEMMA StubProgress ==
    ASSUME NEW update, update.status \in Statuses, update.status # Absent
    PROVE  /\ RunStub(update).status \in {"queued", "in_progress"}
           /\ RunStub(update).conclusion = NoConclusion
BY RankValues DEF RunStub, Statuses

LEMMA EventFields ==
    ASSUME NEW progress
    PROVE  /\ \A r \in Runs : /\ RunEvent(r, progress).kind = "run"
                              /\ RunEvent(r, progress).key = r
                              /\ RunEvent(r, progress).status = progress.status
           /\ \A j \in Jobs : /\ JobEvent(j, progress).kind = "job"
                              /\ JobEvent(j, progress).key = j
                              /\ JobEvent(j, progress).status = progress.status
BY DEF RunEvent, JobEvent

LEMMA StubRank ==
    ASSUME NEW update, update.status \in Statuses
    PROVE  /\ RunStub(update).status \in Statuses
           /\ StatusRank(RunStub(update).status) =
                 IF StatusRank(update.status) >= 2 THEN 2
                 ELSE StatusRank(update.status)
BY RankValues DEF RunStub, Statuses

LEMMA ProgressRanks ==
    /\ StatusRank(NoProgress.status) = 0
    /\ StatusRank(Queued.status) = 1
    /\ StatusRank(InProgress.status) = 2
    /\ \A c \in Conclusions : StatusRank(Done(c).status) = 3
    /\ Queued.status # Absent /\ InProgress.status # Absent
    /\ Queued.status # Completed /\ InProgress.status # Completed
    /\ \A c \in Conclusions : Done(c).status # Absent
<1>1. /\ NoProgress.status = Absent
      /\ Queued.status = "queued"
      /\ InProgress.status = "in_progress"
      /\ \A c \in Conclusions : Done(c).status = Completed
    BY DEF NoProgress, Queued, InProgress, Done
<1>2. QED
    BY <1>1, RankValues

-----------------------------------------------------------------------------
(* The store is never ahead of GitHub                                        *)

LEMMA NeverAheadInit == Init => NeverAheadInv
<1> SUFFICES ASSUME Init
             PROVE  NeverAheadInv
    OBVIOUS
<1>1. /\ \A r \in Runs : runs[r].status = Absent /\ ghRun[r].status = Absent
      /\ \A j \in Jobs : jobs[j].status = Absent /\ ghJob[j].status = Absent
    BY DEF Init, NoRunRow, NoJobRow, NoProgress
<1>2. NeverAhead
    BY <1>1, RankValues DEF NeverAhead, RunWithin, JobWithin
<1>3. GitHubAnnounced
    BY <1>1 DEF GitHubAnnounced
<1>4. EventsSound
    BY DEF Init, EventsSound
<1>5. ReadsSound /\ ReadApplied
    BY DEF Init, ReadsSound, ReadApplied, Nothing
<1>6. DueKnown
    BY DEF Init, DueKnown
<1>7. QED
    BY <1>2, <1>3, <1>4, <1>5, <1>6 DEF NeverAheadInv

\* GitHub only gets further, and nothing it has sent is unsent.
GitHubForward ==
    /\ \A r \in Runs : StatusRank(ghRun'[r].status) >= StatusRank(ghRun[r].status)
    /\ \A j \in Jobs : StatusRank(ghJob'[j].status) >= StatusRank(ghJob[j].status)
    /\ sent \subseteq sent'

\* What is within GitHub's state stays so while GitHub only gets further.
LEMMA WithinKept ==
    ASSUME TypeOK, TypeOK', GitHubForward
    PROVE  /\ \A r \in Runs : \A said :
                 said.status \in Statuses /\ RunWithin(r, said) => RunWithin(r, said)'
           /\ \A j \in Jobs : \A said :
                 said.status \in Statuses /\ JobWithin(j, said) => JobWithin(j, said)'
<1>1. ASSUME NEW r \in Runs, NEW said, said.status \in Statuses,
             RunWithin(r, said)
      PROVE  RunWithin(r, said)'
    <2>1. /\ StatusRank(said.status) \in 0..3
          /\ StatusRank(ghRun[r].status) \in 0..3
          /\ StatusRank(ghRun'[r].status) \in 0..3
        BY <1>1, RankType DEF TypeOK, Progress
    <2>2. StatusRank(said.status) <= StatusRank(ghRun'[r].status)
        BY <1>1, <2>1 DEF RunWithin, GitHubForward
    <2>3. QED
        BY <1>1, <2>2 DEF RunWithin, GitHubForward, RunEvent
<1>2. ASSUME NEW j \in Jobs, NEW said, said.status \in Statuses,
             JobWithin(j, said)
      PROVE  JobWithin(j, said)'
    <2>1. /\ StatusRank(said.status) \in 0..3
          /\ StatusRank(ghJob[j].status) \in 0..3
          /\ StatusRank(ghJob'[j].status) \in 0..3
        BY <1>2, RankType DEF TypeOK, Progress
    <2>2. StatusRank(said.status) <= StatusRank(ghJob'[j].status)
        BY <1>2, <2>1 DEF JobWithin, GitHubForward
    <2>3. QED
        BY <1>2, <2>2 DEF JobWithin, GitHubForward, JobEvent
<1>3. QED
    BY <1>1, <1>2

\* GitHub's state is announced and its announcements are sound, whatever moved,
\* when everything that moved is announced and what is announced holds.
LEMMA AnnouncedSound ==
    ASSUME TypeOK, TypeOK', GitHubForward, GitHubAnnounced, EventsSound,
           NEW new,
           sent' = sent \union new,
           \A m \in new : EventSound(m)',
           \A r \in Runs : ghRun'[r] = ghRun[r] \/ RunEvent(r, ghRun'[r]) \in new,
           \A j \in Jobs : ghJob'[j] = ghJob[j] \/ JobEvent(j, ghJob'[j]) \in new
    PROVE  GitHubAnnounced' /\ EventsSound'
<1>1. GitHubAnnounced'
    BY DEF GitHubAnnounced, RunEvent, JobEvent
<1>2. ASSUME NEW m \in sent
      PROVE  EventSound(m)'
    <2>1. m.status \in Statuses /\ EventSound(m)
        BY DEF TypeOK, Delivery, EventsSound
    <2>2. CASE m.kind = "run"
        <3>1. m \in Delivery /\ m.key \in Runs
            BY <2>2 DEF TypeOK, Delivery
        <3>2. QED
            BY <2>1, <2>2, <3>1, WithinKept DEF EventSound
    <2>3. CASE m.kind = "job"
        <3>1. m \in Delivery /\ m.key \in Jobs
            BY <2>3 DEF TypeOK, Delivery
        <3>2. RunOf[m.key] \in Runs
            BY <3>1, RunOfAssumption
        <3>3. /\ StatusRank(RunStub(m).status) \in 0..3
              /\ StatusRank(ghRun[RunOf[m.key]].status) \in 0..3
              /\ StatusRank(ghRun'[RunOf[m.key]].status) \in 0..3
            BY <2>1, <3>2, StubRank, RankType DEF TypeOK, Progress
        <3>4. JobWithin(m.key, m)'
            BY <2>1, <2>3, <3>1, WithinKept DEF EventSound
        <3>5. StatusRank(RunStub(m).status) <= StatusRank(ghRun'[RunOf[m.key]].status)
            BY <2>1, <2>3, <3>2, <3>3 DEF EventSound, GitHubForward
        <3>6. QED
            BY <2>1, <2>3, <3>4, <3>5 DEF EventSound
    <2>4. QED
        BY <2>2, <2>3 DEF TypeOK, Delivery
<1>3. QED
    BY <1>1, <1>2 DEF EventsSound

\* A run of GitHub's moves forward and says so.
LEMMA RunMoves ==
    ASSUME TypeOK, TypeOK', GitHubAnnounced, EventsSound,
           NEW r \in Runs, NEW progress \in Progress,
           progress.status # Absent,
           StatusRank(progress.status) >= StatusRank(ghRun[r].status),
           ghRun' = [ghRun EXCEPT ![r] = progress],
           ghJob' = ghJob,
           sent' = sent \union {RunEvent(r, progress)}
    PROVE  GitHubForward /\ GitHubAnnounced' /\ EventsSound'
<1>1. GitHubForward
    <2>1. \A q \in Runs : /\ StatusRank(ghRun[q].status) \in 0..3
                          /\ ghRun'[q] = IF q = r THEN progress ELSE ghRun[q]
        BY RankType DEF TypeOK, Progress
    <2>2. \A j \in Jobs : StatusRank(ghJob[j].status) \in 0..3
        BY RankType DEF TypeOK, Progress
    <2>3. QED
        BY <2>1, <2>2 DEF GitHubForward
<1>2. EventSound(RunEvent(r, progress))'
    <2>1. StatusRank(progress.status) \in 0..3
        BY RankType DEF Progress
    <2>2. ghRun'[r] = progress
        BY DEF TypeOK
    <2>3. RunWithin(r, RunEvent(r, progress))'
        BY <2>1, <2>2 DEF RunWithin, RunEvent
    <2>4. QED
        BY <2>3 DEF EventSound, RunEvent
<1>3. \A q \in Runs : ghRun'[q] = ghRun[q] \/ RunEvent(q, ghRun'[q]) \in {RunEvent(r, progress)}
    BY DEF TypeOK
<1>4. QED
    BY <1>1, <1>2, <1>3, AnnouncedSound

\* A job of GitHub's moves forward and says so, and its run is, or becomes and
\* is said to be, as far along as the job says.
LEMMA JobMoves ==
    ASSUME TypeOK, TypeOK', GitHubAnnounced, EventsSound,
           NEW j \in Jobs, NEW progress \in Progress, NEW new,
           progress.status # Absent,
           StatusRank(progress.status) >= StatusRank(ghJob[j].status),
           ghJob' = [ghJob EXCEPT ![j] = progress],
           \/ ghRun' = ghRun /\ new = {JobEvent(j, progress)}
           \/ /\ ghRun[RunOf[j]] \in {Queued, InProgress}
              /\ ghRun' = [ghRun EXCEPT ![RunOf[j]] = InProgress]
              /\ new = {JobEvent(j, progress), RunEvent(RunOf[j], InProgress)},
           sent' = sent \union new,
           StatusRank(RunStub(progress).status) <= StatusRank(ghRun'[RunOf[j]].status)
    PROVE  GitHubForward /\ GitHubAnnounced' /\ EventsSound'
<1> DEFINE run == RunOf[j]
<1>1. /\ run \in Runs
      /\ ghJob'[j] = progress
      /\ progress.status \in Statuses
    BY RunOfAssumption DEF TypeOK, Progress
<1>2. GitHubForward
    <2>1. \A q \in Runs : StatusRank(ghRun[q].status) \in 0..3
        BY RankType DEF TypeOK, Progress
    <2>2. \A i \in Jobs : /\ StatusRank(ghJob[i].status) \in 0..3
                          /\ ghJob'[i] = IF i = j THEN progress ELSE ghJob[i]
        BY RankType DEF TypeOK, Progress
    <2>3. \A q \in Runs : StatusRank(ghRun'[q].status) >= StatusRank(ghRun[q].status)
        <3>1. CASE ghRun' = ghRun
            BY <2>1, <3>1
        <3>2. CASE /\ ghRun[run] \in {Queued, InProgress}
                   /\ ghRun' = [ghRun EXCEPT ![run] = InProgress]
            <4>1. StatusRank(ghRun[run].status) \in {1, 2}
                BY <3>2, ProgressRanks
            <4>2. StatusRank(InProgress.status) = 2
                BY ProgressRanks
            <4>3. \A q \in Runs : ghRun'[q] = IF q = run THEN InProgress ELSE ghRun[q]
                BY <3>2 DEF TypeOK
            <4>4. QED
                BY <2>1, <4>1, <4>2, <4>3
        <3>3. QED
            BY <3>1, <3>2
    <2>4. QED
        BY <2>2, <2>3 DEF GitHubForward
<1>3. EventSound(JobEvent(j, progress))'
    <2>1. StatusRank(progress.status) \in 0..3
        BY <1>1, RankType
    <2>2. JobWithin(j, JobEvent(j, progress))'
        BY <1>1, <2>1 DEF JobWithin, JobEvent
    <2>3. RunStub(JobEvent(j, progress)).status = RunStub(progress).status
        BY DEF RunStub, JobEvent
    <2>4. QED
        BY <2>2, <2>3 DEF EventSound, JobEvent
<1>4. CASE ghRun' = ghRun /\ new = {JobEvent(j, progress)}
    <2>1. \A i \in Jobs : ghJob'[i] = ghJob[i] \/ JobEvent(i, ghJob'[i]) \in new
        BY <1>4 DEF TypeOK
    <2>2. QED
        BY <1>2, <1>3, <1>4, <2>1, AnnouncedSound
<1>5. CASE /\ ghRun' = [ghRun EXCEPT ![run] = InProgress]
           /\ new = {JobEvent(j, progress), RunEvent(run, InProgress)}
    <2>1. \A i \in Jobs : ghJob'[i] = ghJob[i] \/ JobEvent(i, ghJob'[i]) \in new
        BY <1>5 DEF TypeOK
    <2>2. \A q \in Runs : ghRun'[q] = ghRun[q] \/ RunEvent(q, ghRun'[q]) \in new
        BY <1>5 DEF TypeOK
    <2>3. ghRun'[run] = InProgress
        BY <1>1, <1>5 DEF TypeOK
    <2>4. RunWithin(run, RunEvent(run, InProgress))'
        BY <2>3, ProgressRanks DEF RunWithin, RunEvent
    <2>5. EventSound(RunEvent(run, InProgress))'
        BY <2>4 DEF EventSound, RunEvent, InProgress
    <2>6. QED
        BY <1>2, <1>3, <1>5, <2>1, <2>2, <2>5, AnnouncedSound
<1>6. QED
    BY <1>4, <1>5

LEMMA GitHubSteps ==
    ASSUME TypeOK, TypeOK', GitHubAnnounced, EventsSound, GitHub
    PROVE  GitHubForward /\ GitHubAnnounced' /\ EventsSound'
<1>1. ASSUME NEW r \in Runs, CreateRun(r)
      PROVE  GitHubForward /\ GitHubAnnounced' /\ EventsSound'
    <2>1. /\ Queued \in Progress
          /\ Queued.status # Absent
          /\ StatusRank(Queued.status) >= StatusRank(ghRun[r].status)
        BY <1>1, ProgressType, ProgressRanks DEF CreateRun
    <2>2. QED
        BY <1>1, <2>1, RunMoves DEF CreateRun
<1>2. ASSUME NEW r \in Runs, DeleteRun(r)
      PROVE  GitHubForward /\ GitHubAnnounced' /\ EventsSound'
    <2>1. /\ \A q \in Runs : StatusRank(ghRun[q].status) \in 0..3
          /\ \A j \in Jobs : StatusRank(ghJob[j].status) \in 0..3
        BY RankType DEF TypeOK, Progress
    <2>2. GitHubForward
        BY <1>2, <2>1 DEF DeleteRun, GitHubForward
    <2>3. PICK new : new = {}
        OBVIOUS
    <2>4. /\ sent' = sent \union new
          /\ \A m \in new : EventSound(m)'
          /\ \A q \in Runs : ghRun'[q] = ghRun[q]
          /\ \A j \in Jobs : ghJob'[j] = ghJob[j]
        BY <1>2, <2>3 DEF DeleteRun
    <2>5. QED
        BY <2>2, <2>4, AnnouncedSound
<1>3. ASSUME NEW j \in Jobs, CreateJob(j)
      PROVE  GitHubForward /\ GitHubAnnounced' /\ EventsSound'
    <2>1. /\ Queued \in Progress
          /\ Queued.status # Absent
          /\ StatusRank(Queued.status) >= StatusRank(ghJob[j].status)
        BY <1>3, ProgressType, ProgressRanks DEF CreateJob
    <2>2. /\ StatusRank(RunStub(Queued).status) = 1
          /\ StatusRank(ghRun[RunOf[j]].status) \in {1, 2}
        BY <1>3, ProgressType, ProgressRanks, StubRank DEF CreateJob, Progress
    <2>3. StatusRank(RunStub(Queued).status) <= StatusRank(ghRun'[RunOf[j]].status)
        BY <1>3, <2>2 DEF CreateJob
    <2>4. QED
        BY <1>3, <2>1, <2>3, JobMoves DEF CreateJob
<1>4. ASSUME NEW j \in Jobs, NEW progress \in Progress, AdvanceJob(j, progress),
             progress.status # Absent,
             StatusRank(progress.status) >= StatusRank(ghJob[j].status)
      PROVE  GitHubForward /\ GitHubAnnounced' /\ EventsSound'
    <2>1. ghRun'[RunOf[j]] = InProgress
        BY <1>4, RunOfAssumption DEF AdvanceJob, TypeOK
    <2>2. StatusRank(RunStub(progress).status) \in 0..2
        BY StubRank, RankType DEF Progress
    <2>3. StatusRank(RunStub(progress).status) <= StatusRank(ghRun'[RunOf[j]].status)
        BY <2>1, <2>2, ProgressRanks
    <2>4. QED
        BY <1>4, <2>3, JobMoves DEF AdvanceJob
<1>5. ASSUME NEW j \in Jobs, StartJob(j)
      PROVE  GitHubForward /\ GitHubAnnounced' /\ EventsSound'
    <2>1. /\ InProgress \in Progress
          /\ InProgress.status # Absent
          /\ StatusRank(InProgress.status) >= StatusRank(ghJob[j].status)
        BY <1>5, ProgressType, ProgressRanks DEF StartJob
    <2>2. QED
        BY <1>4, <1>5, <2>1 DEF StartJob
<1>6. ASSUME NEW j \in Jobs, NEW c \in Conclusions, FinishJob(j, c)
      PROVE  GitHubForward /\ GitHubAnnounced' /\ EventsSound'
    <2>1. /\ Done(c) \in Progress
          /\ Done(c).status # Absent
          /\ StatusRank(Done(c).status) >= StatusRank(ghJob[j].status)
        BY <1>6, ProgressType, ProgressRanks DEF FinishJob
    <2>2. QED
        BY <1>4, <1>6, <2>1 DEF FinishJob
<1>7. ASSUME NEW r \in Runs, NEW c \in Conclusions, FinishRun(r, c) \/ ReviseRun(r, c)
      PROVE  GitHubForward /\ GitHubAnnounced' /\ EventsSound'
    <2>1. /\ Done(c) \in Progress
          /\ Done(c).status # Absent
        BY ProgressType, ProgressRanks
    <2>2. StatusRank(Done(c).status) >= StatusRank(ghRun[r].status)
        BY <1>7, RankValues, ProgressRanks DEF FinishRun, ReviseRun
    <2>3. QED
        BY <1>7, <2>1, <2>2, RunMoves DEF FinishRun, ReviseRun
<1>8. QED
    BY <1>1, <1>2, <1>3, <1>5, <1>6, <1>7 DEF GitHub

\* Merging what is within GitHub's state leaves a row within it.
LEMMA RunRowWithin ==
    ASSUME TypeOK, NEW r \in Runs, NEW row \in RunRow, NEW update,
           update.status \in Statuses, update.status # Absent,
           NEW authoritative \in BOOLEAN,
           RunWithin(r, row), RunWithin(r, update),
           NEW merged, merged = MergeRun(row, update, authoritative)
    PROVE  RunWithin(r, merged)
<1>1. /\ merged.status \in {row.status, update.status}
      /\ merged.status = Completed =>
            \/ row.status = Completed /\ merged.conclusion = row.conclusion
            \/ update.status = Completed /\ merged.conclusion = update.conclusion
    BY MergeRunProgress
<1>2. merged.status = Completed => RunEvent(r, merged) \in sent
    BY <1>1 DEF RunWithin, RunEvent
<1>3. StatusRank(merged.status) <= StatusRank(ghRun[r].status)
    BY <1>1 DEF RunWithin
<1>4. QED
    BY <1>2, <1>3 DEF RunWithin

LEMMA JobRowWithin ==
    ASSUME TypeOK, NEW j \in Jobs, NEW row \in JobRow, NEW update,
           update.status \in Statuses, update.status # Absent,
           NEW authoritative \in BOOLEAN,
           JobWithin(j, row), JobWithin(j, update),
           NEW merged, merged = MergeJob(row, update, authoritative)
    PROVE  JobWithin(j, merged)
<1>1. /\ merged.status \in {row.status, update.status}
      /\ merged.status = Completed =>
            \/ row.status = Completed /\ merged.conclusion = row.conclusion
            \/ update.status = Completed /\ merged.conclusion = update.conclusion
    BY MergeJobProgress
<1>2. merged.status = Completed => JobEvent(j, merged) \in sent
    BY <1>1 DEF JobWithin, JobEvent
<1>3. StatusRank(merged.status) <= StatusRank(ghJob[j].status)
    BY <1>1 DEF JobWithin
<1>4. QED
    BY <1>2, <1>3 DEF JobWithin

\* An update without a conclusion that is no further along than the row leaves
\* the row's status and conclusion where they were.
LEMMA QuietUpdate ==
    ASSUME TypeOK, NEW r \in Runs, NEW row \in RunRow, NEW update,
           update.status \in Statuses, update.status # Absent,
           update.conclusion = NoConclusion,
           StatusRank(update.status) <= StatusRank(row.status),
           NEW authoritative \in BOOLEAN,
           RunWithin(r, row),
           NEW merged, merged = MergeRun(row, update, authoritative)
    PROVE  RunWithin(r, merged)
<1>1. /\ row.status # Absent
      /\ StatusRank(row.status) \in 1..3
      /\ StatusRank(update.status) \in 1..3
      /\ row.status \in Statuses
      /\ StatusRank(row.status) = 3 => row.status = Completed
    BY RankValues DEF Statuses, RunRow
<1>2. ~(StatusRank(update.status) > StatusRank(row.status))
    BY <1>1
<1>3. merged.conclusion = row.conclusion
    <2>1. merged.conclusion = AdvancedConclusion(row, update, authoritative)
        BY <1>1 DEF MergeRun, RunRow
    <2>2. QED
        BY <1>2, <2>1, Zenon DEF AdvancedConclusion
<1>4. merged.status \in {row.status, update.status}
    BY MergeRunProgress
<1>5. merged.status = Completed => row.status = Completed
    BY <1>1, <1>4, RankValues
<1>6. merged.status = Completed => RunEvent(r, merged) \in sent
    BY <1>3, <1>5 DEF RunWithin, RunEvent
<1>7. StatusRank(ghRun[r].status) \in 0..3
    BY RankType DEF TypeOK, Progress
<1>8. StatusRank(merged.status) <= StatusRank(ghRun[r].status)
    BY <1>1, <1>4, <1>7 DEF RunWithin
<1>9. QED
    BY <1>6, <1>8 DEF RunWithin

\* A run is as far along as any of its jobs says.
LEMMA JobWithinRun ==
    ASSUME TypeOK, GitHubAnnounced, EventsSound,
           NEW j \in Jobs, NEW said, said.status \in Statuses, JobWithin(j, said)
    PROVE  StatusRank(RunStub(said).status) <= StatusRank(ghRun[RunOf[j]].status)
<1>1. /\ StatusRank(said.status) \in 0..3
      /\ StatusRank(ghJob[j].status) \in 0..3
      /\ ghJob[j].status \in Statuses
      /\ StatusRank(ghRun[RunOf[j]].status) \in 0..3
    BY RankType, RunOfAssumption DEF TypeOK, Progress
<1>2. StatusRank(RunStub(said).status) <= StatusRank(RunStub(ghJob[j]).status)
    BY <1>1, StubRank DEF JobWithin
<1>3. CASE ghJob[j].status = Absent
    <2>1. StatusRank(RunStub(ghJob[j]).status) = 0
        BY <1>1, <1>3, StubRank, RankValues
    <2>2. QED
        BY <1>1, <1>2, <2>1, StubRank
<1>4. CASE ghJob[j].status # Absent
    <2>1. EventSound(JobEvent(j, ghJob[j]))
        BY <1>4 DEF GitHubAnnounced, EventsSound
    <2>2. RunStub(JobEvent(j, ghJob[j])).status = RunStub(ghJob[j]).status
        BY DEF RunStub, JobEvent
    <2>3. StatusRank(RunStub(ghJob[j]).status) <= StatusRank(ghRun[RunOf[j]].status)
        BY <2>1, <2>2 DEF EventSound, JobEvent
    <2>4. QED
        BY <1>1, <1>2, <2>3, StubRank
<1>5. QED
    BY <1>3, <1>4

\* A stub the run is as far along as is within the run.
LEMMA StubWithin ==
    ASSUME NEW r \in Runs, NEW said, said.status \in Statuses, said.status # Absent,
           StatusRank(RunStub(said).status) <= StatusRank(ghRun[r].status)
    PROVE  RunWithin(r, RunStub(said))
BY StubProgress DEF RunWithin

LEMMA GitHubKeepsNeverAhead ==
    ASSUME TypeOK, TypeOK', NeverAheadInv, GitHub
    PROVE  NeverAheadInv'
<1>1. GitHubForward /\ GitHubAnnounced' /\ EventsSound'
    BY GitHubSteps DEF NeverAheadInv
<1>2. UNCHANGED <<storeVars, recVars>>
    BY DEF GitHub
<1>3. NeverAhead'
    <2>1. \A r \in Runs : RunWithin(r, runs[r])'
        BY <1>1, <1>2, WithinKept DEF NeverAheadInv, NeverAhead, TypeOK, RunRow, storeVars
    <2>2. \A j \in Jobs : JobWithin(j, jobs[j])'
        BY <1>1, <1>2, WithinKept DEF NeverAheadInv, NeverAhead, TypeOK, JobRow, storeVars
    <2>3. QED
        BY <2>1, <2>2 DEF NeverAhead
<1>4. ReadsSound'
    <2>1. \A r \in DOMAIN read : read[r].status \in Statuses /\ r \in Runs
        BY DEF TypeOK, RunUpdate
    <2>2. \A j \in DOMAIN jobsRead : jobsRead[j].status \in Statuses /\ j \in Jobs
        BY DEF TypeOK, Progress
    <2>3. QED
        BY <1>1, <1>2, <2>1, <2>2, WithinKept DEF NeverAheadInv, ReadsSound, recVars
<1>5. ReadApplied'
    BY <1>2 DEF NeverAheadInv, ReadApplied, recVars, storeVars
<1>6. DueKnown'
    BY <1>2 DEF NeverAheadInv, DueKnown, recVars, storeVars
<1>7. QED
    BY <1>1, <1>3, <1>4, <1>5, <1>6 DEF NeverAheadInv

\* No row moves back, and every row stays within GitHub's state.
StoreForward ==
    /\ \A r \in Runs : /\ StatusRank(runs'[r].status) >= StatusRank(runs[r].status)
                       /\ RunWithin(r, runs'[r])
    /\ \A j \in Jobs : /\ StatusRank(jobs'[j].status) >= StatusRank(jobs[j].status)
                       /\ JobWithin(j, jobs'[j])

\* A step of the service that moves the store forward, and drops or keeps what
\* was read, preserves the invariant.
LEMMA ServiceKeeps ==
    ASSUME TypeOK, TypeOK', NeverAheadInv, UNCHANGED ghVars, StoreForward
    PROVE  NeverAhead' /\ GitHubAnnounced' /\ EventsSound'
<1>1. NeverAhead'
    BY DEF NeverAhead, StoreForward, RunWithin, JobWithin, ghVars
<1>2. GitHubAnnounced'
    BY DEF NeverAheadInv, GitHubAnnounced, ghVars
<1>3. EventsSound'
    BY DEF NeverAheadInv, EventsSound, EventSound, RunWithin, JobWithin, ghVars
<1>4. QED
    BY <1>1, <1>2, <1>3

LEMMA RanksKept ==
    ASSUME TypeOK
    PROVE  /\ \A r \in Runs : StatusRank(runs[r].status) >= StatusRank(runs[r].status)
           /\ \A j \in Jobs : StatusRank(jobs[j].status) >= StatusRank(jobs[j].status)
<1>1. /\ \A r \in Runs : StatusRank(runs[r].status) \in 0..3
      /\ \A j \in Jobs : StatusRank(jobs[j].status) \in 0..3
    BY RankType DEF TypeOK, RunRow, JobRow
<1>2. QED
    BY <1>1

\* A step that writes neither table.
LEMMA StoreIdle ==
    ASSUME TypeOK, NeverAhead, UNCHANGED <<runs, jobs>>
    PROVE  StoreForward
BY RanksKept DEF NeverAhead, StoreForward

\* The merge of one update into one run.
LEMMA OneRunMerged ==
    ASSUME TypeOK, NeverAhead,
           NEW r \in Runs, NEW update, NEW authoritative \in BOOLEAN,
           update.status \in Statuses, update.status # Absent,
           \/ RunWithin(r, update)
           \/ /\ update.conclusion = NoConclusion
              /\ StatusRank(update.status) <= StatusRank(runs[r].status),
           runs' = [runs EXCEPT ![r] = MergeRun(@, update, authoritative)]
    PROVE  /\ \A q \in Runs : /\ StatusRank(runs'[q].status) >= StatusRank(runs[q].status)
                              /\ RunWithin(q, runs'[q])
           /\ StatusRank(runs'[r].status) >= StatusRank(update.status)
<1>1. runs[r] \in RunRow /\ RunWithin(r, runs[r])
    BY DEF TypeOK, NeverAhead
<1>2. runs'[r] = MergeRun(runs[r], update, authoritative)
    BY DEF TypeOK
<1>3. /\ StatusRank(runs'[r].status) >= StatusRank(runs[r].status)
      /\ StatusRank(runs'[r].status) >= StatusRank(update.status)
    BY <1>1, <1>2, MergeRunProgress
<1>4. RunWithin(r, runs'[r])
    BY <1>1, <1>2, RunRowWithin, QuietUpdate
<1>5. \A q \in Runs : q # r => runs'[q] = runs[q]
    BY DEF TypeOK
<1>6. QED
    BY <1>3, <1>4, <1>5, RanksKept DEF NeverAhead

\* The merge of one update into one job.
LEMMA OneJobMerged ==
    ASSUME TypeOK, NeverAhead,
           NEW j \in Jobs, NEW update, NEW authoritative \in BOOLEAN,
           update.status \in Statuses, update.status # Absent,
           JobWithin(j, update),
           NEW merged, merged = MergeJob(jobs[j], update, authoritative)
    PROVE  /\ StatusRank(merged.status) >= StatusRank(jobs[j].status)
           /\ JobWithin(j, merged)
<1>1. jobs[j] \in JobRow /\ JobWithin(j, jobs[j])
    BY DEF TypeOK, NeverAhead
<1>2. StatusRank(merged.status) >= StatusRank(jobs[j].status)
    BY <1>1, MergeJobProgress
<1>3. JobWithin(j, merged)
    BY <1>1, JobRowWithin
<1>4. QED
    BY <1>2, <1>3

\* A run that is due stays on file.
LEMMA DueKnownKept ==
    ASSUME TypeOK, TypeOK', DueKnown, StoreForward, due' \subseteq due \/ SelectDue
    PROVE  DueKnown'
<1>1. ASSUME NEW r \in Runs, Known(runs[r])
      PROVE  Known(runs'[r])
    <2>1. /\ StatusRank(runs'[r].status) >= StatusRank(runs[r].status)
          /\ runs[r].status \in Statuses
          /\ runs[r].status # Absent
        BY <1>1 DEF StoreForward, TypeOK, RunRow, Known
    <2>2. StatusRank(runs[r].status) \in 1..3
        BY <2>1, RankValues DEF Statuses
    <2>3. StatusRank(runs'[r].status) \in 0..3
        BY RankType DEF TypeOK, RunRow
    <2>4. StatusRank(runs'[r].status) # 0
        BY <2>1, <2>2, <2>3
    <2>5. QED
        BY <2>4, RankValues DEF Known
<1>2. CASE due' \subseteq due
    BY <1>1, <1>2 DEF DueKnown, TypeOK
<1>3. CASE SelectDue
    BY <1>1, <1>3 DEF DueKnown, SelectDue, NeedsReconcile
<1>4. QED
    BY <1>2, <1>3

LEMMA DeliverKeepsNeverAhead ==
    ASSUME TypeOK, TypeOK', NeverAheadInv, NEW m \in sent, Deliver(m)
    PROVE  NeverAheadInv' /\ StoreForward
<1> USE DEF NeverAheadInv
<1>1. /\ m \in Delivery
      /\ m.status \in Statuses
      /\ m.status # Absent
      /\ EventSound(m)
    BY DEF TypeOK, Delivery, EventsSound, EventSound
<1>2. UNCHANGED <<ghVars, recVars>>
    BY DEF Deliver
<1>3. StoreForward
    <2>1. CASE /\ m.kind = "run"
               /\ runs' = [runs EXCEPT ![m.key] = MergeRun(@, ParsedRun(m.key, m), FALSE)]
               /\ UNCHANGED jobs
        <3>1. m.key \in Runs
            BY <1>1, <2>1 DEF Delivery
        <3>2. /\ ParsedRun(m.key, m).status = m.status
              /\ ParsedRun(m.key, m).conclusion = m.conclusion
            BY DEF ParsedRun
        <3>3. RunWithin(m.key, ParsedRun(m.key, m))
            BY <1>1, <2>1, <3>2 DEF EventSound, RunWithin, RunEvent
        <3>4. \A q \in Runs : /\ StatusRank(runs'[q].status) >= StatusRank(runs[q].status)
                              /\ RunWithin(q, runs'[q])
            BY <1>1, <2>1, <3>1, <3>2, <3>3, OneRunMerged
        <3>5. QED
            BY <2>1, <3>4, RanksKept DEF StoreForward, NeverAhead
    <2>2. CASE /\ m.kind = "job"
               /\ runs' = [runs EXCEPT ![RunOf[m.key]] = MergeRun(@, RunStub(m), FALSE)]
               /\ jobs' = [jobs EXCEPT ![m.key] = MergeJob(@, m, FALSE)]
        <3>1. m.key \in Jobs /\ RunOf[m.key] \in Runs
            BY <1>1, <2>2, RunOfAssumption DEF Delivery
        <3>2. /\ RunStub(m).status \in Statuses
              /\ RunStub(m).status # Absent
            BY <1>1, StubProgress, StubRank
        <3>3. RunWithin(RunOf[m.key], RunStub(m))
            BY <1>1, <2>2, <3>1, StubWithin DEF EventSound
        <3>4. \A q \in Runs : /\ StatusRank(runs'[q].status) >= StatusRank(runs[q].status)
                              /\ RunWithin(q, runs'[q])
            BY <2>2, <3>1, <3>2, <3>3, OneRunMerged
        <3>5. /\ StatusRank(jobs'[m.key].status) >= StatusRank(jobs[m.key].status)
              /\ JobWithin(m.key, jobs'[m.key])
            <4>1. jobs'[m.key] = MergeJob(jobs[m.key], m, FALSE)
                BY <2>2, <3>1 DEF TypeOK
            <4>2. JobWithin(m.key, m)
                BY <1>1, <2>2 DEF EventSound
            <4>3. QED
                BY <1>1, <3>1, <4>1, <4>2, OneJobMerged
        <3>6. \A j \in Jobs : j # m.key => jobs'[j] = jobs[j]
            BY <2>2 DEF TypeOK
        <3>7. QED
            BY <3>4, <3>5, <3>6, RanksKept DEF StoreForward, NeverAhead
    <2>3. QED
        BY <2>1, <2>2 DEF Deliver
<1>4. ReadsSound'
    BY <1>2 DEF ReadsSound, RunWithin, JobWithin, ghVars, recVars
<1>5. ReadApplied'
    <2>1. CASE pc \in {"list_jobs", "jobs_read", "mark_synced", "find_pr", "pr_read"}
        <3>1. cur \in Runs /\ read[cur].status \in Statuses
            BY <2>1 DEF TypeOK, RunUpdate
        <3>2. /\ StatusRank(runs[cur].status) \in 0..3
              /\ StatusRank(runs'[cur].status) \in 0..3
              /\ StatusRank(read[cur].status) \in 0..3
            BY <3>1, RankType DEF TypeOK, RunRow
        <3>3. StatusRank(runs'[cur].status) >= StatusRank(read[cur].status)
            BY <1>3, <2>1, <3>1, <3>2 DEF StoreForward, ReadApplied
        <3>4. QED
            BY <1>2, <2>1, <3>3 DEF ReadApplied, recVars
    <2>2. QED
        BY <1>2, <2>1 DEF ReadApplied, recVars
<1>6. DueKnown'
    BY <1>2, <1>3, DueKnownKept DEF recVars
<1>7. QED
    BY <1>2, <1>3, <1>4, <1>5, <1>6, ServiceKeeps

\* Nothing read is held: there is nothing to be sound about.
LEMMA RestSound ==
    ASSUME NEW stage \in {"idle", "listing", "select", "next"}, Rest(stage)
    PROVE  ReadsSound' /\ ReadApplied'
BY DEF Rest, Nothing, ReadsSound, ReadApplied

\* What GitHub answers is within GitHub's state.
LEMMA AnswerWithin ==
    ASSUME TypeOK, GitHubAnnounced
    PROVE  /\ \A r \in Runs : ghRun[r].status # Absent =>
                 RunWithin(r, ParsedRun(r, ghRun[r]))
           /\ \A j \in Jobs : ghJob[j].status # Absent => JobWithin(j, ghJob[j])
<1>1. ASSUME NEW r \in Runs, ghRun[r].status # Absent
      PROVE  RunWithin(r, ParsedRun(r, ghRun[r]))
    <2>1. /\ ParsedRun(r, ghRun[r]).status = ghRun[r].status
          /\ ParsedRun(r, ghRun[r]).conclusion = ghRun[r].conclusion
        BY DEF ParsedRun
    <2>2. StatusRank(ghRun[r].status) \in 0..3
        BY RankType DEF TypeOK, Progress
    <2>3. RunEvent(r, ParsedRun(r, ghRun[r])) \in sent
        BY <1>1, <2>1 DEF GitHubAnnounced, RunEvent
    <2>4. QED
        BY <2>1, <2>2, <2>3 DEF RunWithin
<1>2. ASSUME NEW j \in Jobs, ghJob[j].status # Absent
      PROVE  JobWithin(j, ghJob[j])
    <2>1. StatusRank(ghJob[j].status) \in 0..3
        BY RankType DEF TypeOK, Progress
    <2>2. QED
        BY <1>2, <2>1 DEF JobWithin, GitHubAnnounced
<1>3. QED
    BY <1>1, <1>2

\* A bookkeeping mark leaves status and conclusion alone.
LEMMA MarkForward ==
    ASSUME TypeOK, NeverAhead, NEW r \in Runs, UNCHANGED jobs,
           runs'[r].status = runs[r].status,
           runs'[r].conclusion = runs[r].conclusion,
           \A q \in Runs : q # r => runs'[q] = runs[q]
    PROVE  StoreForward
<1>1. RunWithin(r, runs'[r])
    BY DEF NeverAhead, RunWithin, RunEvent
<1>2. QED
    BY <1>1, RanksKept DEF NeverAhead, StoreForward

LEMMA ListingForward ==
    ASSUME TypeOK, NeverAheadInv, NEW next \in {"listing", "select"}, ApplyListing(next)
    PROVE  StoreForward
<1>1. ASSUME NEW r \in Runs
      PROVE  /\ StatusRank(runs'[r].status) >= StatusRank(runs[r].status)
             /\ RunWithin(r, runs'[r])
    <2>1. CASE r \in DOMAIN read
        <3>1. runs'[r] = MergeRun(runs[r], read[r], TRUE)
            BY <2>1 DEF ApplyListing, Reconciled
        <3>2. /\ read[r].status \in Statuses
              /\ read[r].status # Absent
              /\ RunWithin(r, read[r])
            BY <2>1 DEF TypeOK, RunUpdate, NeverAheadInv, ReadsSound, ApplyListing
        <3>3. runs[r] \in RunRow /\ RunWithin(r, runs[r])
            BY DEF TypeOK, NeverAheadInv, NeverAhead
        <3>4. StatusRank(runs'[r].status) >= StatusRank(runs[r].status)
            BY <3>1, <3>2, <3>3, MergeRunProgress
        <3>5. RunWithin(r, runs'[r])
            BY <3>1, <3>2, <3>3, RunRowWithin
        <3>6. QED
            BY <3>4, <3>5
    <2>2. CASE r \notin DOMAIN read
        BY <2>2, RanksKept DEF ApplyListing, NeverAheadInv, NeverAhead
    <2>3. QED
        BY <2>1, <2>2
<1>2. UNCHANGED jobs
    BY DEF ApplyListing
<1>3. QED
    BY <1>1, <1>2, RanksKept DEF StoreForward, NeverAheadInv, NeverAhead

LEMMA JobsForward ==
    ASSUME TypeOK, NeverAheadInv, ApplyJobs
    PROVE  StoreForward
<1>1. /\ cur \in Runs
      /\ \A j \in DOMAIN jobsRead : /\ j \in Jobs
                                    /\ RunOf[j] = cur
                                    /\ jobsRead[j].status \in Statuses
                                    /\ jobsRead[j].status # Absent
                                    /\ JobWithin(j, jobsRead[j])
    BY DEF ApplyJobs, TypeOK, Progress, NeverAheadInv, ReadsSound
<1>2. ASSUME NEW j \in Jobs
      PROVE  /\ StatusRank(jobs'[j].status) >= StatusRank(jobs[j].status)
             /\ JobWithin(j, jobs'[j])
    <2>1. CASE j \in DOMAIN jobsRead
        <3>1. jobs'[j] = MergeJob(jobs[j], jobsRead[j], TRUE)
            BY <2>1 DEF ApplyJobs
        <3>2. QED
            BY <1>1, <2>1, <3>1, OneJobMerged DEF NeverAheadInv
    <2>2. CASE j \notin DOMAIN jobsRead
        BY <2>2, RanksKept DEF ApplyJobs, NeverAheadInv, NeverAhead
    <2>3. QED
        BY <2>1, <2>2
<1>3. ASSUME NEW r \in Runs
      PROVE  /\ StatusRank(runs'[r].status) >= StatusRank(runs[r].status)
             /\ RunWithin(r, runs'[r])
    <2>1. CASE \E j \in DOMAIN jobsRead : StatusRank(jobsRead[j].status) >= 2
        <3>1. PICK j \in DOMAIN jobsRead : StatusRank(jobsRead[j].status) >= 2
            BY <2>1
        <3>2. /\ StatusRank(RunStub(jobsRead[j]).status) = 2
              /\ StatusRank(RunStub(InProgress).status) = 2
            BY <1>1, <3>1, StubRank, ProgressType, ProgressRanks DEF Progress
        <3>3. StatusRank(RunStub(jobsRead[j]).status) <= StatusRank(ghRun[cur].status)
            BY <1>1, JobWithinRun DEF NeverAheadInv
        <3>4. StatusRank(RunStub(InProgress).status) <= StatusRank(ghRun[cur].status)
            BY <3>2, <3>3
        <3>5. /\ RunWithin(cur, RunStub(InProgress))
              /\ RunStub(InProgress).status \in Statuses
              /\ RunStub(InProgress).status # Absent
            BY <1>1, <3>4, StubWithin, StubProgress, StubRank, ProgressType,
               ProgressRanks DEF Progress
        <3>6. runs' = [runs EXCEPT ![cur] = MergeRun(@, RunStub(InProgress), FALSE)]
            BY <2>1 DEF ApplyJobs
        <3>7. QED
            BY <1>1, <3>5, <3>6, OneRunMerged DEF NeverAheadInv
    <2>2. CASE /\ ~ \E j \in DOMAIN jobsRead : StatusRank(jobsRead[j].status) >= 2
               /\ DOMAIN jobsRead # {}
        <3>1. PICK j \in DOMAIN jobsRead : TRUE
            BY <2>2
        <3>2. /\ StatusRank(RunStub(jobsRead[j]).status) = 1
              /\ StatusRank(RunStub(Queued).status) = 1
            <4>1. StatusRank(jobsRead[j].status) \in 1..3
                BY <1>1, RankValues DEF Statuses
            <4>2. ~(StatusRank(jobsRead[j].status) >= 2)
                BY <2>2
            <4>3. QED
                BY <1>1, <4>1, <4>2, StubRank, ProgressType, ProgressRanks DEF Progress
        <3>3. StatusRank(RunStub(jobsRead[j]).status) <= StatusRank(ghRun[cur].status)
            BY <1>1, JobWithinRun DEF NeverAheadInv
        <3>4. StatusRank(RunStub(Queued).status) <= StatusRank(ghRun[cur].status)
            BY <3>2, <3>3
        <3>5. /\ RunWithin(cur, RunStub(Queued))
              /\ RunStub(Queued).status \in Statuses
              /\ RunStub(Queued).status # Absent
            BY <1>1, <3>4, StubWithin, StubProgress, StubRank, ProgressType,
               ProgressRanks DEF Progress
        <3>6. runs' = [runs EXCEPT ![cur] = MergeRun(@, RunStub(Queued), FALSE)]
            BY <2>2 DEF ApplyJobs
        <3>7. QED
            BY <1>1, <3>5, <3>6, OneRunMerged DEF NeverAheadInv
    <2>3. CASE DOMAIN jobsRead = {}
        <3>1. runs' = runs
            BY <2>3 DEF ApplyJobs
        <3>2. QED
            BY <3>1, RanksKept DEF NeverAheadInv, NeverAhead
    <2>4. QED
        BY <2>1, <2>2, <2>3
<1>4. QED
    BY <1>2, <1>3 DEF StoreForward

LEMMA ReconcilerKeepsNeverAhead ==
    ASSUME TypeOK, TypeOK', NeverAheadInv, Reconciler \/ Crash
    PROVE  NeverAheadInv' /\ StoreForward
<1> USE DEF NeverAheadInv
<1>1. ASSUME UNCHANGED ghVars, StoreForward, ReadsSound', ReadApplied'
      PROVE  NeverAheadInv' /\ StoreForward
    <2>1. due' \subseteq due \/ SelectDue
        BY DEF Reconciler, Crash, StartCycle, EndCycle, AbortCycle, ListRuns,
               ApplyListing, ReadRun, RunGone, RefreshFails, ApplyRun, ApplyJobs,
               MarkSynced, ApplyPr, MarkPr, ListJobs, FindPr
    <2>2. QED
        BY <1>1, <2>1, ServiceKeeps, DueKnownKept
<1>2. CASE StartCycle \/ SelectDue \/ EndCycle \/ AbortCycle \/ Crash
           \/ \E r \in Runs : RefreshFails(r)
    <2>1. /\ UNCHANGED <<ghVars, runs, jobs>>
          /\ \E stage \in {"idle", "listing", "select", "next"} : Rest(stage)
        BY <1>2 DEF StartCycle, SelectDue, EndCycle, AbortCycle, Crash,
                    RefreshFails, storeVars
    <2>2. QED
        BY <1>1, <2>1, StoreIdle, RestSound
<1>3. ASSUME NEW listed \in SUBSET Runs, ListRuns(listed)
      PROVE  NeverAheadInv' /\ StoreForward
    <2>1. /\ UNCHANGED <<ghVars, runs, jobs, jobsRead, cur>>
          /\ pc' = "listed"
          /\ DOMAIN read' = listed
          /\ \A r \in listed : /\ read'[r] = ParsedRun(r, ghRun[r])
                               /\ ghRun[r].status # Absent
        BY <1>3 DEF ListRuns, storeVars
    <2>2. \A r \in listed : /\ read'[r].status # Absent
                            /\ RunWithin(r, read'[r])
        BY <2>1, AnswerWithin DEF ParsedRun
    <2>3. ReadsSound'
        BY <2>1, <2>2 DEF ReadsSound, RunWithin, JobWithin, ghVars
    <2>4. ReadApplied'
        BY <2>1 DEF ReadApplied
    <2>5. QED
        BY <1>1, <2>1, <2>3, <2>4, StoreIdle
<1>4. ASSUME NEW next \in {"listing", "select"}, ApplyListing(next)
      PROVE  NeverAheadInv' /\ StoreForward
    <2>1. UNCHANGED ghVars /\ Rest(next)
        BY <1>4 DEF ApplyListing
    <2>2. QED
        BY <1>1, <1>4, <2>1, RestSound, ListingForward
<1>5. ASSUME NEW r \in Runs, ReadRun(r)
      PROVE  NeverAheadInv' /\ StoreForward
    <2>1. /\ UNCHANGED <<ghVars, runs, jobs, jobsRead>>
          /\ pc' = "run_read"
          /\ read' = [q \in {r} |-> ParsedRun(r, ghRun[r])]
        BY <1>5 DEF ReadRun, storeVars
    <2>2. ghRun[r].status # Absent
        <3>1. /\ runs[r].status \in Statuses
              /\ runs[r].status # Absent
              /\ StatusRank(runs[r].status) <= StatusRank(ghRun[r].status)
            BY <1>5 DEF ReadRun, DueKnown, Known, NeverAhead, RunWithin, TypeOK, RunRow
        <3>2. StatusRank(runs[r].status) \in 1..3
            BY <3>1, RankValues DEF Statuses
        <3>3. StatusRank(ghRun[r].status) \in 0..3
            BY RankType DEF TypeOK, Progress
        <3>4. StatusRank(ghRun[r].status) # 0
            BY <3>1, <3>2, <3>3
        <3>5. QED
            BY <3>4, RankValues
    <2>3. read'[r].status # Absent /\ RunWithin(r, read'[r])
        BY <2>1, <2>2, AnswerWithin DEF ParsedRun
    <2>4. DOMAIN jobsRead = {}
        <3>1. cur = NoRun
            BY <1>5 DEF ReadRun, TypeOK
        <3>2. \A j \in DOMAIN jobsRead : RunOf[j] = NoRun /\ RunOf[j] \in Runs
            BY <3>1, RunOfAssumption DEF ReadsSound, TypeOK
        <3>3. QED
            BY <3>2, NoRunAssumption
    <2>5. ReadsSound'
        BY <2>1, <2>3, <2>4 DEF ReadsSound, RunWithin, ghVars
    <2>6. ReadApplied'
        BY <2>1 DEF ReadApplied
    <2>7. QED
        BY <1>1, <2>1, <2>5, <2>6, StoreIdle
<1>6. ASSUME NEW r \in Runs, RunGone(r)
      PROVE  NeverAheadInv' /\ StoreForward
    <2>1. /\ UNCHANGED <<ghVars, jobs>>
          /\ Rest("next")
          /\ runs'[r].status = runs[r].status
          /\ runs'[r].conclusion = runs[r].conclusion
          /\ \A q \in Runs : q # r => runs'[q] = runs[q]
        BY <1>6 DEF RunGone, TypeOK, RunRow
    <2>2. QED
        BY <1>1, <2>1, MarkForward, RestSound
<1>7. CASE MarkPr
    <2>1. /\ UNCHANGED <<ghVars, jobs>>
          /\ cur \in Runs
          /\ Rest("next")
          /\ runs'[cur].status = runs[cur].status
          /\ runs'[cur].conclusion = runs[cur].conclusion
          /\ \A q \in Runs : q # cur => runs'[q] = runs[q]
        BY <1>7 DEF MarkPr, TypeOK, RunRow
    <2>2. QED
        BY <1>1, <2>1, MarkForward, RestSound
<1>8. CASE ApplyRun
    <2>1. /\ UNCHANGED <<ghVars, jobs, cur, read, jobsRead>>
          /\ pc = "run_read" /\ pc' = "list_jobs"
          /\ cur \in Runs /\ cur \in DOMAIN read
          /\ runs' = [runs EXCEPT ![cur] = MergeRun(@, read[cur], TRUE)]
        BY <1>8 DEF ApplyRun, Reconciled, TypeOK
    <2>2. /\ read[cur].status \in Statuses
          /\ read[cur].status # Absent
          /\ RunWithin(cur, read[cur])
        BY <2>1 DEF TypeOK, RunUpdate, ReadsSound
    <2>3. /\ \A q \in Runs : /\ StatusRank(runs'[q].status) >= StatusRank(runs[q].status)
                             /\ RunWithin(q, runs'[q])
          /\ StatusRank(runs'[cur].status) >= StatusRank(read[cur].status)
        BY <2>1, <2>2, OneRunMerged
    <2>4. StoreForward
        BY <2>1, <2>3, RanksKept DEF StoreForward, NeverAhead
    <2>5. ReadsSound'
        BY <2>1 DEF ReadsSound, RunWithin, JobWithin, ghVars
    <2>6. ReadApplied'
        BY <2>1, <2>3 DEF ReadApplied
    <2>7. QED
        BY <1>1, <2>1, <2>4, <2>5, <2>6
<1>9. ASSUME NEW listed \in SUBSET Jobs, NEW all \in BOOLEAN, ListJobs(listed, all)
      PROVE  NeverAheadInv' /\ StoreForward
    <2>1. /\ UNCHANGED <<ghVars, runs, jobs, cur, read>>
          /\ pc = "list_jobs" /\ pc' = "jobs_read"
          /\ DOMAIN jobsRead' = listed
          /\ \A j \in listed : /\ jobsRead'[j] = ghJob[j]
                               /\ RunOf[j] = cur
                               /\ ghJob[j].status # Absent
        BY <1>9 DEF ListJobs, CreatedJobs, JobsOf, storeVars
    <2>2. \A j \in listed : JobWithin(j, jobsRead'[j])
        BY <2>1, AnswerWithin
    <2>3. ReadsSound'
        BY <2>1, <2>2 DEF ReadsSound, RunWithin, JobWithin, ghVars
    <2>4. ReadApplied'
        BY <2>1 DEF ReadApplied
    <2>5. QED
        BY <1>1, <2>1, <2>3, <2>4, StoreIdle
<1>10. CASE ApplyJobs \/ MarkSynced
    <2>1. /\ UNCHANGED <<ghVars>>
          /\ cur \in Runs
          /\ \/ /\ pc' \in {"mark_synced", "find_pr"}
                /\ UNCHANGED <<cur, read, jobsRead>>
             \/ Rest("next")
          /\ pc \in {"jobs_read", "mark_synced"}
        BY <1>10 DEF ApplyJobs, MarkSynced, AfterJobs, TypeOK
    <2>2. StoreForward
        <3>1. CASE ApplyJobs
            BY <3>1, JobsForward
        <3>2. CASE MarkSynced
            <4>1. /\ UNCHANGED jobs
                  /\ runs'[cur].status = runs[cur].status
                  /\ runs'[cur].conclusion = runs[cur].conclusion
                  /\ \A q \in Runs : q # cur => runs'[q] = runs[q]
                BY <2>1, <3>2 DEF MarkSynced, TypeOK, RunRow
            <4>2. QED
                BY <2>1, <4>1, MarkForward
        <3>3. QED
            BY <1>10, <3>1, <3>2
    <2>3. CASE Rest("next")
        BY <1>1, <2>1, <2>2, <2>3, RestSound
    <2>4. CASE pc' \in {"mark_synced", "find_pr"} /\ UNCHANGED <<cur, read, jobsRead>>
        <3>1. ReadsSound'
            BY <2>1, <2>4 DEF ReadsSound, RunWithin, JobWithin, ghVars
        <3>2. /\ StatusRank(runs'[cur].status) >= StatusRank(runs[cur].status)
              /\ StatusRank(runs[cur].status) >= StatusRank(read[cur].status)
            BY <2>1, <2>2 DEF StoreForward, ReadApplied
        <3>3. /\ StatusRank(runs'[cur].status) \in 0..3
              /\ StatusRank(runs[cur].status) \in 0..3
              /\ StatusRank(read[cur].status) \in 0..3
            BY <2>1, RankType DEF TypeOK, RunRow, RunUpdate
        <3>4. StatusRank(runs'[cur].status) >= StatusRank(read[cur].status)
            BY <3>2, <3>3
        <3>5. ReadApplied'
            BY <2>4, <3>4 DEF ReadApplied
        <3>6. QED
            BY <1>1, <2>1, <2>2, <3>1, <3>5
    <2>5. QED
        BY <2>1, <2>3, <2>4
<1>11. ASSUME NEW found \in SUBSET PRs, FindPr(found)
      PROVE  NeverAheadInv' /\ StoreForward
    <2>1. /\ UNCHANGED <<ghVars, runs, jobs, cur, jobsRead>>
          /\ pc = "find_pr"
          /\ cur \in DOMAIN read
          /\ \/ pc' = "mark_pr" /\ DOMAIN read' = {}
             \/ /\ pc' = "pr_read"
                /\ DOMAIN read' = {cur}
                /\ read'[cur].status = read[cur].status
                /\ read'[cur].conclusion = NoConclusion
        BY <1>11 DEF FindPr, Nothing, TypeOK, storeVars
    <2>2. ReadsSound'
        BY <2>1 DEF ReadsSound, JobWithin, ghVars
    <2>3. ReadApplied'
        BY <2>1 DEF ReadApplied
    <2>4. QED
        BY <1>1, <2>1, <2>2, <2>3, StoreIdle
<1>12. CASE ApplyPr
    <2>1. /\ UNCHANGED <<ghVars, jobs, cur, jobsRead>>
          /\ pc = "pr_read" /\ pc' = "mark_pr"
          /\ cur \in Runs /\ cur \in DOMAIN read
          /\ DOMAIN read' = {}
          /\ runs' = [runs EXCEPT ![cur] = MergeRun(@, read[cur], TRUE)]
        BY <1>12 DEF ApplyPr, Reconciled, Nothing, TypeOK
    <2>2. /\ read[cur].status \in Statuses
          /\ read[cur].status # Absent
          /\ read[cur].conclusion = NoConclusion
          /\ StatusRank(runs[cur].status) >= StatusRank(read[cur].status)
        BY <2>1 DEF TypeOK, RunUpdate, ReadsSound, ReadApplied
    <2>3. StatusRank(read[cur].status) <= StatusRank(runs[cur].status)
        <3>1. /\ StatusRank(runs[cur].status) \in 0..3
              /\ StatusRank(read[cur].status) \in 0..3
            BY <2>1, <2>2, RankType DEF TypeOK, RunRow
        <3>2. QED
            BY <2>2, <3>1
    <2>4. \A q \in Runs : /\ StatusRank(runs'[q].status) >= StatusRank(runs[q].status)
                          /\ RunWithin(q, runs'[q])
        BY <2>1, <2>2, <2>3, OneRunMerged
    <2>5. StoreForward
        BY <2>1, <2>4, RanksKept DEF StoreForward, NeverAhead
    <2>6. ReadsSound' /\ ReadApplied'
        BY <2>1 DEF ReadsSound, ReadApplied, JobWithin, ghVars
    <2>7. QED
        BY <1>1, <2>1, <2>5, <2>6
<1>13. QED
    BY <1>2, <1>3, <1>4, <1>5, <1>6, <1>7, <1>8, <1>9, <1>10, <1>11, <1>12
       DEF Reconciler

LEMMA NeverAheadStep ==
    ASSUME TypeOK, TypeOK', NeverAheadInv, [Next]_vars
    PROVE  /\ NeverAheadInv'
           /\ \A r \in Runs : StatusRank(runs'[r].status) >= StatusRank(runs[r].status)
           /\ \A j \in Jobs : StatusRank(jobs'[j].status) >= StatusRank(jobs[j].status)
<1>1. CASE GitHub
    BY <1>1, GitHubKeepsNeverAhead, RanksKept DEF GitHub, storeVars
<1>2. CASE \E m \in sent : Deliver(m)
    BY <1>2, DeliverKeepsNeverAhead DEF StoreForward
<1>3. CASE Reconciler \/ Crash
    BY <1>3, ReconcilerKeepsNeverAhead DEF StoreForward
<1>4. CASE UNCHANGED vars
    <2>1. UNCHANGED <<runs, jobs>>
        BY <1>4 DEF vars, storeVars
    <2>2. NeverAheadInv'
        BY <1>4 DEF vars, ghVars, storeVars, recVars, NeverAheadInv, NeverAhead,
                    GitHubAnnounced, EventsSound, EventSound, ReadsSound,
                    ReadApplied, DueKnown, RunWithin, JobWithin
    <2>3. QED
        BY <2>1, <2>2, RanksKept
<1>5. QED
    BY <1>1, <1>2, <1>3, <1>4 DEF Next

\* The store never says more than GitHub did: no run or job it holds is further
\* along than GitHub has it, and every stored conclusion is one GitHub reported.
THEOREM NeverAheadCorrect == Spec => []NeverAhead
<1>1. TypeOK /\ NeverAheadInv /\ [Next]_vars => NeverAheadInv'
    BY TypeStep, NeverAheadStep
<1>2. NeverAheadInv => NeverAhead
    BY DEF NeverAheadInv
<1>3. QED
    BY NeverAheadInit, TypeCorrect, <1>1, <1>2, PTL DEF Spec

\* A stored status only moves forward, whatever order deliveries, redeliveries
\* and API answers are applied in, and however often the pod restarts.
THEOREM NeverRegressesCorrect == Spec => StatusNeverRegresses
<1>1. TypeOK /\ NeverAheadInv /\ [Next]_vars => NeverAheadInv'
    BY TypeStep, NeverAheadStep
<1>2. TypeOK /\ TypeOK' /\ NeverAheadInv /\ [Next]_vars =>
         [/\ \A r \in Runs :
                StatusRank(runs'[r].status) >= StatusRank(runs[r].status)
          /\ \A j \in Jobs :
                StatusRank(jobs'[j].status) >= StatusRank(jobs[j].status)]_vars
    BY NeverAheadStep
<1>3. QED
    BY NeverAheadInit, TypeCorrect, <1>1, <1>2, PTL DEF Spec, StatusNeverRegresses

-----------------------------------------------------------------------------
(* The service implements RunMirror                                          *)

\* What the mapping says of a run and of a job.
LEMMA MirrorOf ==
    /\ \A r \in Runs : /\ r \in Items
                       /\ Row(r) = runs[r]
                       /\ AtGitHub(r) = ghRun[r]
                       /\ \A c : c \in ReportedOf(r) <=>
                             c \in AnyConclusion /\ RunEvent(r, Done(c)) \in sent
    /\ \A j \in Jobs : /\ j \in Items
                       /\ Row(j) = jobs[j]
                       /\ AtGitHub(j) = ghJob[j]
                       /\ \A c : c \in ReportedOf(j) <=>
                             c \in AnyConclusion /\ JobEvent(j, Done(c)) \in sent
    /\ \A i \in Items : i \in Runs \/ i \in Jobs
BY KeysAssumption DEF Items, Row, AtGitHub, ReportedOf

\* The mapped ranks are ranks.
LEMMA MirrorRanks ==
    ASSUME TypeOK
    PROVE  \A i \in Items : /\ StatusRank(AtGitHub(i).status) \in 0..3
                            /\ StatusRank(Row(i).status) \in 0..3
BY RankType DEF TypeOK, Progress, RunRow, JobRow, Items, Row, AtGitHub

LEMMA MirrorInit == Init => Mirror!Init
<1> SUFFICES ASSUME Init
             PROVE  Mirror!Init
    OBVIOUS
<1>1. \A i \in Items : /\ StatusRank(AtGitHub(i).status) = 0
                       /\ StatusRank(Row(i).status) = 0
                       /\ Row(i).conclusion = NoConclusion
    BY RankValues DEF Init, NoProgress, NoRunRow, NoJobRow, Items, Row, AtGitHub
<1>2. \A i \in Items : ReportedOf(i) = {}
    BY DEF Init, ReportedOf
<1>3. QED
    BY <1>1, <1>2 DEF Mirror!Init

\* A step of GitHub is a step of the source.
LEMMA GitHubMirrored ==
    ASSUME TypeOK, TypeOK', NeverAheadInv, GitHub
    PROVE  Mirror!SourceMoves
<1>1. GitHubForward /\ UNCHANGED <<runs, jobs>>
    BY GitHubSteps DEF NeverAheadInv, GitHub, storeVars
<1>2. \A i \in Items : /\ StatusRank(AtGitHub(i).status) \in 0..3
                       /\ StatusRank(AtGitHub(i).status)' \in 0..3
    BY RankType DEF TypeOK, Progress, Items, AtGitHub
<1>3. \A i \in Items : StatusRank(AtGitHub(i).status) <= StatusRank(AtGitHub(i).status)'
    BY <1>1, <1>2 DEF GitHubForward, Items, AtGitHub
<1>4. \A i \in Items : ReportedOf(i) \subseteq ReportedOf(i)'
    BY <1>1 DEF GitHubForward, ReportedOf
<1>5. \A i \in Items : Row(i)' = Row(i)
    BY <1>1 DEF Row
<1>6. QED
    BY <1>2, <1>3, <1>4, <1>5 DEF Mirror!SourceMoves, Mirror!Ranks

\* A row within GitHub's state maps to one within the source's.
MirroredWithin(i) ==
    /\ StatusRank(Row(i).status) <= StatusRank(AtGitHub(i).status)
    /\ StatusRank(Row(i).status) = 3 => Row(i).conclusion \in ReportedOf(i)

LEMMA WithinMirrored ==
    TypeOK /\ NeverAhead => \A i \in Items : MirroredWithin(i)
<1> SUFFICES ASSUME TypeOK, NeverAhead, NEW i \in Items
             PROVE  MirroredWithin(i)
    OBVIOUS
<1> USE DEF MirroredWithin
<1>1. CASE i \in Runs
    <2>1. Row(i) = runs[i] /\ AtGitHub(i) = ghRun[i] /\ RunWithin(i, runs[i])
        BY <1>1, MirrorOf DEF NeverAhead
    <2>2. runs[i].status \in Statuses /\ runs[i].conclusion \in AnyConclusion
        BY <1>1 DEF TypeOK, RunRow
    <2>3. StatusRank(runs[i].status) = 3 => runs[i].status = Completed
        BY <2>2, RankValues DEF Statuses
    <2>4. runs[i].status = Completed =>
             RunEvent(i, runs[i]) = RunEvent(i, Done(runs[i].conclusion))
        BY DEF RunEvent, Done
    <2>5. QED
        BY <1>1, <2>1, <2>2, <2>3, <2>4, MirrorOf DEF RunWithin
<1>2. CASE i \in Jobs
    <2>1. Row(i) = jobs[i] /\ AtGitHub(i) = ghJob[i] /\ JobWithin(i, jobs[i])
        BY <1>2, MirrorOf DEF NeverAhead
    <2>2. jobs[i].status \in Statuses /\ jobs[i].conclusion \in AnyConclusion
        BY <1>2 DEF TypeOK, JobRow
    <2>3. StatusRank(jobs[i].status) = 3 => jobs[i].status = Completed
        BY <2>2, RankValues DEF Statuses
    <2>4. jobs[i].status = Completed =>
             JobEvent(i, jobs[i]) = JobEvent(i, Done(jobs[i].conclusion))
        BY DEF JobEvent, Done
    <2>5. QED
        BY <1>2, <2>1, <2>2, <2>3, <2>4, MirrorOf DEF JobWithin
<1>3. QED
    BY <1>1, <1>2 DEF Items

\* A step of the receiver, of the reconciler or of the pod lets the mirror
\* follow.
LEMMA ServiceMirrored ==
    ASSUME TypeOK, TypeOK', NeverAhead', UNCHANGED ghVars, StoreForward
    PROVE  Mirror!MirrorFollows
<1>1. \A i \in Items : /\ AtGitHub(i)' = AtGitHub(i)
                       /\ ReportedOf(i)' = ReportedOf(i)
    BY DEF AtGitHub, ReportedOf, ghVars
<1>2. \A i \in Items : /\ StatusRank(Row(i).status) \in 0..3
                       /\ StatusRank(Row(i).status)' \in 0..3
    BY RankType DEF TypeOK, RunRow, JobRow, Items, Row
<1>3. \A i \in Items : StatusRank(Row(i).status) <= StatusRank(Row(i).status)'
    BY <1>2 DEF StoreForward, Items, Row
<1>4. \A i \in Items :
         /\ StatusRank(Row(i).status)' <= StatusRank(AtGitHub(i).status)
         /\ StatusRank(Row(i).status)' = 3 => Row(i).conclusion' \in ReportedOf(i)
    <2>1. (\A i \in Items : MirroredWithin(i))'
        BY WithinMirrored, PTL
    <2>2. QED
        BY <1>1, <2>1 DEF MirroredWithin
<1>5. QED
    BY <1>1, <1>2, <1>3, <1>4 DEF Mirror!MirrorFollows, Mirror!Ranks

LEMMA MirrorStep ==
    ASSUME TypeOK, TypeOK', NeverAheadInv, [Next]_vars
    PROVE  [Mirror!Next]_(Mirror!vars)
<1>1. CASE GitHub
    BY <1>1, GitHubMirrored DEF Mirror!Next
<1>2. CASE \E m \in sent : Deliver(m)
    <2>1. NeverAhead' /\ StoreForward /\ UNCHANGED ghVars
        BY <1>2, DeliverKeepsNeverAhead DEF NeverAheadInv, Deliver
    <2>2. QED
        BY <2>1, ServiceMirrored DEF Mirror!Next
<1>3. CASE Reconciler \/ Crash
    <2>1. NeverAhead' /\ StoreForward
        BY <1>3, ReconcilerKeepsNeverAhead DEF NeverAheadInv
    <2>2. UNCHANGED ghVars
        BY <1>3 DEF Reconciler, Crash, StartCycle, SelectDue, EndCycle,
                    AbortCycle, ListRuns, ApplyListing, ReadRun, RunGone,
                    RefreshFails, ApplyRun, ApplyJobs, MarkSynced, ApplyPr,
                    MarkPr, ListJobs, FindPr
    <2>3. QED
        BY <2>1, <2>2, ServiceMirrored DEF Mirror!Next
<1>4. CASE UNCHANGED vars
    <2>1. \A i \in Items : /\ AtGitHub(i)' = AtGitHub(i)
                           /\ Row(i)' = Row(i)
                           /\ ReportedOf(i)' = ReportedOf(i)
        BY <1>4 DEF vars, ghVars, storeVars, AtGitHub, Row, ReportedOf
    <2>2. UNCHANGED Mirror!vars
        BY <2>1 DEF Mirror!vars
    <2>3. QED
        BY <2>2
<1>5. QED
    BY <1>1, <1>2, <1>3, <1>4 DEF Next

\* The service implements the mirror it promises: it starts as one, and every
\* step of GitHub, of a delivery, of the reconciler or of a restart is a step of
\* one or leaves it as it is.
THEOREM MirrorsGitHubCorrect == Spec => MirrorsGitHub
<1>1. TypeOK /\ NeverAheadInv /\ [Next]_vars => NeverAheadInv'
    BY TypeStep, NeverAheadStep
<1>2. TypeOK /\ TypeOK' /\ NeverAheadInv /\ [Next]_vars => [Mirror!Next]_(Mirror!vars)
    BY MirrorStep
<1>3. QED
    BY NeverAheadInit, MirrorInit, TypeCorrect, <1>1, <1>2, PTL
       DEF Spec, MirrorsGitHub, Mirror!Spec

-----------------------------------------------------------------------------
(* How a run's row changes                                                   *)

\* A merge leaves the service's own marks alone.
LEMMA MergeRunMarks ==
    ASSUME NEW row \in RunRow, NEW update, NEW authoritative \in BOOLEAN
    PROVE  /\ MergeRun(row, update, authoritative).jobs_synced = row.jobs_synced
           /\ MergeRun(row, update, authoritative).gone = row.gone
BY DEF MergeRun, RunRow

\* What a merge does to the dispute flag.
LEMMA MergeRunDispute ==
    ASSUME NEW row \in RunRow, NEW update, NEW authoritative \in BOOLEAN,
           NEW merged, merged = MergeRun(row, update, authoritative)
    PROVE  /\ merged.needs_lookup =>
                 /\ ~authoritative
                 /\ row.needs_lookup \/ Conflict(row, update, FALSE)
           /\ row.status # Absent /\ row.needs_lookup /\ ~authoritative =>
                 merged.needs_lookup
           /\ Conflict(row, update, authoritative) => merged.needs_lookup
<1>1. CASE row.status = Absent
    BY <1>1 DEF MergeRun, RunRow, Conflict
<1>2. CASE row.status # Absent
    <2>1. merged.needs_lookup = MergedLookup(row, update, authoritative)
        BY <1>2 DEF MergeRun, RunRow
    <2>2. row.needs_lookup \in BOOLEAN
        BY DEF RunRow
    <2>3. QED
        BY <1>2, <2>1, <2>2 DEF MergedLookup, Conflict
<1>3. QED
    BY <1>1, <1>2

\* A terminal conclusion gives way to an API answer only, and to what it names.
LEMMA MergeRunConclusion ==
    ASSUME NEW row \in RunRow, NEW update, update.status \in Statuses,
           NEW authoritative \in BOOLEAN,
           NEW merged, merged = MergeRun(row, update, authoritative),
           row.status = Completed, merged.conclusion # row.conclusion
    PROVE  authoritative /\ merged.conclusion = update.conclusion
<1>1. merged.conclusion = AdvancedConclusion(row, update, authoritative)
    BY DEF MergeRun, RunRow
<1>2. StatusRank(update.status) \in 0..3 /\ StatusRank(row.status) = 3
    BY RankType, RankValues
<1>3. ~(StatusRank(update.status) > StatusRank(row.status))
    BY <1>2
<1>4. QED
    BY <1>1, <1>3, Zenon DEF AdvancedConclusion

\* The ways a step treats a run's row: a delivery of the run, the stub of a job,
\* an API answer, or neither status nor conclusion nor dispute flag is touched.
ByDelivery(r) ==
    \E m \in sent : /\ Deliver(m)
                    /\ m.kind = "run" /\ m.key = r
                    /\ runs'[r] = MergeRun(runs[r], ParsedRun(r, m), FALSE)
ByStub(r) ==
    \E update : /\ update.status \in Statuses \ {Completed}
                /\ runs'[r] = MergeRun(runs[r], update, FALSE)
Answers == ApplyRun \/ ApplyPr \/ \E next \in {"listing", "select"} : ApplyListing(next)
ByAnswer(r) ==
    /\ Answers
    /\ r \in DOMAIN read
    /\ runs'[r] = MergeRun(runs[r], read[r], TRUE)
RowKept(r) ==
    /\ runs'[r].status = runs[r].status
    /\ runs'[r].conclusion = runs[r].conclusion
    /\ runs'[r].needs_lookup = runs[r].needs_lookup
    /\ runs[r].gone => runs'[r].gone
    /\ runs'[r].jobs_synced => runs[r].jobs_synced \/ (MarkSynced /\ r = cur)

LEMMA StubStatus ==
    ASSUME NEW update, update.status \in Statuses
    PROVE  RunStub(update).status \in Statuses \ {Completed}
BY RankValues DEF RunStub, Statuses

LEMMA DeliverRows ==
    ASSUME TypeOK, NEW m \in sent, Deliver(m), NEW r \in Runs
    PROVE  ByDelivery(r) \/ ByStub(r) \/ RowKept(r)
<1>1. m \in Delivery /\ m.status \in Statuses
    BY DEF TypeOK, Delivery
<1>2. CASE m.kind = "run"
    <2>1. m.key \in Runs
        BY <1>1, <1>2 DEF Delivery
    <2>2. runs' = [runs EXCEPT ![m.key] = MergeRun(@, ParsedRun(m.key, m), FALSE)]
        BY <1>2 DEF Deliver
    <2>3. CASE m.key = r
        <3>1. runs'[r] = MergeRun(runs[r], ParsedRun(r, m), FALSE)
            BY <2>2, <2>3 DEF TypeOK
        <3>2. QED
            BY <1>2, <2>3, <3>1 DEF ByDelivery
    <2>4. CASE m.key # r
        BY <2>2, <2>4 DEF RowKept, TypeOK
    <2>5. QED
        BY <2>3, <2>4
<1>3. CASE m.kind = "job"
    <2>1. m.key \in Jobs /\ RunOf[m.key] \in Runs
        BY <1>1, <1>3, RunOfAssumption DEF Delivery
    <2>2. runs' = [runs EXCEPT ![RunOf[m.key]] = MergeRun(@, RunStub(m), FALSE)]
        BY <1>3 DEF Deliver
    <2>3. CASE RunOf[m.key] = r
        <3>1. runs'[r] = MergeRun(runs[r], RunStub(m), FALSE)
            BY <2>2, <2>3 DEF TypeOK
        <3>2. QED
            BY <1>1, <3>1, StubStatus DEF ByStub
    <2>4. CASE RunOf[m.key] # r
        BY <2>2, <2>4 DEF RowKept, TypeOK
    <2>5. QED
        BY <2>3, <2>4
<1>4. QED
    BY <1>2, <1>3 DEF Deliver

LEMMA ReconcilerRows ==
    ASSUME TypeOK, Reconciler \/ Crash, NEW r \in Runs
    PROVE  ByStub(r) \/ ByAnswer(r) \/ RowKept(r)
<1>1. CASE UNCHANGED runs
    BY <1>1 DEF RowKept
<1>2. CASE \E next \in {"listing", "select"} : ApplyListing(next)
    <2>1. CASE r \in DOMAIN read
        <3>1. runs'[r] = MergeRun(runs[r], read[r], TRUE)
            BY <1>2, <2>1 DEF ApplyListing, Reconciled
        <3>2. QED
            BY <1>2, <2>1, <3>1 DEF ByAnswer, Answers
    <2>2. CASE r \notin DOMAIN read
        <3>1. runs'[r] = runs[r]
            BY <1>2, <2>2 DEF ApplyListing
        <3>2. QED
            BY <3>1 DEF RowKept
    <2>3. QED
        BY <2>1, <2>2
<1>3. ASSUME ApplyRun \/ ApplyPr
      PROVE  ByAnswer(r) \/ RowKept(r)
    <2>1. /\ cur \in Runs /\ DOMAIN read = {cur}
          /\ runs' = [runs EXCEPT ![cur] = MergeRun(@, read[cur], TRUE)]
        BY <1>3 DEF ApplyRun, ApplyPr, Reconciled, TypeOK
    <2>2. CASE r = cur
        <3>1. runs'[r] = MergeRun(runs[r], read[r], TRUE)
            BY <2>1, <2>2 DEF TypeOK
        <3>2. QED
            BY <1>3, <2>1, <2>2, <3>1 DEF ByAnswer, Answers
    <2>3. CASE r # cur
        <3>1. runs'[r] = runs[r]
            BY <2>1, <2>3 DEF TypeOK
        <3>2. QED
            BY <3>1 DEF RowKept
    <2>4. QED
        BY <2>2, <2>3
<1>4. CASE ApplyJobs
    <2>1. cur \in Runs
        BY <1>4 DEF ApplyJobs, TypeOK
    <2>2. /\ RunStub(InProgress).status \in Statuses \ {Completed}
          /\ RunStub(Queued).status \in Statuses \ {Completed}
        BY StubStatus, ProgressType DEF Progress
    <2>3. \/ runs' = [runs EXCEPT ![cur] = MergeRun(@, RunStub(InProgress), FALSE)]
          \/ runs' = [runs EXCEPT ![cur] = MergeRun(@, RunStub(Queued), FALSE)]
          \/ runs' = runs
        BY <1>4 DEF ApplyJobs
    <2>4. \/ runs'[r] = MergeRun(runs[r], RunStub(InProgress), FALSE)
          \/ runs'[r] = MergeRun(runs[r], RunStub(Queued), FALSE)
          \/ runs'[r] = runs[r]
        BY <2>1, <2>3 DEF TypeOK
    <2>5. QED
        BY <2>2, <2>4 DEF ByStub, RowKept
<1>5. CASE MarkSynced
    <2>1. cur \in Runs /\ runs' = [runs EXCEPT ![cur].jobs_synced = TRUE]
        BY <1>5 DEF MarkSynced, TypeOK
    <2>2. QED
        BY <1>5, <2>1 DEF RowKept, TypeOK, RunRow
<1>6. CASE MarkPr
    <2>1. cur \in Runs /\ runs' = [runs EXCEPT ![cur].pr_lookup_done = TRUE]
        BY <1>6 DEF MarkPr, TypeOK
    <2>2. QED
        BY <2>1 DEF RowKept, TypeOK, RunRow
<1>7. CASE \E q \in Runs : RunGone(q)
    <2>1. PICK q \in Runs : runs' = [runs EXCEPT ![q].gone = TRUE]
        BY <1>7 DEF RunGone
    <2>2. QED
        BY <2>1 DEF RowKept, TypeOK, RunRow
<1>8. QED
    BY <1>1, <1>2, <1>3, <1>4, <1>5, <1>6, <1>7
       DEF Reconciler, Crash, StartCycle, SelectDue, EndCycle, AbortCycle,
           ListRuns, ReadRun, RefreshFails, ListJobs, FindPr, storeVars

\* Every step treats every run's row in one of these ways.
LEMMA RowSteps ==
    ASSUME TypeOK, [Next]_vars, NEW r \in Runs
    PROVE  ByDelivery(r) \/ ByStub(r) \/ ByAnswer(r) \/ RowKept(r)
<1>1. CASE GitHub \/ UNCHANGED vars
    <2>1. UNCHANGED runs
        BY <1>1 DEF GitHub, vars, storeVars
    <2>2. QED
        BY <2>1 DEF RowKept
<1>2. CASE \E m \in sent : Deliver(m)
    BY <1>2, DeliverRows
<1>3. CASE Reconciler \/ Crash
    BY <1>3, ReconcilerRows
<1>4. QED
    BY <1>1, <1>2, <1>3 DEF Next

-----------------------------------------------------------------------------
(* Conclusions and disputes                                                  *)

ReplacedByRead(r) ==
    /\ runs[r].status = Completed
    /\ runs'[r].conclusion # runs[r].conclusion
    => r \in DOMAIN read /\ runs'[r].conclusion = read[r].conclusion

RaisedByDelivery(r) ==
    ~runs[r].needs_lookup /\ runs'[r].needs_lookup => deliveries' # deliveries

LEMMA SettledStep ==
    ASSUME TypeOK, [Next]_vars, NEW r \in Runs
    PROVE  ReplacedByRead(r) /\ RaisedByDelivery(r)
<1>1. runs[r] \in RunRow
    BY DEF TypeOK
<1>2. CASE ByDelivery(r)
    <2>1. PICK m \in sent : /\ Deliver(m)
                            /\ runs'[r] = MergeRun(runs[r], ParsedRun(r, m), FALSE)
        BY <1>2 DEF ByDelivery
    <2>2. ParsedRun(r, m).status \in Statuses
        BY DEF ParsedRun, TypeOK, Delivery
    <2>3. ReplacedByRead(r)
        BY <1>1, <2>1, <2>2, MergeRunConclusion DEF ReplacedByRead
    <2>4. deliveries' # deliveries
        BY <2>1 DEF Deliver, Fresh
    <2>5. QED
        BY <2>3, <2>4 DEF RaisedByDelivery
<1>3. CASE ByStub(r)
    <2>1. PICK update : /\ update.status \in Statuses \ {Completed}
                        /\ runs'[r] = MergeRun(runs[r], update, FALSE)
        BY <1>3 DEF ByStub
    <2>2. ReplacedByRead(r)
        BY <1>1, <2>1, MergeRunConclusion DEF ReplacedByRead
    <2>3. ~Conflict(runs[r], update, FALSE)
        BY <2>1 DEF Conflict
    <2>4. runs'[r].needs_lookup => runs[r].needs_lookup
        BY <1>1, <2>1, <2>3, MergeRunDispute
    <2>5. QED
        BY <2>2, <2>4 DEF RaisedByDelivery
<1>4. CASE ByAnswer(r)
    <2>1. read[r].status \in Statuses
        BY <1>4 DEF ByAnswer, TypeOK, RunUpdate
    <2>2. ReplacedByRead(r)
        BY <1>1, <1>4, <2>1, MergeRunConclusion DEF ReplacedByRead, ByAnswer
    <2>3. ~runs'[r].needs_lookup
        BY <1>1, <1>4, MergeRunDispute DEF ByAnswer
    <2>4. QED
        BY <2>2, <2>3 DEF RaisedByDelivery
<1>5. CASE RowKept(r)
    BY <1>5 DEF RowKept, ReplacedByRead, RaisedByDelivery
<1>6. QED
    BY <1>2, <1>3, <1>4, <1>5, RowSteps

\* A terminal conclusion is replaced by nothing but the conclusion an API answer
\* names for the run, and a dispute is raised by nothing but a delivery seen for
\* the first time: conclusions are GitHub's to revise, and disputes end.
THEOREM ConclusionsSettledCorrect == Spec => ConclusionsSettled
<1>1. TypeOK /\ [Next]_vars => /\ [\A r \in Runs : ReplacedByRead(r)]_vars
                               /\ [\A r \in Runs : RaisedByDelivery(r)]_vars
    BY SettledStep
<1>2. [](TypeOK) /\ [][Next]_vars => /\ [][\A r \in Runs : ReplacedByRead(r)]_vars
                                     /\ [][\A r \in Runs : RaisedByDelivery(r)]_vars
    BY <1>1, PTL
<1>3. QED
    BY <1>2, TypeCorrect, PTL
       DEF Spec, ConclusionsSettled, ConclusionReplacedByRead,
           DisputeNeedsFreshDelivery, ReplacedByRead, RaisedByDelivery

-----------------------------------------------------------------------------
(* What the service answered for is in the store                             *)

\* The store is at least as far along as the delivery said.
Reflected(m) ==
    IF m.kind = "run"
    THEN StatusRank(runs[m.key].status) >= StatusRank(m.status)
    ELSE /\ StatusRank(jobs[m.key].status) >= StatusRank(m.status)
         /\ StatusRank(runs[RunOf[m.key]].status) >= StatusRank(RunStub(m).status)

\* A delivery being applied is reflected by the row it is merged into.
LEMMA DeliverReflects ==
    ASSUME TypeOK, EventsSound, NEW m \in sent, Deliver(m)
    PROVE  Reflected(m)'
<1>1. m \in Delivery /\ m.status \in Statuses /\ m.status # Absent
    BY DEF TypeOK, Delivery, EventsSound, EventSound
<1>2. CASE m.kind = "run"
    <2>1. m.key \in Runs
        BY <1>1, <1>2 DEF Delivery
    <2>2. runs'[m.key] = MergeRun(runs[m.key], ParsedRun(m.key, m), FALSE)
        BY <1>2, <2>1 DEF Deliver, TypeOK
    <2>3. ParsedRun(m.key, m).status = m.status
        BY DEF ParsedRun
    <2>4. runs[m.key] \in RunRow
        BY <2>1 DEF TypeOK
    <2>5. StatusRank(runs'[m.key].status) >= StatusRank(ParsedRun(m.key, m).status)
        <3>1. /\ ParsedRun(m.key, m).status \in Statuses
              /\ ParsedRun(m.key, m).status # Absent
            BY <1>1, <2>3
        <3>2. QED
            BY <2>2, <2>4, <3>1, MergeRunProgress
    <2>6. QED
        BY <1>2, <2>3, <2>5 DEF Reflected
<1>3. CASE m.kind = "job"
    <2>1. m.key \in Jobs /\ RunOf[m.key] \in Runs
        BY <1>1, <1>3, RunOfAssumption DEF Delivery
    <2>2. /\ runs'[RunOf[m.key]] = MergeRun(runs[RunOf[m.key]], RunStub(m), FALSE)
          /\ jobs'[m.key] = MergeJob(jobs[m.key], m, FALSE)
        BY <1>3, <2>1 DEF Deliver, TypeOK
    <2>3. StatusRank(jobs'[m.key].status) >= StatusRank(m.status)
        BY <1>1, <2>1, <2>2, MergeJobProgress DEF TypeOK
    <2>4. RunStub(m).status \in Statuses /\ RunStub(m).status # Absent
        BY <1>1, StubStatus, StubProgress
    <2>5. StatusRank(runs'[RunOf[m.key]].status) >= StatusRank(RunStub(m).status)
        BY <2>1, <2>2, <2>4, MergeRunProgress DEF TypeOK
    <2>6. QED
        BY <1>3, <2>3, <2>5 DEF Reflected
<1>4. QED
    BY <1>2, <1>3 DEF Deliver

\* What was reflected stays so, because no rank in the store falls.
LEMMA ReflectedKept ==
    ASSUME TypeOK, TypeOK', NeverAheadInv, [Next]_vars, NEW m \in Delivery, Reflected(m)
    PROVE  Reflected(m)'
<1>1. /\ \A r \in Runs : /\ StatusRank(runs'[r].status) >= StatusRank(runs[r].status)
                         /\ StatusRank(runs'[r].status) \in 0..3
                         /\ StatusRank(runs[r].status) \in 0..3
      /\ \A j \in Jobs : /\ StatusRank(jobs'[j].status) >= StatusRank(jobs[j].status)
                         /\ StatusRank(jobs'[j].status) \in 0..3
                         /\ StatusRank(jobs[j].status) \in 0..3
    BY NeverAheadStep, RankType DEF TypeOK, RunRow, JobRow
<1>2. m.status \in Statuses /\ RunStub(m).status \in Statuses
    BY StubStatus DEF Delivery
<1>3. /\ StatusRank(m.status) \in 0..3
      /\ StatusRank(RunStub(m).status) \in 0..3
    BY <1>2, RankType
<1>4. CASE m.kind = "run"
    <2>1. m.key \in Runs
        BY <1>4 DEF Delivery
    <2>2. QED
        BY <1>1, <1>3, <1>4, <2>1 DEF Reflected
<1>5. CASE m.kind # "run"
    <2>1. m.key \in Jobs /\ RunOf[m.key] \in Runs
        BY <1>5, RunOfAssumption DEF Delivery
    <2>2. QED
        BY <1>1, <1>3, <1>5, <2>1 DEF Reflected
<1>6. QED
    BY <1>4, <1>5

LEMMA DeliveryReflectedStep ==
    ASSUME TypeOK, TypeOK', NeverAheadInv, DeliveryReflected, [Next]_vars
    PROVE  DeliveryReflected'
<1>1. \A m \in deliveries : m \in Delivery /\ Reflected(m)
    BY DEF DeliveryReflected, Reflected, TypeOK
<1>2. \A m \in deliveries : Reflected(m)'
    BY <1>1, ReflectedKept
<1>3. \A m \in deliveries' : m \in deliveries \/ Reflected(m)'
    <2>1. CASE \E m \in sent : Deliver(m)
        <3>1. PICK m \in sent : Deliver(m)
            BY <2>1
        <3>2. deliveries' = deliveries \union {m} /\ Reflected(m)'
            BY <3>1, DeliverReflects DEF Deliver, NeverAheadInv
        <3>3. QED
            BY <3>2
    <2>2. CASE ~ \E m \in sent : Deliver(m)
        <3>1. deliveries' = deliveries
            BY <2>2 DEF Next, vars, storeVars, GitHub, Reconciler, Crash,
                        StartCycle, SelectDue, EndCycle, AbortCycle, ListRuns,
                        ApplyListing, ReadRun, RunGone, RefreshFails, ApplyRun,
                        ApplyJobs, MarkSynced, ApplyPr, MarkPr, ListJobs, FindPr
        <3>2. QED
            BY <3>1
    <2>3. QED
        BY <2>1, <2>2
<1>4. QED
    BY <1>2, <1>3 DEF DeliveryReflected, Reflected

\* A run GitHub has completed has a conclusion, and all its jobs are over.
RunsOver ==
    \A r \in Runs : ghRun[r].status = Completed =>
        /\ ghRun[r].conclusion # NoConclusion
        /\ \A j \in CreatedJobs(r) : ghJob[j].status = Completed

\* The run is over, and the store says so of each of its jobs.
JobsDone(r) ==
    /\ ghRun[r].status = Completed
    /\ \A j \in CreatedJobs(r) : jobs[j].status = Completed

\* A complete listing made after the run was read as over is of all its jobs,
\* each over; once it is applied, so they are in the store.
ListingWhole ==
    pc = "jobs_read" /\ complete /\ read[cur].status = Completed =>
        \A j \in CreatedJobs(cur) : /\ j \in DOMAIN jobsRead
                                    /\ jobsRead[j].status = Completed
MarkWhole == pc = "mark_synced" => read[cur].status = Completed /\ JobsDone(cur)

SyncedInv == RunsOver /\ ListingWhole /\ MarkWhole /\ SyncedMeansListed

\* What GitHub's steps do to one run and its jobs: nothing; something to a run
\* that is not over; or they name the conclusion of a run whose jobs are over.
RunUntouched(r) ==
    /\ ghRun'[r] = ghRun[r]
    /\ \A j \in JobsOf(r) : ghJob'[j] = ghJob[j]
RunGoesOn(r) == ghRun[r].status # Completed /\ ghRun'[r].status # Completed
RunConcluded(r) ==
    /\ \E c \in Conclusions : ghRun'[r] = Done(c)
    /\ \A j \in JobsOf(r) : ghJob'[j] = ghJob[j]
    /\ \A j \in CreatedJobs(r) : ghJob[j].status = Completed

LEMMA RunSteps ==
    ASSUME TypeOK, RunsOver, GitHub, NEW r \in Runs
    PROVE  RunUntouched(r) \/ RunGoesOn(r) \/ RunConcluded(r)
<1>1. CASE \E q \in Runs : DeleteRun(q)
    BY <1>1 DEF DeleteRun, RunUntouched
<1>2. ASSUME NEW q \in Runs, CreateRun(q)
      PROVE  RunUntouched(r) \/ RunGoesOn(r) \/ RunConcluded(r)
    <2>1. CASE q = r
        BY <1>2, <2>1, ProgressRanks DEF CreateRun, RunGoesOn, NoProgress, TypeOK
    <2>2. CASE q # r
        BY <1>2, <2>2 DEF CreateRun, RunUntouched, TypeOK
    <2>3. QED
        BY <2>1, <2>2
<1>3. ASSUME NEW j \in Jobs, CreateJob(j)
      PROVE  RunUntouched(r) \/ RunGoesOn(r) \/ RunConcluded(r)
    <2>1. CASE RunOf[j] = r
        BY <1>3, <2>1, ProgressRanks DEF CreateJob, RunGoesOn
    <2>2. CASE RunOf[j] # r
        BY <1>3, <2>2 DEF CreateJob, RunUntouched, JobsOf, TypeOK
    <2>3. QED
        BY <2>1, <2>2
<1>4. ASSUME NEW j \in Jobs, NEW progress, AdvanceJob(j, progress)
      PROVE  RunUntouched(r) \/ RunGoesOn(r) \/ RunConcluded(r)
    <2>1. CASE RunOf[j] = r
        BY <1>4, <2>1, ProgressRanks DEF AdvanceJob, RunGoesOn, TypeOK
    <2>2. CASE RunOf[j] # r
        BY <1>4, <2>2 DEF AdvanceJob, RunUntouched, JobsOf, TypeOK
    <2>3. QED
        BY <2>1, <2>2
<1>5. ASSUME NEW q \in Runs, NEW c \in Conclusions, FinishRun(q, c) \/ ReviseRun(q, c)
      PROVE  RunUntouched(r) \/ RunGoesOn(r) \/ RunConcluded(r)
    <2>1. CASE q = r
        <3>1. ghRun'[r] = Done(c) /\ ghJob' = ghJob
            BY <1>5, <2>1 DEF FinishRun, ReviseRun, TypeOK
        <3>2. \A j \in CreatedJobs(r) : ghJob[j].status = Completed
            BY <1>5, <2>1 DEF FinishRun, ReviseRun, RunsOver
        <3>3. QED
            BY <3>1, <3>2 DEF RunConcluded
    <2>2. CASE q # r
        BY <1>5, <2>2 DEF FinishRun, ReviseRun, RunUntouched, TypeOK
    <2>3. QED
        BY <2>1, <2>2
<1>6. QED
    BY <1>1, <1>2, <1>3, <1>4, <1>5 DEF GitHub, StartJob, FinishJob

\* What is over stays over, and no job joins a run that is over.
LEMMA OverKept ==
    ASSUME TypeOK, RunsOver, GitHub
    PROVE  /\ RunsOver'
           /\ \A r \in Runs : ghRun[r].status = Completed =>
                 /\ ghRun'[r].status = Completed
                 /\ CreatedJobs(r)' = CreatedJobs(r)
<1>1. ASSUME NEW r \in Runs
      PROVE  /\ ghRun'[r].status = Completed =>
                   /\ ghRun'[r].conclusion # NoConclusion
                   /\ \A j \in CreatedJobs(r)' : ghJob'[j].status = Completed
             /\ ghRun[r].status = Completed =>
                   /\ ghRun'[r].status = Completed
                   /\ CreatedJobs(r)' = CreatedJobs(r)
    <2>1. (\A j \in JobsOf(r) : ghJob'[j] = ghJob[j]) =>
             CreatedJobs(r)' = CreatedJobs(r) /\ CreatedJobs(r) \subseteq JobsOf(r)
        BY DEF CreatedJobs, JobsOf
    <2>2. CASE RunUntouched(r)
        BY <2>1, <2>2 DEF RunUntouched, RunsOver
    <2>3. CASE RunGoesOn(r)
        BY <2>3 DEF RunGoesOn
    <2>4. CASE RunConcluded(r)
        <3>1. /\ ghRun'[r].status = Completed
              /\ ghRun'[r].conclusion # NoConclusion
            BY <2>4, ConclusionsAssumption DEF RunConcluded, Done
        <3>2. QED
            BY <2>1, <2>4, <3>1 DEF RunConcluded
    <2>5. QED
        BY <2>2, <2>3, <2>4, RunSteps
<1>2. QED
    BY <1>1 DEF RunsOver

\* Only GitHub changes what is at GitHub.
LEMMA ServiceLeavesGitHub ==
    ASSUME [Next]_vars, ~GitHub
    PROVE  UNCHANGED ghVars
BY DEF Next, vars, Deliver, Reconciler, Crash, StartCycle, SelectDue, EndCycle,
       AbortCycle, ListRuns, ApplyListing, ReadRun, RunGone, RefreshFails,
       ApplyRun, ApplyJobs, MarkSynced, ApplyPr, MarkPr, ListJobs, FindPr

LEMMA CompletedRank ==
    ASSUME NEW status \in Statuses, StatusRank(status) >= 3
    PROVE  status = Completed
BY RankValues DEF Statuses

LEMMA JobsDoneKept ==
    ASSUME TypeOK, TypeOK', NeverAheadInv, RunsOver, [Next]_vars
    PROVE  /\ RunsOver'
           /\ \A r \in Runs : JobsDone(r) => JobsDone(r)'
<1>1. \A j \in Jobs : jobs[j].status = Completed => jobs'[j].status = Completed
    <2>1. \A j \in Jobs : /\ StatusRank(jobs'[j].status) >= StatusRank(jobs[j].status)
                          /\ jobs'[j].status \in Statuses
        BY NeverAheadStep DEF TypeOK, JobRow
    <2>2. QED
        BY <2>1, CompletedRank, RankValues
<1>2. /\ RunsOver'
      /\ \A r \in Runs : ghRun[r].status = Completed =>
            /\ ghRun'[r].status = Completed
            /\ CreatedJobs(r)' = CreatedJobs(r)
    <2>1. CASE GitHub
        BY <2>1, OverKept
    <2>2. CASE ~GitHub
        BY <2>2, ServiceLeavesGitHub DEF ghVars, RunsOver, CreatedJobs
    <2>3. QED
        BY <2>1, <2>2
<1>3. \A r \in Runs : CreatedJobs(r) \subseteq Jobs
    BY DEF CreatedJobs, JobsOf
<1>4. QED
    BY <1>1, <1>2, <1>3 DEF JobsDone

\* The step by which the reconciler gets to where it holds an answer.
LEMMA StageSteps ==
    ASSUME TypeOK, [Next]_vars, ~UNCHANGED recVars
    PROVE  /\ pc' = "listed" => \E listed \in SUBSET Runs : ListRuns(listed)
           /\ pc' = "run_read" => \E r \in Runs : ReadRun(r)
           /\ pc' = "list_jobs" => ApplyRun
           /\ pc' = "jobs_read" =>
                 \E listed \in SUBSET Jobs, all \in BOOLEAN : ListJobs(listed, all)
           /\ pc' = "mark_synced" => ApplyJobs /\ JobsListed
<1>1. Reconciler \/ Crash
    BY DEF Next, vars, GitHub, Deliver
<1>2. CASE \E r \in Runs : ReadRun(r) \/ RunGone(r) \/ RefreshFails(r)
    BY <1>2 DEF ReadRun, RunGone, RefreshFails, Rest
<1>3. CASE \E next \in {"listing", "select"} : ApplyListing(next)
    BY <1>3 DEF ApplyListing, Rest
<1>4. CASE ApplyJobs \/ MarkSynced
    BY <1>4 DEF ApplyJobs, MarkSynced, AfterJobs, Rest
<1>5. CASE StartCycle \/ SelectDue \/ EndCycle \/ AbortCycle \/ Crash \/ MarkPr
    BY <1>5 DEF StartCycle, SelectDue, EndCycle, AbortCycle, Crash, MarkPr, Rest
<1>6. CASE ApplyRun \/ ApplyPr
    BY <1>6 DEF ApplyRun, ApplyPr
<1>7. CASE \/ \E listed \in SUBSET Runs : ListRuns(listed)
           \/ \E listed \in SUBSET Jobs, all \in BOOLEAN : ListJobs(listed, all)
           \/ \E found \in SUBSET PRs : FindPr(found)
    BY <1>7 DEF ListRuns, ListJobs, FindPr
<1>8. QED
    BY <1>1, <1>2, <1>3, <1>4, <1>5, <1>6, <1>7 DEF Reconciler

\* A run read as over is over at GitHub.
LEMMA ReadOver ==
    ASSUME TypeOK, ReadsSound, pc # "pr_read", NEW r \in DOMAIN read,
           read[r].status = Completed
    PROVE  ghRun[r].status = Completed
<1>1. RunWithin(r, read[r]) /\ r \in Runs
    BY DEF ReadsSound, TypeOK
<1>2. ghRun[r].status \in Statuses /\ StatusRank(ghRun[r].status) \in 0..3
    BY <1>1, RankType DEF TypeOK, Progress
<1>3. StatusRank(ghRun[r].status) >= 3
    BY <1>1, <1>2, RankValues DEF RunWithin
<1>4. QED
    BY <1>2, <1>3, CompletedRank

LEMMA ListingWholeStep ==
    ASSUME TypeOK, TypeOK', NeverAheadInv, SyncedInv, [Next]_vars
    PROVE  ListingWhole'
<1> USE DEF SyncedInv
<1>1. CASE UNCHANGED recVars
    <2>1. \/ ~(pc = "jobs_read" /\ complete /\ read[cur].status = Completed)
          \/ cur \in Runs /\ ghRun[cur].status = Completed
        <3>1. pc = "jobs_read" => cur \in Runs /\ cur \in DOMAIN read
            BY DEF TypeOK
        <3>2. QED
            BY <3>1, ReadOver DEF NeverAheadInv
    <2>2. cur \in Runs /\ ghRun[cur].status = Completed =>
             CreatedJobs(cur)' = CreatedJobs(cur)
        <3>1. CASE GitHub
            BY <1>1, <3>1, OverKept DEF recVars, CreatedJobs, JobsOf
        <3>2. CASE ~GitHub
            BY <1>1, <3>2, ServiceLeavesGitHub DEF recVars, ghVars, CreatedJobs, JobsOf
        <3>3. QED
            BY <3>1, <3>2
    <2>3. QED
        BY <1>1, <2>1, <2>2 DEF recVars, ListingWhole
<1>2. CASE ~UNCHANGED recVars /\ pc' = "jobs_read"
    <2>1. PICK listed \in SUBSET Jobs, all \in BOOLEAN : ListJobs(listed, all)
        BY <1>2, StageSteps
    <2>2. /\ cur \in Runs /\ cur \in DOMAIN read /\ cur' = cur /\ read' = read
          /\ complete' => listed = CreatedJobs(cur)
          /\ jobsRead' = [j \in listed |-> ghJob[j]]
          /\ pc = "list_jobs"
          /\ UNCHANGED ghVars
        BY <2>1 DEF ListJobs, TypeOK
    <2>3. read[cur].status = Completed =>
             \A j \in CreatedJobs(cur) : ghJob[j].status = Completed
        BY <2>2, ReadOver DEF NeverAheadInv, RunsOver
    <2>4. CreatedJobs(cur)' = CreatedJobs(cur)
        BY <2>2 DEF CreatedJobs, JobsOf, ghVars
    <2>5. QED
        BY <2>2, <2>3, <2>4 DEF ListingWhole
<1>3. QED
    BY <1>1, <1>2 DEF ListingWhole

LEMMA MarkWholeStep ==
    ASSUME TypeOK, TypeOK', NeverAheadInv, SyncedInv, [Next]_vars
    PROVE  MarkWhole'
<1> USE DEF SyncedInv
<1>1. CASE UNCHANGED recVars
    <2>1. pc = "mark_synced" => cur \in Runs
        BY DEF TypeOK
    <2>2. \A r \in Runs : JobsDone(r) => JobsDone(r)'
        BY JobsDoneKept
    <2>3. QED
        BY <1>1, <2>1, <2>2 DEF recVars, MarkWhole, JobsDone, CreatedJobs, JobsOf
<1>2. CASE ~UNCHANGED recVars /\ pc' = "mark_synced"
    <2>1. ApplyJobs /\ JobsListed
        BY <1>2, StageSteps
    <2>2. /\ cur \in Runs /\ cur \in DOMAIN read
          /\ pc = "jobs_read" /\ complete /\ read[cur].status = Completed
          /\ UNCHANGED <<ghVars, cur, read>>
        BY <2>1 DEF ApplyJobs, JobsListed, TypeOK
    <2>3. ghRun[cur].status = Completed
        BY <2>2, ReadOver DEF NeverAheadInv
    <2>4. ASSUME NEW j \in CreatedJobs(cur)
          PROVE  jobs'[j].status = Completed
        <3>1. j \in Jobs /\ j \in DOMAIN jobsRead /\ jobsRead[j].status = Completed
            BY <2>2, <2>4 DEF ListingWhole, CreatedJobs, JobsOf
        <3>2. jobs'[j] = MergeJob(jobs[j], jobsRead[j], TRUE)
            BY <2>1, <3>1 DEF ApplyJobs
        <3>3. /\ jobs[j] \in JobRow /\ jobs'[j].status \in Statuses
              /\ jobsRead[j].status \in Statuses /\ jobsRead[j].status # Absent
            BY <3>1 DEF TypeOK, Progress, JobRow
        <3>4. StatusRank(jobs'[j].status) >= StatusRank(jobsRead[j].status)
            BY <3>2, <3>3, MergeJobProgress
        <3>5. QED
            BY <3>1, <3>3, <3>4, CompletedRank, RankValues
    <2>5. CreatedJobs(cur)' = CreatedJobs(cur)
        BY <2>2 DEF CreatedJobs, JobsOf, ghVars
    <2>6. QED
        BY <2>2, <2>3, <2>4, <2>5 DEF MarkWhole, JobsDone, ghVars
<1>3. QED
    BY <1>1, <1>2 DEF MarkWhole

\* The mark is set by nothing but MarkSynced, and no merge touches it.
LEMMA SyncedMarks ==
    ASSUME TypeOK, [Next]_vars, NEW r \in Runs
    PROVE  runs'[r].jobs_synced => runs[r].jobs_synced \/ (MarkSynced /\ r = cur)
<1>1. runs[r] \in RunRow
    BY DEF TypeOK
<1>2. CASE ByDelivery(r) \/ ByStub(r) \/ ByAnswer(r)
    <2>1. \A update : /\ MergeRun(runs[r], update, FALSE).jobs_synced = runs[r].jobs_synced
                      /\ MergeRun(runs[r], update, TRUE).jobs_synced = runs[r].jobs_synced
        BY <1>1, MergeRunMarks
    <2>2. \E update : \/ runs'[r] = MergeRun(runs[r], update, FALSE)
                      \/ runs'[r] = MergeRun(runs[r], update, TRUE)
        BY <1>2 DEF ByDelivery, ByStub, ByAnswer
    <2>3. runs'[r].jobs_synced = runs[r].jobs_synced
        BY <2>1, <2>2
    <2>4. QED
        BY <2>3
<1>3. CASE RowKept(r)
    BY <1>3 DEF RowKept
<1>4. QED
    BY <1>2, <1>3, RowSteps

LEMMA SyncedStep ==
    ASSUME TypeOK, TypeOK', NeverAheadInv, SyncedInv, [Next]_vars
    PROVE  SyncedInv'
<1>1. RunsOver' /\ \A r \in Runs : JobsDone(r) => JobsDone(r)'
    BY JobsDoneKept DEF SyncedInv
<1>2. ASSUME NEW r \in Runs, runs'[r].jobs_synced
      PROVE  JobsDone(r)
    <2>1. CASE runs[r].jobs_synced
        BY <2>1 DEF SyncedInv, SyncedMeansListed, JobsDone
    <2>2. CASE MarkSynced /\ r = cur
        BY <2>2 DEF MarkSynced, SyncedInv, MarkWhole
    <2>3. QED
        BY <1>2, <2>1, <2>2, SyncedMarks
<1>3. SyncedMeansListed'
    BY <1>1, <1>2 DEF SyncedMeansListed, JobsDone
<1>4. QED
    BY <1>1, <1>3, ListingWholeStep, MarkWholeStep DEF SyncedInv

LEMMA AnsweredInit == Init => DeliveryReflected /\ SyncedInv
<1> SUFFICES ASSUME Init
             PROVE  DeliveryReflected /\ SyncedInv
    OBVIOUS
<1>1. \A r \in Runs : ghRun[r].status # Completed /\ ~runs[r].jobs_synced
    BY DEF Init, NoProgress, NoRunRow
<1>2. deliveries = {} /\ pc = "idle"
    BY DEF Init
<1>3. QED
    BY <1>1, <1>2 DEF DeliveryReflected, SyncedInv, RunsOver, ListingWhole,
                      MarkWhole, SyncedMeansListed

\* What the service answered for is in its store: every delivery whose id is on
\* file has left its mark, for the job and for the job's run, and a run marked as
\* having its jobs listed is over and has all of them on file, finished.
THEOREM AnsweredForCorrect == Spec => []AnsweredFor
<1>1. TypeOK /\ TypeOK' /\ NeverAheadInv /\ [Next]_vars => NeverAheadInv'
    BY NeverAheadStep
<1>2. TypeOK /\ TypeOK' /\ NeverAheadInv /\ DeliveryReflected /\ [Next]_vars
         => DeliveryReflected'
    BY DeliveryReflectedStep
<1>3. TypeOK /\ TypeOK' /\ NeverAheadInv /\ SyncedInv /\ [Next]_vars => SyncedInv'
    BY SyncedStep
<1>4. DeliveryReflected /\ SyncedInv => AnsweredFor
    BY DEF AnsweredFor, SyncedInv
<1>5. QED
    BY NeverAheadInit, AnsweredInit, TypeCorrect, <1>1, <1>2, <1>3, <1>4, PTL DEF Spec

-----------------------------------------------------------------------------
(* Disputes stay due                                                         *)

\* A disputed run is on file, and is given up for gone, flagged for a lookup, or
\* has yet to have its jobs listed.
DisputesDue ==
    \A r \in unsettled :
        /\ Known(runs[r])
        /\ runs[r].gone \/ runs[r].needs_lookup \/ ~runs[r].jobs_synced

\* An answer about a run that is over names its conclusion, and a run whose jobs
\* have been listed is read as over; once the answer is applied, a dispute that
\* remains is one raised since, and flagged.
ReadsName ==
    /\ pc \in {"listed", "run_read"} =>
          \A r \in DOMAIN read :
              /\ read[r].status = Completed => read[r].conclusion # NoConclusion
              /\ runs[r].jobs_synced => read[r].status = Completed
    /\ pc \in {"list_jobs", "jobs_read", "mark_synced"} =>
          (read[cur].status = Completed /\ cur \in unsettled => runs[cur].needs_lookup)

DisputeInv == DisputesDue /\ ReadsName

\* What a step that merges no API answer keeps of a run's marks.
LEMMA GoneKept ==
    ASSUME TypeOK, [Next]_vars, NEW r \in Runs
    PROVE  runs[r].gone => runs'[r].gone
<1>1. runs[r] \in RunRow
    BY DEF TypeOK
<1>2. CASE ByDelivery(r) \/ ByStub(r) \/ ByAnswer(r)
    <2>1. \A update : /\ MergeRun(runs[r], update, FALSE).gone = runs[r].gone
                      /\ MergeRun(runs[r], update, TRUE).gone = runs[r].gone
        BY <1>1, MergeRunMarks
    <2>2. \E update : \/ runs'[r] = MergeRun(runs[r], update, FALSE)
                      \/ runs'[r] = MergeRun(runs[r], update, TRUE)
        BY <1>2 DEF ByDelivery, ByStub, ByAnswer
    <2>3. runs'[r].gone = runs[r].gone
        BY <2>1, <2>2
    <2>4. QED
        BY <2>3
<1>3. CASE RowKept(r)
    BY <1>3 DEF RowKept
<1>4. QED
    BY <1>2, <1>3, RowSteps

LEMMA FlagKept ==
    ASSUME TypeOK, [Next]_vars, NEW r \in Runs, ~ByAnswer(r), Known(runs[r])
    PROVE  runs[r].needs_lookup => runs'[r].needs_lookup
<1>1. runs[r] \in RunRow
    BY DEF TypeOK
<1>2. CASE ByDelivery(r) \/ ByStub(r)
    <2>1. PICK update : runs'[r] = MergeRun(runs[r], update, FALSE)
        BY <1>2 DEF ByDelivery, ByStub
    <2>2. QED
        BY <1>1, <2>1, MergeRunDispute DEF Known
<1>3. CASE RowKept(r)
    BY <1>3 DEF RowKept
<1>4. QED
    BY <1>2, <1>3, RowSteps

\* A dispute is raised by a delivery, about a completed run, and flags it.
LEMMA DisputeRaised ==
    ASSUME TypeOK, [Next]_vars, NEW r \in Runs, r \in unsettled', r \notin unsettled
    PROVE  Known(runs[r]) /\ runs'[r].needs_lookup
<1>1. \E m \in sent : Deliver(m)
    BY DEF Next, vars, GitHub, Reconciler, Crash, StartCycle, SelectDue, EndCycle,
           AbortCycle, ListRuns, ApplyListing, ReadRun, RunGone, RefreshFails,
           ApplyRun, ApplyJobs, MarkSynced, ApplyPr, MarkPr, ListJobs, FindPr,
           Settle
<1>2. PICK m \in sent : Deliver(m)
    BY <1>1
<1>3. m.kind = "run" /\ m.key = r /\ Conflict(runs[r], m, FALSE)
    BY <1>2 DEF Deliver
<1>4. runs'[r] = MergeRun(runs[r], ParsedRun(r, m), FALSE)
    BY <1>2, <1>3 DEF Deliver, TypeOK
<1>5. Conflict(runs[r], ParsedRun(r, m), FALSE)
    BY <1>3 DEF Conflict, ParsedRun
<1>6. runs[r] \in RunRow
    BY DEF TypeOK
<1>7. runs'[r].needs_lookup
    BY <1>4, <1>5, <1>6, MergeRunDispute
<1>8. Known(runs[r])
    BY <1>5 DEF Conflict, Known
<1>9. QED
    BY <1>7, <1>8

\* A run on file stays on file.
LEMMA KnownKept ==
    ASSUME TypeOK, TypeOK', NeverAheadInv, [Next]_vars, NEW r \in Runs
    PROVE  Known(runs[r]) => Known(runs'[r])
<1>1. /\ StatusRank(runs'[r].status) >= StatusRank(runs[r].status)
      /\ runs[r].status \in Statuses
    BY NeverAheadStep DEF TypeOK, RunRow
<1>2. QED
    BY <1>1, RankValues DEF Known, Statuses

LEMMA DisputesDueStep ==
    ASSUME TypeOK, TypeOK', NeverAheadInv, SyncedInv, DisputeInv, [Next]_vars,
           pc # "pr_read"
    PROVE  DisputesDue'
<1>1. ASSUME NEW r \in Runs, r \in unsettled'
      PROVE  /\ Known(runs'[r])
             /\ runs'[r].gone \/ runs'[r].needs_lookup \/ ~runs'[r].jobs_synced
    <2>1. CASE r \notin unsettled
        BY <1>1, <2>1, DisputeRaised, KnownKept
    <2>2. CASE r \in unsettled
        <3>1. /\ Known(runs[r]) /\ Known(runs'[r])
              /\ runs[r].gone \/ runs[r].needs_lookup \/ ~runs[r].jobs_synced
            BY <2>2, KnownKept DEF DisputeInv, DisputesDue
        <3>2. CASE MarkSynced /\ r = cur
            <4>1. pc = "mark_synced" /\ read[cur].status = Completed
                BY <3>2 DEF MarkSynced, SyncedInv, MarkWhole
            <4>2. runs[r].needs_lookup
                BY <2>2, <3>2, <4>1 DEF DisputeInv, ReadsName
            <4>3. ~ByAnswer(r)
                BY <4>1 DEF ByAnswer, Answers, ApplyRun, ApplyPr, ApplyListing
            <4>4. QED
                BY <3>1, <4>2, <4>3, FlagKept
        <3>3. CASE ByAnswer(r)
            <4>1. /\ pc \in {"listed", "run_read"}
                  /\ r \in DOMAIN read
                  /\ read[r].conclusion = NoConclusion
                BY <1>1, <3>3 DEF ByAnswer, Answers, ApplyRun, ApplyPr,
                                  ApplyListing, Settle
            <4>2. ~runs[r].jobs_synced
                BY <4>1 DEF DisputeInv, ReadsName
            <4>3. ~MarkSynced
                BY <4>1 DEF MarkSynced
            <4>4. QED
                BY <3>1, <4>2, <4>3, SyncedMarks
        <3>4. CASE ~(MarkSynced /\ r = cur) /\ ~ByAnswer(r)
            BY <3>1, <3>4, SyncedMarks, GoneKept, FlagKept
        <3>5. QED
            BY <3>2, <3>3, <3>4
    <2>3. QED
        BY <2>1, <2>2
<1>2. unsettled' \subseteq Runs
    BY DEF TypeOK
<1>3. QED
    BY <1>1, <1>2 DEF DisputesDue, Known

\* While the reconciler stays where it is, no answer is applied, and a run that
\* was disputed since is flagged.
LEMMA ReadsNameHeld ==
    ASSUME TypeOK, TypeOK', SyncedInv, DisputeInv, [Next]_vars, UNCHANGED recVars
    PROVE  ReadsName'
<1>1. pc' = pc /\ cur' = cur /\ read' = read
    BY DEF recVars
<1>2. ~ApplyRun /\ ~MarkSynced /\ ~ApplyPr
    BY <1>1 DEF ApplyRun, MarkSynced, ApplyPr, AfterJobs, Rest
<1>3. ~ \E next \in {"listing", "select"} : ApplyListing(next)
    BY <1>1 DEF ApplyListing, Rest
<1>4. \A r \in DOMAIN read : runs'[r].jobs_synced => runs[r].jobs_synced
    BY <1>2, SyncedMarks DEF TypeOK
<1>5. ASSUME pc \in {"list_jobs", "jobs_read", "mark_synced"},
             read[cur].status = Completed, cur \in unsettled'
      PROVE  runs'[cur].needs_lookup
    <2>1. cur \in Runs /\ ~ByAnswer(cur)
        BY <1>2, <1>3, <1>5 DEF TypeOK, ByAnswer, Answers
    <2>2. CASE cur \in unsettled
        <3>1. Known(runs[cur]) /\ runs[cur].needs_lookup
            BY <1>5, <2>2 DEF DisputeInv, DisputesDue, ReadsName
        <3>2. QED
            BY <2>1, <3>1, FlagKept
    <2>3. CASE cur \notin unsettled
        BY <1>5, <2>1, <2>3, DisputeRaised
    <2>4. QED
        BY <2>2, <2>3
<1>6. QED
    BY <1>1, <1>4, <1>5 DEF ReadsName, DisputeInv

\* What an API answer read now says of a run that is over.
LEMMA AnswerNames ==
    ASSUME TypeOK, SyncedInv, NEW r \in Runs
    PROVE  /\ ParsedRun(r, ghRun[r]).status = Completed =>
                 ParsedRun(r, ghRun[r]).conclusion # NoConclusion
           /\ runs[r].jobs_synced => ParsedRun(r, ghRun[r]).status = Completed
<1>1. /\ ParsedRun(r, ghRun[r]).status = ghRun[r].status
      /\ ParsedRun(r, ghRun[r]).conclusion = ghRun[r].conclusion
    BY DEF ParsedRun
<1>2. QED
    BY <1>1 DEF SyncedInv, RunsOver, SyncedMeansListed

LEMMA ReadsNameStep ==
    ASSUME TypeOK, TypeOK', SyncedInv, DisputeInv, [Next]_vars
    PROVE  ReadsName'
<1>1. CASE UNCHANGED recVars
    BY <1>1, ReadsNameHeld
<1>2. CASE ~UNCHANGED recVars /\ pc' = "listed"
    <2>1. PICK listed \in SUBSET Runs : ListRuns(listed)
        BY <1>2, StageSteps
    <2>2. /\ read' = [r \in listed |-> ParsedRun(r, ghRun[r])]
          /\ UNCHANGED runs
        BY <2>1 DEF ListRuns, storeVars
    <2>3. QED
        BY <1>2, <2>2, AnswerNames DEF ReadsName
<1>3. CASE ~UNCHANGED recVars /\ pc' = "run_read"
    <2>1. PICK q \in Runs : ReadRun(q)
        BY <1>3, StageSteps
    <2>2. /\ read' = [r \in {q} |-> ParsedRun(q, ghRun[q])]
          /\ UNCHANGED runs
        BY <2>1 DEF ReadRun, storeVars
    <2>3. QED
        BY <1>3, <2>2, AnswerNames DEF ReadsName
<1>4. CASE ~UNCHANGED recVars /\ pc' = "list_jobs"
    <2>1. ApplyRun
        BY <1>4, StageSteps
    <2>2. /\ pc = "run_read" /\ cur \in DOMAIN read
          /\ cur' = cur /\ read' = read
          /\ unsettled' = unsettled \
                {r \in DOMAIN read : read[r].conclusion # NoConclusion}
        BY <2>1 DEF ApplyRun, Settle, TypeOK
    <2>3. read[cur].status = Completed => cur \notin unsettled'
        BY <2>2 DEF DisputeInv, ReadsName
    <2>4. QED
        BY <1>4, <2>2, <2>3 DEF ReadsName
<1>5. CASE ~UNCHANGED recVars /\ pc' = "jobs_read"
    <2>1. PICK listed \in SUBSET Jobs, all \in BOOLEAN : ListJobs(listed, all)
        BY <1>5, StageSteps
    <2>2. pc = "list_jobs" /\ UNCHANGED <<runs, unsettled, cur, read>>
        BY <2>1 DEF ListJobs, storeVars
    <2>3. QED
        BY <1>5, <2>2 DEF ReadsName, DisputeInv
<1>6. CASE ~UNCHANGED recVars /\ pc' = "mark_synced"
    <2>1. ApplyJobs
        BY <1>6, StageSteps
    <2>2. /\ pc = "jobs_read" /\ cur \in Runs
          /\ UNCHANGED <<unsettled, cur, read>>
        BY <1>6, <2>1 DEF ApplyJobs, AfterJobs, Rest, TypeOK
    <2>3. ~ByAnswer(cur)
        BY <2>2 DEF ByAnswer, Answers, ApplyRun, ApplyPr, ApplyListing
    <2>4. cur \in unsettled /\ runs[cur].needs_lookup => runs'[cur].needs_lookup
        BY <2>2, <2>3, FlagKept DEF DisputeInv, DisputesDue
    <2>5. QED
        BY <1>6, <2>2, <2>4 DEF ReadsName, DisputeInv
<1>7. QED
    BY <1>1, <1>2, <1>3, <1>4, <1>5, <1>6 DEF ReadsName

LEMMA DisputeInit == Init => DisputeInv
<1> SUFFICES ASSUME Init
             PROVE  DisputeInv
    OBVIOUS
<1>1. unsettled = {} /\ pc = "idle"
    BY DEF Init
<1>2. QED
    BY <1>1 DEF DisputeInv, DisputesDue, ReadsName

\* As long as no PR lookup's answer is held, a run two deliveries disagreed on
\* stays due for a lookup until an API answer has named its conclusion: the PR
\* lookup is the one answer that drops the flag without naming one.
THEOREM DisputeStaysDueCorrect == Spec /\ [](pc # "pr_read") => []DisputeStaysDue
<1>1. TypeOK /\ TypeOK' /\ NeverAheadInv /\ [Next]_vars => NeverAheadInv'
    BY NeverAheadStep
<1>2. TypeOK /\ TypeOK' /\ NeverAheadInv /\ SyncedInv /\ [Next]_vars => SyncedInv'
    BY SyncedStep
<1>3. /\ TypeOK /\ TypeOK' /\ NeverAheadInv /\ SyncedInv /\ DisputeInv
      /\ pc # "pr_read" /\ [Next]_vars
      => DisputeInv'
    BY DisputesDueStep, ReadsNameStep DEF DisputeInv
<1>4. TypeOK /\ DisputeInv => DisputeStaysDue
    BY DEF TypeOK, DisputeInv, DisputesDue, DisputeStaysDue, NeedsReconcile
<1>5. QED
    BY NeverAheadInit, AnsweredInit, DisputeInit, TypeCorrect,
       <1>1, <1>2, <1>3, <1>4, PTL DEF Spec

-----------------------------------------------------------------------------
(* What the reconciler leaves alone is accurate                              *)

\* A delivery about something that is over says what GitHub says of it today.
Ending(m) ==
    m.status = Completed => IF m.kind = "run" THEN Agrees(ghRun[m.key], m)
                                              ELSE Agrees(ghJob[m.key], m)
\* Until GitHub revises a conclusion, each run and job has but one ending.
OneEnding == revisions = 0 => \A m \in sent : Ending(m)

\* A step that moves what is not over, and announces where it moved it to,
\* keeps the ending of everything else.
LEMMA EndingKept ==
    ASSUME NEW m \in Delivery, Ending(m),
           \A r \in Runs : ghRun[r].status # Completed \/ ghRun'[r] = ghRun[r],
           \A j \in Jobs : ghJob[j].status # Completed \/ ghJob'[j] = ghJob[j]
    PROVE  Ending(m)'
<1>1. CASE m.kind = "run"
    BY <1>1 DEF Ending, Agrees, Delivery
<1>2. CASE m.kind = "job"
    BY <1>2 DEF Ending, Agrees, Delivery
<1>3. QED
    BY <1>1, <1>2 DEF Delivery

LEMMA EndingAnnounced ==
    /\ \A r \in Runs : Ending(RunEvent(r, ghRun[r]))
    /\ \A j \in Jobs : Ending(JobEvent(j, ghJob[j]))
BY DEF Ending, Agrees, RunEvent, JobEvent

LEMMA OneEndingGitHub ==
    ASSUME TypeOK, OneEnding, GitHub
    PROVE  OneEnding'
<1> DEFINE Moves == /\ \A r \in Runs : \/ ghRun[r].status # Completed
                                       \/ ghRun'[r] = ghRun[r]
                    /\ \A j \in Jobs : \/ ghJob[j].status # Completed
                                       \/ ghJob'[j] = ghJob[j]
           Announces == \A m \in sent' \ sent :
                           \/ m.status # Completed
                           \/ \E r \in Runs : m = RunEvent(r, ghRun'[r])
                           \/ \E j \in Jobs : m = JobEvent(j, ghJob'[j])
<1>1. ASSUME NEW r \in Runs, CreateRun(r) \/ DeleteRun(r)
      PROVE  Moves /\ Announces /\ revisions' = revisions
    BY <1>1, ProgressRanks DEF CreateRun, DeleteRun, NoProgress, RunEvent, TypeOK
<1>2. ASSUME NEW j \in Jobs, CreateJob(j)
      PROVE  Moves /\ Announces /\ revisions' = revisions
    <2>1. ghJob[j].status # Completed /\ Queued.status # Completed
        BY <1>2, ProgressRanks DEF CreateJob, NoProgress
    <2>2. Moves
        BY <1>2, <2>1 DEF CreateJob, TypeOK
    <2>3. Announces
        BY <1>2, <2>1 DEF CreateJob, JobEvent
    <2>4. QED
        BY <1>2, <2>2, <2>3 DEF CreateJob
<1>3. ASSUME NEW j \in Jobs, NEW progress, AdvanceJob(j, progress),
             ghJob[j].status # Completed
      PROVE  Moves /\ Announces /\ revisions' = revisions
    <2>1. /\ RunOf[j] \in Runs
          /\ ghRun[RunOf[j]].status # Completed
          /\ ghRun' = [ghRun EXCEPT ![RunOf[j]] = InProgress]
          /\ ghJob' = [ghJob EXCEPT ![j] = progress]
          /\ sent' = sent \union {JobEvent(j, progress),
                                  RunEvent(RunOf[j], InProgress)}
          /\ revisions' = revisions
        BY <1>3, RunOfAssumption, ProgressRanks DEF AdvanceJob
    <2>2. Moves
        BY <1>3, <2>1 DEF TypeOK
    <2>3. ghJob'[j] = progress /\ ghRun'[RunOf[j]] = InProgress
        BY <2>1 DEF TypeOK
    <2>4. Announces
        BY <2>1, <2>3
    <2>5. QED
        BY <2>1, <2>2, <2>4
<1>4. ASSUME NEW j \in Jobs, StartJob(j) \/ \E c \in Conclusions : FinishJob(j, c)
      PROVE  Moves /\ Announces /\ revisions' = revisions
    <2>1. ghJob[j].status # Completed
        BY <1>4, ProgressRanks DEF StartJob, FinishJob
    <2>2. \E progress : AdvanceJob(j, progress)
        BY <1>4 DEF StartJob, FinishJob
    <2>3. QED
        <3> HIDE DEF Moves, Announces
        <3>1. QED
            BY <1>3, <2>1, <2>2
<1>5. ASSUME NEW r \in Runs, NEW c \in Conclusions, FinishRun(r, c)
      PROVE  Moves /\ Announces /\ revisions' = revisions
    BY <1>5, ProgressRanks DEF FinishRun, TypeOK
<1>6. CASE \E r \in Runs, c \in Conclusions : ReviseRun(r, c)
    <2>1. revisions' = revisions + 1 /\ revisions \in Nat
        BY <1>6, MaxRevisionsAssumption DEF ReviseRun, TypeOK
    <2>2. QED
        BY <2>1 DEF OneEnding
<1>7. ASSUME Moves, Announces, revisions' = revisions
      PROVE  OneEnding'
    <2>1. ASSUME NEW m \in sent', revisions = 0
          PROVE  Ending(m)'
        <3>1. CASE m \in sent
            BY <1>7, <2>1, <3>1, EndingKept DEF OneEnding, TypeOK
        <3>2. CASE m \notin sent
            <4>1. CASE m.status # Completed
                BY <4>1 DEF Ending
            <4>2. (/\ \A r \in Runs : Ending(RunEvent(r, ghRun[r]))
                   /\ \A j \in Jobs : Ending(JobEvent(j, ghJob[j])))'
                BY EndingAnnounced, PTL
            <4>3. QED
                BY <1>7, <2>1, <3>2, <4>1, <4>2
        <3>3. QED
            BY <3>1, <3>2
    <2>2. QED
        BY <1>7, <2>1 DEF OneEnding
<1>8. QED
    <2> HIDE DEF Moves, Announces
    <2>1. CASE \E r \in Runs : CreateRun(r) \/ DeleteRun(r)
        BY <1>1, <1>7, <2>1
    <2>2. CASE \E j \in Jobs : CreateJob(j)
        BY <1>2, <1>7, <2>2
    <2>3. CASE \E r \in Runs, c \in Conclusions : FinishRun(r, c)
        BY <1>5, <1>7, <2>3
    <2>4. CASE \E j \in Jobs : StartJob(j) \/ \E c \in Conclusions : FinishJob(j, c)
        BY <1>4, <1>7, <2>4
    <2>5. QED
        BY <1>6, <2>1, <2>2, <2>3, <2>4 DEF GitHub

LEMMA OneEndingStep == TypeOK /\ OneEnding /\ [Next]_vars => OneEnding'
<1> SUFFICES ASSUME TypeOK, OneEnding, [Next]_vars
             PROVE  OneEnding'
    OBVIOUS
<1>1. CASE GitHub
    BY <1>1, OneEndingGitHub
<1>2. CASE ~GitHub
    <2>1. UNCHANGED <<ghRun, ghJob, revisions, sent>>
        BY <1>2, ServiceLeavesGitHub DEF ghVars
    <2>2. QED
        BY <2>1 DEF OneEnding, Ending, Agrees
<1>3. QED
    BY <1>1, <1>2

LEMMA SettledAccurate ==
    ASSUME TypeOK, NeverAheadInv, SyncedInv, OneEnding, revisions = 0
    PROVE  SettledIsAccurate
<1>1. ASSUME NEW r \in Runs, runs[r].status = Completed
      PROVE  Agrees(runs[r], ghRun[r])
    <2>1. RunEvent(r, runs[r]) \in sent
        BY <1>1 DEF NeverAheadInv, NeverAhead, RunWithin
    <2>2. Ending(RunEvent(r, runs[r]))
        BY <2>1 DEF OneEnding
    <2>3. QED
        BY <1>1, <2>2 DEF Ending, RunEvent, Agrees
<1>2. ASSUME NEW j \in Jobs, jobs[j].status = Completed
      PROVE  Agrees(jobs[j], ghJob[j])
    <2>1. JobEvent(j, jobs[j]) \in sent
        BY <1>2 DEF NeverAheadInv, NeverAhead, JobWithin
    <2>2. Ending(JobEvent(j, jobs[j]))
        BY <2>1 DEF OneEnding
    <2>3. QED
        BY <1>2, <2>2 DEF Ending, JobEvent, Agrees
<1>3. ASSUME NEW r \in Runs, Known(runs[r]), ~runs[r].gone, ~NeedsReconcile(r)
      PROVE  /\ Agrees(runs[r], ghRun[r])
             /\ \A j \in CreatedJobs(r) : Agrees(jobs[j], ghJob[j])
    <2>1. runs[r].status = Completed /\ runs[r].jobs_synced
        BY <1>3 DEF NeedsReconcile
    <2>2. \A j \in CreatedJobs(r) : j \in Jobs /\ jobs[j].status = Completed
        BY <2>1 DEF SyncedInv, SyncedMeansListed, CreatedJobs, JobsOf
    <2>3. QED
        BY <1>1, <1>2, <2>1, <2>2
<1>4. QED
    BY <1>3 DEF SettledIsAccurate

\* As long as GitHub has revised no conclusion, a run the reconciler no longer
\* asks about, and that it could still ask about, is in the store as GitHub has
\* it, with all its jobs.
THEOREM SettledIsAccurateCorrect == Spec => [](revisions = 0 => SettledIsAccurate)
<1>1. TypeOK /\ TypeOK' /\ NeverAheadInv /\ [Next]_vars => NeverAheadInv'
    BY NeverAheadStep
<1>2. TypeOK /\ TypeOK' /\ NeverAheadInv /\ SyncedInv /\ [Next]_vars => SyncedInv'
    BY SyncedStep
<1>3. Init => OneEnding
    BY DEF Init, OneEnding
<1>4. /\ TypeOK /\ NeverAheadInv /\ SyncedInv /\ OneEnding
      => (revisions = 0 => SettledIsAccurate)
    BY SettledAccurate
<1>5. QED
    BY NeverAheadInit, AnsweredInit, TypeCorrect, OneEndingStep,
       <1>1, <1>2, <1>3, <1>4, PTL DEF Spec

=============================================================================
