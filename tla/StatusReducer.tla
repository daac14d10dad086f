---------------------------- MODULE StatusReducer ----------------------------
(***************************************************************************)
(* How one GitHub update is merged into the stored state of a run or job   *)
(* (src/src/transformersci/status/reducer.py).  Rows and updates are       *)
(* records; a row carries more fields than an update, and a merge leaves   *)
(* the fields it does not name alone, as `dict(current)` does.             *)
(*                                                                         *)
(* A row that is not in its table has status Absent.                       *)
(***************************************************************************)
EXTENDS Integers

Absent    == "absent"
Completed == "completed"
NoConclusion == ""

\* Every status GitHub uses for "not started yet" ranks as queued.
NotStarted == {"requested", "pending", "waiting", "queued"}

\* 0 for a status GitHub has not documented: it never overrides a known one.
StatusRank(status) ==
    CASE status \in NotStarted    -> 1
      [] status = "in_progress"   -> 2
      [] status = Completed       -> 3
      [] OTHER                    -> 0

\* Two terminal updates name different conclusions, and the second is not an
\* API read: only a lookup can settle which one is right.
Conflict(current, update, authoritative) ==
    /\ current.status = Completed
    /\ update.status = Completed
    /\ update.conclusion \notin {NoConclusion, current.conclusion}
    /\ ~authoritative

\* Mutants of AdvancedStatus: the last writer wins; only the next status up
\* is accepted.
AdvancedStatusLastWins(current, update) == update.status
AdvancedStatusOneStep(current, update) ==
    IF StatusRank(update.status) = StatusRank(current.status) + 1
    THEN update.status
    ELSE current.status

\* The status and conclusion after the update: forward only, and a terminal
\* conclusion gives way only to one an API read names.
AdvancedStatus(current, update) ==
    IF /\ StatusRank(update.status) >= StatusRank(current.status)
       /\ StatusRank(update.status) > 0
    THEN update.status
    ELSE current.status

\* Mutant of AdvancedConclusion: any later terminal update replaces it.
AdvancedConclusionByAnyone(current, update, authoritative) ==
    IF \/ StatusRank(update.status) > StatusRank(current.status)
       \/ /\ current.status = Completed
          /\ update.status = Completed
          /\ update.conclusion # NoConclusion
    THEN update.conclusion
    ELSE current.conclusion

AdvancedConclusion(current, update, authoritative) ==
    IF \/ StatusRank(update.status) > StatusRank(current.status)
       \/ /\ current.status = Completed
          /\ update.status = Completed
          /\ authoritative
          /\ update.conclusion # NoConclusion
    THEN update.conclusion
    ELSE current.conclusion

\* Mutant of MergedLookup: a later delivery that agrees drops the flag.
MergedLookupForgets(current, update, authoritative) ==
    Conflict(current, update, authoritative)

\* An authoritative update settles a dispute; a delivery can only raise one.
MergedLookup(current, update, authoritative) ==
    IF authoritative /\ ~Conflict(current, update, authoritative)
    THEN FALSE
    ELSE current.needs_lookup \/ Conflict(current, update, authoritative)

\* A later update fills a descriptive field in but never blanks it.
Filled(current, incoming) == IF current = "" THEN incoming ELSE current

MergeRun(current, update, authoritative) ==
    IF current.status = Absent
    THEN [current EXCEPT !.status = update.status,
                         !.conclusion = update.conclusion,
                         !.needs_lookup = FALSE,
                         !.event = update.event,
                         !.prs = update.prs]
    ELSE [current EXCEPT
             !.status = AdvancedStatus(current, update),
             !.conclusion = AdvancedConclusion(current, update, authoritative),
             !.needs_lookup = MergedLookup(current, update, authoritative),
             !.event = Filled(@, update.event),
             !.prs = @ \union update.prs]

MergeJob(current, update, authoritative) ==
    IF current.status = Absent
    THEN [current EXCEPT !.status = update.status,
                         !.conclusion = update.conclusion,
                         !.needs_lookup = FALSE]
    ELSE [current EXCEPT
             !.status = AdvancedStatus(current, update),
             !.conclusion = AdvancedConclusion(current, update, authoritative),
             !.needs_lookup = MergedLookup(current, update, authoritative)]

\* Mutant of RunStub: the job's own status, so a finished job finishes the run.
RunStubFinishes(update) ==
    [status |-> update.status, conclusion |-> NoConclusion,
     event |-> "", prs |-> {}]

\* What a job update says about its run: that it exists and has got at least
\* as far as the job; a finished job never finishes the run.
RunStub(update) ==
    [status |-> IF StatusRank(update.status) >= 2 THEN "in_progress"
                ELSE update.status,
     conclusion |-> NoConclusion,
     event |-> "",
     prs |-> {}]

=============================================================================
