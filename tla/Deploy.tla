-------------------------------- MODULE Deploy --------------------------------
(***************************************************************************)
(* A deploy of the Helm chart (deploy/scripts/deploy.py): the rendered     *)
(* chart is compared with the live release, Helm applies it and rolls the  *)
(* pods whose template changed, and the workloads that read a changed      *)
(* config or a rotated Secret only when they start are restarted, one      *)
(* after the other in dependency order, or told to reload.                 *)
(***************************************************************************)
EXTENDS Naturals, FiniteSets, Sequences

CONSTANTS
    Workloads,          \* in dependency order (RESTART_ORDER), a sequence of names
    Configs, Secrets,
    Consumes,           \* configs and secrets of each workload
    Reloads,            \* workloads with a reload command and a config of that kind
    Applying,           \* CONFIG_APPLY: auto, reload or restart for each config
    Flags,              \* what a deploy may be called with: records [noRestart, restartAll, rollback, skip]
    MaxEdits, MaxDeploys, MaxFaults       \* bounds on the exploration

VARIABLES
    chart,              \* the checkout: version of each config and each pod template
    release,            \* what helm get manifest answers, <<>> before the first install
    cluster,            \* version of each config and Secret in the cluster
    running,            \* what each workload's process has read, template included
    startedAfter,       \* Secrets last written before each workload's pod started
    mounted,            \* workloads told to reload whose volume shows the cluster's config
    phase,              \* idle, planned, converging, verifying
    flags,              \* of the deploy under way or last
    plan,
    queue,              \* workloads still to converge
    broken,             \* workloads that do not come back
    result,             \* ok, failed, refused, none
    informed,           \* history: no deploy so far went without a manifest, failed, or was told to leave pods alone
    mayGoBack,          \* history: some deploy was told so or had no manifest to compare with
    edits, deploys, faults

deployVars == <<chart, release, cluster, running, startedAfter, mounted, phase, flags, plan, queue, broken,
                result, informed, mayGoBack, edits, deploys, faults>>

Names == {Workloads[n] : n \in DOMAIN Workloads}
Things == Configs \union Secrets
NoPlan == [rolled |-> {}, restart |-> {}, reload |-> {}, stale |-> {}, back |-> {}]
NoFlags == [noRestart |-> FALSE, restartAll |-> FALSE, rollback |-> FALSE, skip |-> {}]
ConfigsOf(w) == Consumes[w] \intersect Configs
SecretsOf(w) == Consumes[w] \intersect Secrets

\* Names tell configs, Secrets and the pod template apart; a config is applied in
\* one of three ways (CONFIG_APPLY).
ChartAssumption ==
    /\ Names # {}
    /\ Configs \intersect Secrets = {} /\ "template" \notin Things
    /\ Applying \in [Configs -> {"auto", "reload", "restart"}]

\* A process that starts reads everything there is; the template is the release's.
Started(w, cfg, template) ==
    [t \in Things \union {"template"} |->
        IF t = "template" THEN template ELSE IF t \in Consumes[w] THEN cfg[t] ELSE 0]

-----------------------------------------------------------------------------
(* The world between deploys *)

\* A pod template pins the revision its init container clones: an edit of the
\* values may move the pin to an older one.
Edit ==
    /\ phase = "idle" /\ release # <<>>
    /\ edits < MaxEdits /\ edits' = edits + 1
    /\ \/ \E t \in Configs \union Names : chart' = [chart EXCEPT ![t] = @ + 1]
       \/ \E w \in Names : chart[w] > 1 /\ chart' = [chart EXCEPT ![w] = @ - 1]
    /\ UNCHANGED <<release, cluster, running, startedAfter, mounted, phase, flags, plan, queue, broken,
                   result, informed, deploys, faults, mayGoBack>>

\* The secret-sync operator writes a Secret.
Rotate ==
    /\ phase = "idle" /\ release # <<>>
    /\ edits < MaxEdits /\ edits' = edits + 1
    /\ \E s \in Secrets :
          /\ cluster' = [cluster EXCEPT ![s] = @ + 1]
          /\ startedAfter' = [w \in Names |-> startedAfter[w] \ {s}]
    /\ UNCHANGED <<chart, release, running, mounted, phase, flags, plan, queue, broken, result,
                   informed, deploys, faults, mayGoBack>>

\* kubelet syncs a volume some time after the config changed.
KubeletSyncs(w) ==
    /\ phase # "planned" /\ w \in Reloads \ mounted
    /\ mounted' = mounted \union {w}
    /\ UNCHANGED <<chart, release, cluster, running, startedAfter, phase, flags, plan, queue, broken,
                   result, informed, deploys, faults, edits, mayGoBack>>

Starts(ws, template) ==
    /\ running' = [w \in Names |-> IF w \in ws THEN Started(w, cluster', template[w]) ELSE running[w]]
    /\ startedAfter' = [w \in Names |-> IF w \in ws THEN Secrets ELSE startedAfter[w]]

\* A pod that did not come back does in the end.
Heals(w) ==
    /\ phase = "idle" /\ w \in broken
    /\ broken' = broken \ {w}
    /\ UNCHANGED cluster
    /\ Starts({w}, release)
    /\ UNCHANGED <<chart, release, mounted, phase, flags, plan, queue, result, informed, deploys,
                   faults, edits, mayGoBack>>

-----------------------------------------------------------------------------
(* load_plan, build_plan *)

Changed(live) == {t \in Configs \union Names : chart[t] # live[t]}
Rolled(live) == Changed(live) \intersect Names
ChangedConfigs(live, w) == Changed(live) \intersect ConfigsOf(w)
Handled(w, c) == IF Applying[c] = "reload" /\ w \notin Reloads THEN "restart" ELSE Applying[c]

\* A pod that started before a Secret it reads was last written.
StaleSecrets(rolled) == {w \in Names \ rolled : SecretsOf(w) \ startedAfter[w] # {}}

\* Mutant of MovedBack: only a move to a revision the clone does not know is told.
MovedBackNever(live) == {}
\* Pins whose old revision descends from the new one (source_revision_move).
MovedBack(live) == {w \in Names : chart[w] < live[w]}

Planned(live) ==
    LET rolled == Rolled(live)
        needs(how) == {w \in Names \ rolled : \E c \in ChangedConfigs(live, w) : Handled(w, c) = how}
    IN  [rolled |-> rolled, restart |-> needs("restart"), reload |-> needs("reload") \ needs("restart"),
         stale |-> StaleSecrets(rolled), back |-> MovedBack(live)]

\* The live manifest cannot be read: the deploy takes itself for a first install.
BeginDeploy ==
    /\ phase = "idle" /\ deploys < MaxDeploys
    /\ deploys' = deploys + 1
    /\ phase' = "planned"
    /\ result' = "none"
    /\ flags' \in Flags
    /\ \/ release # <<>> /\ plan' = Planned(release)
          /\ mayGoBack' = (mayGoBack \/ flags'.rollback)
          /\ UNCHANGED <<informed, faults>>
       \/ release = <<>> /\ plan' = NoPlan /\ UNCHANGED <<informed, mayGoBack, faults>>
       \/ /\ release # <<>> /\ faults < MaxFaults
          /\ faults' = faults + 1
          /\ plan' = NoPlan
          /\ informed' = FALSE
          /\ mayGoBack' = TRUE
    /\ UNCHANGED <<chart, release, cluster, running, startedAfter, mounted, queue, broken, edits>>

-----------------------------------------------------------------------------
(* helm upgrade --install --wait, main *)

\* Mutant of Actions: the stale Secrets are reported and no more.
ActionsOfConfigs == plan.restart \union plan.reload
Actions ==
    IF flags.restartAll THEN Names \union plan.reload
    ELSE plan.restart \union plan.stale \union plan.reload
Restarted(w) == flags.restartAll \/ w \in plan.restart \union plan.stale

\* A pin that does not move forward is refused before the cluster is touched.
Blocked == plan.back # {} /\ ~flags.rollback

Refuse ==
    /\ phase = "planned" /\ Blocked
    /\ phase' = "idle" /\ result' = "refused"
    /\ UNCHANGED <<chart, release, cluster, running, startedAfter, mounted, flags, plan, queue, broken,
                   informed, deploys, faults, edits, mayGoBack>>

Applied == [t \in Things |-> IF t \in Configs THEN chart[t] ELSE cluster[t]]
FirstInstall == release = <<>>
Rolls == IF FirstInstall THEN Names ELSE {w \in Names : chart[w] # release[w]}

HelmUpgrade ==
    /\ phase = "planned" /\ ~Blocked
    /\ release' = chart
    /\ cluster' = Applied
    /\ mounted' = {w \in mounted : \A c \in ConfigsOf(w) : Applied[c] = cluster[c]} \union (Rolls \intersect Reloads)
    /\ Starts(Rolls, chart)
    /\ phase' = IF flags.noRestart THEN "verifying" ELSE "converging"
    /\ queue' = IF flags.noRestart THEN {} ELSE Actions
    /\ UNCHANGED <<chart, flags, plan, broken, result, informed, deploys, faults, edits, mayGoBack>>

\* --wait runs out: the release is stored and the config applied all the same,
\* and nothing is converged.
HelmUpgradeFails ==
    /\ phase = "planned" /\ ~Blocked /\ faults < MaxFaults
    /\ faults' = faults + 1
    /\ release' = chart
    /\ cluster' = Applied
    /\ mounted' = {w \in mounted : \A c \in ConfigsOf(w) : Applied[c] = cluster[c]}
    /\ \E up \in SUBSET Rolls :
          /\ Starts(up, chart)
          /\ broken' = broken \union (Rolls \ up)
    /\ phase' = "idle" /\ result' = "failed" /\ informed' = FALSE
    /\ UNCHANGED <<chart, flags, plan, queue, deploys, edits, mayGoBack>>

-----------------------------------------------------------------------------
(* converge *)

\* The first of them in Workloads, which comes after what it depends on.
PlaceOf(w) == CHOOSE n \in DOMAIN Workloads : Workloads[n] = w
Next1 == CHOOSE w \in queue : \A v \in queue : PlaceOf(w) <= PlaceOf(v)
Converging == phase = "converging" /\ queue # {}

SkipRestart ==
    /\ Converging /\ Next1 \in flags.skip
    /\ queue' = queue \ {Next1}
    /\ UNCHANGED <<chart, release, cluster, running, startedAfter, mounted, phase, flags, plan, broken,
                   result, informed, deploys, faults, edits, mayGoBack>>

\* Mutant of Synced: the reload is sent at once.
SyncedAtOnce(w) == TRUE
Synced(w) == w \in mounted

\* The process reads what is mounted: nothing of Secrets, and it is no start.
Reload ==
    /\ Converging /\ Next1 \notin flags.skip
    /\ ~Restarted(Next1) /\ Synced(Next1)
    /\ running' = IF Next1 \in mounted
                  THEN [running EXCEPT ![Next1] =
                           [t \in DOMAIN @ |-> IF t \in ConfigsOf(Next1) THEN cluster[t] ELSE @[t]]]
                  ELSE running
    /\ queue' = queue \ {Next1}
    /\ UNCHANGED <<chart, release, cluster, startedAfter, mounted, phase, flags, plan, broken, result,
                   informed, deploys, faults, edits, mayGoBack>>

\* A restart that was planned, or in place of a reload that failed or never saw the new file.
Restart ==
    /\ Converging /\ Next1 \notin flags.skip
    /\ Restarted(Next1) \/ Next1 \in plan.reload
    /\ UNCHANGED cluster
    /\ Starts({Next1}, release)
    /\ mounted' = mounted \union ({Next1} \intersect Reloads)
    /\ broken' = broken \ {Next1}
    /\ queue' = queue \ {Next1}
    /\ UNCHANGED <<chart, release, phase, flags, plan, result, informed, deploys, faults, edits, mayGoBack>>

\* The workload does not come back: those after it are left as they are.
RestartFails ==
    /\ Converging /\ Next1 \notin flags.skip /\ faults < MaxFaults
    /\ faults' = faults + 1
    /\ broken' = broken \union {Next1}
    /\ phase' = "verifying" /\ result' = "failed"
    /\ queue' = {}
    /\ UNCHANGED <<chart, release, cluster, running, startedAfter, mounted, flags, plan, informed,
                   deploys, edits, mayGoBack>>

Converged ==
    /\ phase = "converging" /\ queue = {}
    /\ phase' = "verifying"
    /\ UNCHANGED <<chart, release, cluster, running, startedAfter, mounted, flags, plan, queue, broken,
                   result, informed, deploys, faults, edits, mayGoBack>>

\* Every rollout and every pod is looked at; what a process has read cannot be seen.
Verify ==
    /\ phase = "verifying"
    /\ phase' = "idle"
    /\ result' = IF result = "failed" \/ broken # {} THEN "failed" ELSE "ok"
    /\ informed' = IF result' = "failed" \/ flags.noRestart \/ flags.skip # {} THEN FALSE
                   ELSE informed \/ flags.restartAll
    /\ UNCHANGED <<chart, release, cluster, running, startedAfter, mounted, flags, plan, queue, broken,
                   deploys, faults, edits, mayGoBack>>

Init ==
    /\ chart = [t \in Configs \union Names |-> 1]
    /\ release = <<>>
    /\ cluster = [t \in Things |-> 1]
    /\ running = [w \in Names |-> Started(w, [t \in Things |-> 0], 0)]
    /\ startedAfter = [w \in Names |-> Secrets]
    /\ mounted = {} /\ broken = {}
    /\ phase = "idle" /\ flags = NoFlags /\ plan = NoPlan /\ queue = {}
    /\ result = "none" /\ informed = TRUE /\ mayGoBack = FALSE
    /\ edits = 0 /\ deploys = 0 /\ faults = 0

Next ==
    \/ Edit \/ Rotate
    \/ \E w \in Names : KubeletSyncs(w) \/ Heals(w)
    \/ BeginDeploy \/ Refuse \/ HelmUpgrade \/ HelmUpgradeFails
    \/ SkipRestart \/ Reload \/ Restart \/ RestartFails \/ Converged
    \/ Verify

Spec == Init /\ [][Next]_deployVars

-----------------------------------------------------------------------------
\* What every process has read is what the cluster holds; a config applied by
\* itself is read again all the time.
UpToDate(w) ==
    /\ running[w].template = release[w]
    /\ \A c \in ConfigsOf(w) : Applying[c] # "auto" => running[w][c] = cluster[c]

\* A deploy that exits with success leaves no workload on an old config or an
\* old Secret, unless some deploy failed, had no live manifest to compare with
\* or was told to leave pods alone, and none restarted everything since.
SuccessIsCurrent ==
    [][Verify /\ result' = "ok" /\ informed' =>
          \A w \in Names : UpToDate(w) /\ \A s \in SecretsOf(w) : running[w][s] = cluster[s]]_deployVars

\* A process never goes back to older code unless some deploy was told it may,
\* or could not read the live manifest: a failed deploy changes nothing of that.
CodeNeverBack ==
    [][\A w \in Names : running'[w].template < running[w].template => mayGoBack]_deployVars

\* load_plan: "the deploy can still proceed without a plan, it just cannot skip
\* needless restarts": without one, too, success leaves no workload behind.
PlanlessIsCurrent ==
    [][Verify /\ result' = "ok" /\ ~flags.noRestart /\ flags.skip = {} => \A w \in Names : UpToDate(w)]_deployVars

-----------------------------------------------------------------------------
(* What these two rest on *)

Labels == Things \union {"template"}

TypeOK ==
    /\ chart \in [Configs \union Names -> Nat]
    /\ release = <<>> \/ release \in [Configs \union Names -> Nat]
    /\ cluster \in [Things -> Nat]
    /\ running \in [Names -> [Labels -> Nat]]
    /\ startedAfter \in [Names -> SUBSET Secrets]
    /\ phase \in {"idle", "planned", "converging", "verifying"}
    /\ result \in {"ok", "failed", "refused", "none"}

SecretsCurrent(w) == \A s \in SecretsOf(w) : running[w][s] = cluster[s]

\* The Secrets a process has read are those it started after.
ReadWhatItCould(w) ==
    UpToDate(w) /\ \A s \in SecretsOf(w) \intersect startedAfter[w] : running[w][s] = cluster[s]

\* A plan is of the release it is carried out on: nothing moves between them.
PlannedOfRelease ==
    phase = "planned" /\ release # <<>> =>
        /\ informed => plan = Planned(release)
        /\ ~mayGoBack => plan = Planned(release) /\ ~flags.rollback

\* Between deploys each workload runs what is released, with the Secrets there were
\* when it started.
RestingCurrent ==
    phase \in {"idle", "planned"} /\ informed /\ release # <<>> =>
        \A w \in Names : ReadWhatItCould(w)

\* While workloads are converged those that are done run everything there is, and
\* of the others only a restart can still be told of a Secret or a template.
ConvergingCurrent ==
    /\ phase \in {"converging", "verifying"} /\ result # "failed"
    /\ informed \/ flags.restartAll
    /\ flags.skip = {} /\ ~flags.noRestart
    => \A w \in Names :
          IF w \in queue THEN Restarted(w) \/ (running[w].template = release[w] /\ SecretsCurrent(w))
          ELSE UpToDate(w) /\ SecretsCurrent(w)

Settled ==
    /\ TypeOK
    /\ release # <<>> => \A c \in Configs : cluster[c] = release[c]
    /\ release = <<>> =>
          /\ phase \notin {"converging", "verifying"} /\ broken = {}
          /\ \A w \in Names : running[w].template = 0
    /\ phase = "verifying" => queue = {}
    /\ PlannedOfRelease
    /\ RestingCurrent
    /\ ConvergingCurrent

\* No process runs newer code than the release, so that one that starts again
\* does not run older code.
NoNewerThanRelease ==
    ~mayGoBack /\ release # <<>> => \A w \in Names : running[w].template <= release[w]
===============================================================================
