-------------------------- MODULE PipelinePlanner --------------------------
(***************************************************************************)
(* The planner of the learning pipeline: one cycle of the controller       *)
(* (plan_once of pipeline/controller.py, plan_cycle of                     *)
(* pipeline/orchestrator.py, the policy of pipeline/policy.py), repeated   *)
(* for ever on top of the queue of DurableQueue, while lane workers tune   *)
(* and train and the dataset grows.                                        *)
(*                                                                         *)
(* The planner keeps nothing from one cycle to the next.  A cycle reads    *)
(* the registry, the dataset, the published tunings, the checkpoint state  *)
(* and the queue one after the other, and acts on each later: every read   *)
(* and every transaction is a step.                                        *)
(*                                                                         *)
(* Simplifications: one revision cohort and one collection window; the     *)
(* solver repository and both verification stages are configured; the      *)
(* control loop raises no drift or quality signal; strict_data_status.json *)
(* repeats what the checkpoint state says; leases do not expire (the       *)
(* clock of DurableQueue stands still).  What workers do is reduced to     *)
(* what a cycle can see of it.                                             *)
(***************************************************************************)
EXTENDS DurableQueue, Sequences, FiniteSetsExt

CONSTANTS Settings,   \* what behaviours start from, and what may happen from outside
          NoModel,    \* no current.json
          Tries       \* bound: max_attempts of every job

Thresholds == {500, 1000, 2000, 3000, 4000, 5000, 6000, 7000, 8000}
MaxRows    == 8999         \* bound: the next threshold would be 9000

\* Strict-full rows of each version of the dataset; the deployment each launch of
\* the controller runs from; the thresholds completed and the model promoted before;
\* the lane workers.
Setting(s) == s = [rows |-> s.rows, launches |-> s.launches, done |-> s.done,
                   active |-> s.active, lanes |-> s.lanes]

ModelsOf(s)      == {m \in [checkpoint : {k \in Thresholds : k >= 3000}, data : DOMAIN s.rows] :
                        m.checkpoint <= s.rows[m.data]}
DeploymentsOf(s) == {s.launches[n] : n \in DOMAIN s.launches}

\* A deployment is a runtime root and the bytes of its tuning script.
ASSUME PlannerAssumption ==
    /\ \A s \in Settings :
          /\ Setting(s)
          /\ s.rows \in Seq(0 .. MaxRows) /\ Len(s.rows) > 0
          /\ \A d, e \in DOMAIN s.rows : d <= e => s.rows[d] <= s.rows[e]
          /\ s.launches \in Seq(DeploymentsOf(s)) /\ Len(s.launches) > 0
          /\ \A at \in DeploymentsOf(s) : at = [root |-> at.root, script |-> at.script]
          /\ s.done \subseteq Thresholds /\ s.active \in ModelsOf(s) \cup {NoModel}
          /\ NoModel \notin ModelsOf(s) /\ s.lanes \subseteq Owners
    /\ Tries \in Nat \ {0} /\ NoCohort \notin {"collector", "revision"}

VARIABLES setting,    \* the setting of this behaviour, never changed
          data,       \* version of the cumulative dataset
          tuned,      \* datasets whose tuning is published
          done,       \* thresholds the checkpoint state lists as completed
          active,     \* the model current.json points to
          manifest,   \* active_surrogate.json: its model, and the pointer it fingerprints
          plan        \* the planner process

world       == <<tuned, done, active>>
plannerVars == <<vars, setting, data, world, manifest, plan>>

Rows     == setting.rows
Launches == setting.launches
Datasets == DOMAIN Rows
Models   == ModelsOf(setting)

CycleSteps == {"start", "descriptor", "snapshot", "pointer", "manifest", "collect", "collect_put",
               "tuning", "tune", "tune_keep", "tune_put", "untune",
               "checkpoints", "train", "train_keep", "train_put", "untrain",
               "optimize", "standard", "fine", "status"}

JobTypes == {"collect", "tune", "train", "optimize", "verify_standard", "verify_fine"}

Plan == [launch : DOMAIN Launches,
         step   : CycleSteps,
         model  : Models \cup {NoModel},    \* the descriptor
         data   : Datasets \cup {0},        \* the snapshot
         latest : Datasets \cup {0},        \* the latest tuning
         rows   : Nat,                      \* active_rows
         pick   : Ids \cup {0},             \* the row active_coalesced_job chose
         error  : JobTypes \cup {"none", "manifest"}]   \* what ended the last cycle

Idle(launch, d, error) ==
    [launch |-> launch, step |-> "start", model |-> NoModel, data |-> d, latest |-> 0,
     rows |-> 0, pick |-> 0, error |-> error]

PlannerTypeOK ==
    /\ setting \in Settings
    /\ row \in [Ids -> Row] /\ parents \in [Ids -> SUBSET Ids]
    /\ \A i \in Existing : request[i].type \in JobTypes
    /\ data \in Datasets /\ tuned \subseteq Datasets /\ done \subseteq Thresholds
    /\ active \in Models \cup {NoModel}
    /\ manifest \in [model : Models \cup {NoModel}, pointer : Models \cup {NoModel}]
    /\ plan \in Plan

PlannerInit ==
    /\ Init
    /\ setting \in Settings
    /\ data = 1 /\ tuned = {} /\ done = setting.done /\ active = setting.active
    /\ manifest = [model |-> NoModel, pointer |-> NoModel]
    /\ plan = Idle(1, 0, "none")

----------------------------------------------------------------------------
(* Policy                                                                  *)

Largest(S) == IF S = {} THEN 0 ELSE Max(S)

\* Mutant of Checkpoints: the next thousand counts as soon as it is begun.
CheckpointsBegun(rows) == {k \in Thresholds : k < rows + 1000}

\* checkpoint_sequence: thousands beyond 3000 count from 4000 rows on.
Checkpoints(rows) == {k \in Thresholds : k <= rows}

\* next_training_checkpoint: the lowest threshold above the active rows, 0 if none.
NextCheckpoint(rows, activeRows) ==
    LET due == {k \in Checkpoints(rows) : k > activeRows} IN IF due = {} THEN 0 ELSE Min(due)

\* Mutant of TuningDue: the growth has to exceed the threshold.
TuningDueBeyond(rows, latest) ==
    /\ rows >= 4000
    /\ latest = 0 \/ rows > Rows[latest] + Max({2000, (Rows[latest] + 4) \div 5})

\* tuning_decision: the floor of 4000 rows, then growth by max(2000, ceil(20 %)).
TuningDue(rows, latest) ==
    /\ rows >= 4000
    /\ latest = 0 \/ rows >= Rows[latest] + Max({2000, (Rows[latest] + 4) \div 5})

----------------------------------------------------------------------------
(* The jobs of a cycle                                                     *)

Here == Launches[plan.launch]

Job(type, key, body, cohort, priority) ==
    [type |-> type, key |-> key, body |-> body, cohort |-> cohort,
     priority |-> priority, max |-> Tries]

CollectJob(d, at) == Job("collect", <<at.root, d>>, [data |-> d, root |-> at.root],
                         "collector", 100)

\* The key names the script by its bytes, the payload by its path.
TuneJob(d, at) == Job("tune", <<d, at.script>>,
                      [data |-> d, root |-> at.root, script |-> at.script], "revision", 70)

\* Mutant of TrainJob: the dataset is not part of the key.
TrainJobByCheckpoint(k, d, at, latest) ==
    Job("train", <<k, at.root>>, [checkpoint |-> k, data |-> d, root |-> at.root,
                                  params |-> latest], "revision", 80)

TrainJob(k, d, at, latest) == Job("train", <<k, d, at.root>>,
                                  [checkpoint |-> k, data |-> d, root |-> at.root,
                                   params |-> latest], "revision", 80)

\* Mutant of OptimizeJob: one search, whatever the model.
OptimizeJobAnyModel(m, rows, at) ==
    Job("optimize", <<>>, [model |-> m, root |-> at.root, rows |-> rows], NoCohort, 50)

OptimizeJob(m, rows, at) ==
    Job("optimize", <<m>>, [model |-> m, root |-> at.root, rows |-> rows], NoCohort, 50)

StandardJob(m, at) == Job("verify_standard", <<m>>, [model |-> m, root |-> at.root], NoCohort, 40)
FineJob(m, at)     == Job("verify_fine", <<m>>, [model |-> m, root |-> at.root], NoCohort, 45)

\* Everything a cycle may ever submit: what the constant Requests has to hold.
RequestsOf(s) ==
    LET versions == DOMAIN s.rows
        here     == DeploymentsOf(s)
        models   == ModelsOf(s)
    IN UNION {{CollectJob(d, at) : d \in versions, at \in here},
              {TuneJob(d, at) : d \in versions, at \in here},
              {TrainJob(k, d, at, l) : k \in Thresholds, d \in versions, at \in here,
                                       l \in versions \cup {0}},
              {OptimizeJob(m, r, at) : m \in models, at \in here,
                                       r \in Thresholds \cup {s.rows[d] : d \in versions}},
              {StandardJob(m, at) : m \in models, at \in here},
              {FineJob(m, at) : m \in models, at \in here}}

PlannerRequests == UNION {RequestsOf(s) : s \in Settings}

ASSUME SubmissionAssumption == PlannerRequests \subseteq Requests

RowsOf(type) == {i \in Existing : request[i].type = type}
Current      == Pending \cup {"running"}

----------------------------------------------------------------------------
(* Control flow of a cycle                                                 *)

\* A cycle returns or raises; either way its status is published.
Over(d, error) == plan' = [Idle(plan.launch, d, error) EXCEPT !.step = "status"]
Raises(error)  == Over(0, error)

GoesOn(step) == IF step = "status" THEN Over(plan.data, "none")
              ELSE plan' = [plan EXCEPT !.step = step, !.pick = 0]

\* enqueue, seen from its caller: a new row, the row that is already there, or an
\* exception when that row has other inputs.
Put(r, deps, step) ==
    LET same == {i \in RowsOf(r.type) : request[i].key = r.key}
    IN \/ EnqueueNew(r, deps, 0) /\ GoesOn(step)
       \/ EnqueueAgain(r, deps) /\ GoesOn(step)
       \/ /\ \E i \in same : /\ request[i] = r /\ parents[i] = deps
                             /\ row[i].state \in Terminal \/ r.cohort = NoCohort
          /\ GoesOn(step) /\ UNCHANGED vars
       \/ /\ \E i \in same : request[i] # r \/ parents[i] # deps
          /\ Raises(r.type) /\ UNCHANGED vars

\* _publish_status, before and after the cycle: stats() reconciles the queue.
OpenCycle ==
    /\ plan.step = "start"
    /\ Reconcile(0)
    /\ plan' = [Idle(plan.launch, 0, "none") EXCEPT !.step = "descriptor"]
    /\ UNCHANGED <<data, world, manifest>>

CloseCycle ==
    /\ plan.step = "status"
    /\ Reconcile(0)
    /\ plan' = [plan EXCEPT !.step = "start"]
    /\ UNCHANGED <<data, world, manifest>>

\* plan_once: the descriptor of the active model ...
ReadDescriptor ==
    /\ plan.step = "descriptor"
    /\ plan' = [plan EXCEPT !.step = "snapshot", !.model = active]
    /\ UNCHANGED <<vars, data, world, manifest>>

\* ... a copy of the dataset, from which everything else is counted ...
Snapshot ==
    /\ plan.step = "snapshot"
    /\ plan' = [plan EXCEPT !.step = "pointer", !.data = data]
    /\ UNCHANGED <<vars, data, world, manifest>>

\* ... the pointer once more, which must still be that of the descriptor ...
CheckPointer ==
    /\ plan.step = "pointer"
    /\ IF plan.model # NoModel /\ active # plan.model THEN Raises("manifest")
       ELSE GoesOn("manifest")
    /\ UNCHANGED <<vars, data, world, manifest>>

\* Mutant of WriteManifest: the pointer is not fingerprinted.
WriteUnboundManifest ==
    /\ plan.step = "manifest"
    /\ manifest' = [model |-> plan.model, pointer |-> NoModel]
    /\ GoesOn("collect")
    /\ UNCHANGED <<vars, data, world>>

\* ... and its bytes, read again for the fingerprint in the manifest.
WriteManifest ==
    /\ plan.step = "manifest"
    /\ manifest' = [model   |-> plan.model,
                    pointer |-> IF plan.model = NoModel THEN NoModel ELSE active]
    /\ GoesOn("collect")
    /\ UNCHANGED <<vars, data, world>>

\* active_semantic_collector: a scan of this dataset, current or succeeded, from
\* whatever deployment.
ListCollect ==
    /\ plan.step = "collect"
    /\ LET exact == {i \in RowsOf("collect") : /\ request[i].body.data = plan.data
                                              /\ row[i].state \in Current \cup {"succeeded"}}
       IN GoesOn(IF exact = {} THEN "collect_put" ELSE "tuning")
    /\ UNCHANGED <<vars, data, world, manifest>>

PutCollect ==
    /\ plan.step = "collect_put"
    /\ Put(CollectJob(plan.data, Here), {}, "tuning")
    /\ UNCHANGED <<data, world, manifest>>

----------------------------------------------------------------------------
(* Tuning                                                                  *)

\* latest_tuning and tuning_decision.
ReadTuning ==
    /\ plan.step = "tuning"
    /\ LET latest == Largest(tuned)
       IN plan' = [plan EXCEPT !.latest = latest,
                               !.step = IF TuningDue(Rows[plan.data], latest)
                                        THEN "tune" ELSE "untune"]
    /\ UNCHANGED <<vars, data, world, manifest>>

Untune ==
    /\ plan.step = "untune"
    /\ CancelCoalescedPending(TuneJob(plan.data, Here))
    /\ GoesOn("checkpoints")
    /\ UNCHANGED <<data, world, manifest>>

\* active_coalesced_job: the newest running row, else the newest pending one.
Authority(running, pending) ==
    IF running # {} THEN Max(running) ELSE Largest(pending)

InState(S, states) == {i \in S : row[i].state \in states}

\* Mutant of ListTune: only tunings of the dataset at hand are looked for.
ListTuneOfDataset ==
    /\ plan.step = "tune"
    /\ LET mine == {i \in RowsOf("tune") : /\ request[i].body.script = Here.script
                                          /\ request[i].body.data = plan.data}
           pick == Authority(InState(mine, {"running"}), InState(mine, Pending))
       IN plan' = [plan EXCEPT !.pick = pick,
                               !.step = IF pick = 0 THEN "tune_put" ELSE "tune_keep"]
    /\ UNCHANGED <<vars, data, world, manifest>>

\* A tuning under way serves whatever the dataset is by now.
ListTune ==
    /\ plan.step = "tune"
    /\ LET mine == {i \in RowsOf("tune") : request[i].body.script = Here.script}
           pick == Authority(InState(mine, {"running"}), InState(mine, Pending))
       IN plan' = [plan EXCEPT !.pick = pick,
                               !.step = IF pick = 0 THEN "tune_put" ELSE "tune_keep"]
    /\ UNCHANGED <<vars, data, world, manifest>>

\* The row is submitted again as it is, which displaces its pending siblings; one
\* that ended since it was listed does not count.
Keep(other, next) ==
    \/ EnqueueAgain(request[plan.pick], parents[plan.pick]) /\ GoesOn(next)
    \/ row[plan.pick].state \in Terminal /\ GoesOn(other) /\ UNCHANGED vars

KeepTune ==
    /\ plan.step = "tune_keep" /\ Keep("tune_put", "checkpoints")
    /\ UNCHANGED <<data, world, manifest>>

PutTune ==
    /\ plan.step = "tune_put"
    /\ Put(TuneJob(plan.data, Here), {}, "checkpoints")
    /\ UNCHANGED <<data, world, manifest>>

----------------------------------------------------------------------------
(* Training                                                                *)

ActiveRows == Largest({k \in done : k <= Rows[plan.data]}
                          \cup (IF plan.model = NoModel THEN {} ELSE {Rows[plan.model.data]}))

DueCheckpoint == NextCheckpoint(Rows[plan.data], plan.rows)

\* The rows the active model or the completed checkpoints stand for.
ReadCheckpoints ==
    /\ plan.step = "checkpoints"
    /\ plan' = [plan EXCEPT !.rows = ActiveRows,
                            !.step = IF NextCheckpoint(Rows[plan.data], ActiveRows) # 0
                                     THEN "train" ELSE "untrain"]
    /\ UNCHANGED <<vars, data, world, manifest>>

Untrain ==
    /\ plan.step = "untrain"
    /\ CancelCoalescedPending(TrainJob(500, plan.data, Here, 0))
    /\ GoesOn("optimize")
    /\ UNCHANGED <<data, world, manifest>>

\* Mutant of ListTrain: a pending training counts whatever dataset it is for.
ListTrainAnyInput ==
    /\ plan.step = "train"
    /\ LET pending == {i \in InState(RowsOf("train"), Pending) :
                          /\ request[i].body.checkpoint = DueCheckpoint
                          /\ request[i].body.root = Here.root}
           pick == Authority(InState(RowsOf("train"), {"running"}), pending)
       IN plan' = [plan EXCEPT !.pick = pick,
                               !.step = IF pick = 0 THEN "train_put" ELSE "train_keep"]
    /\ UNCHANGED <<vars, data, world, manifest>>

\* Any training under way, else a pending one of this checkpoint, dataset and
\* deployment.
ListTrain ==
    /\ plan.step = "train"
    /\ LET pending == {i \in InState(RowsOf("train"), Pending) :
                          request[i].key = <<DueCheckpoint, plan.data, Here.root>>}
           pick == Authority(InState(RowsOf("train"), {"running"}), pending)
       IN plan' = [plan EXCEPT !.pick = pick,
                               !.step = IF pick = 0 THEN "train_put" ELSE "train_keep"]
    /\ UNCHANGED <<vars, data, world, manifest>>

KeepTrain ==
    /\ plan.step = "train_keep" /\ Keep("train_put", "optimize")
    /\ UNCHANGED <<data, world, manifest>>

PutTrain ==
    /\ plan.step = "train_put"
    /\ Put(TrainJob(DueCheckpoint, plan.data, Here, plan.latest), {}, "optimize")
    /\ UNCHANGED <<data, world, manifest>>

----------------------------------------------------------------------------
(* The search and verification of the active model                         *)

RowOf(type, m) == {i \in RowsOf(type) : request[i].key = <<m>>}

Optimize ==
    /\ plan.step = "optimize"
    /\ IF plan.model = NoModel THEN GoesOn("status") /\ UNCHANGED vars
       ELSE Put(OptimizeJob(plan.model, plan.rows, Here), {}, "standard")
    /\ UNCHANGED <<data, world, manifest>>

Standard ==
    /\ plan.step = "standard"
    /\ Put(StandardJob(plan.model, Here), RowOf("optimize", plan.model), "fine")
    /\ UNCHANGED <<data, world, manifest>>

Fine ==
    /\ plan.step = "fine"
    /\ Put(FineJob(plan.model, Here), RowOf("verify_standard", plan.model), "status")
    /\ UNCHANGED <<data, world, manifest>>

----------------------------------------------------------------------------
(* What goes on around the planner                                         *)

\* The controller crashes, or is replaced; the next launch begins a new cycle.
Relaunch ==
    /\ plan.launch + 1 \in DOMAIN Launches
    /\ plan' = Idle(plan.launch + 1, 0, "none")
    /\ UNCHANGED <<vars, data, world, manifest>>

\* The cumulative dataset is replaced by its next version.
Grow ==
    /\ data + 1 \in Datasets
    /\ data' = data + 1
    /\ UNCHANGED <<vars, world, manifest, plan>>

\* A lane worker that has nothing to do polls.
Take(o) ==
    /\ o \in setting.lanes /\ \A i \in Ids : row[i].owner # o
    /\ Claim(o, 0)
    /\ UNCHANGED <<data, world, manifest, plan>>

Runs(i, type) == row[i].state = "running" /\ request[i].type = type

\* tune_optuna publishes its generation, and exits.
PublishTuning(i) ==
    /\ Runs(i, "tune") /\ request[i].body.data \notin tuned
    /\ tuned' = tuned \cup {request[i].body.data}
    /\ UNCHANGED <<vars, data, done, active, manifest, plan>>

\* The threshold the checkpoint command trains: the lowest not completed.
Trained(i) == LET due == Checkpoints(Rows[request[i].body.data]) \ done
              IN IF due = {} THEN 0 ELSE Min(due)

Candidate(i) == [checkpoint |-> Trained(i), data |-> request[i].body.data]

\* The checkpoint command promotes an accepted candidate ...
Promote(i) ==
    /\ Runs(i, "train") /\ Trained(i) >= 3000 /\ active # Candidate(i)
    /\ active' = Candidate(i)
    /\ UNCHANGED <<vars, data, tuned, done, manifest, plan>>

\* ... and records the checkpoint as completed.
Record(i) ==
    /\ Runs(i, "train") /\ Trained(i) # 0
    /\ Trained(i) >= 3000 => active = Candidate(i)
    /\ done' = done \cup {Trained(i)}
    /\ UNCHANGED <<vars, data, tuned, active, manifest, plan>>

\* A tuning job succeeds with the generation it published.  A training command
\* exits with 0 also when it had nothing to do.
Finishes(o, i) ==
    /\ \/ /\ Succeed(o, i, NoOutput, 0)
          /\ Runs(i, "tune") => request[i].body.data \in tuned
       \/ Fail(o, i, TRUE, 0)
    /\ UNCHANGED <<data, world, manifest, plan>>

PlannerStep ==
    \/ OpenCycle \/ CloseCycle \/ ReadDescriptor \/ Snapshot \/ CheckPointer \/ WriteManifest
    \/ ListCollect \/ PutCollect
    \/ ReadTuning \/ Untune \/ ListTune \/ KeepTune \/ PutTune
    \/ ReadCheckpoints \/ Untrain \/ ListTrain \/ KeepTrain \/ PutTrain
    \/ Optimize \/ Standard \/ Fine

Work(o, i) == PublishTuning(i) \/ Promote(i) \/ Record(i) \/ Finishes(o, i)

PlannerNext ==
    /\ \/ PlannerStep \/ Relaunch \/ Grow
       \/ \E o \in Owners : Take(o) \/ \E i \in Ids : Work(o, i)
    /\ UNCHANGED setting

PlannerSpec == PlannerInit /\ [][PlannerNext]_plannerVars

----------------------------------------------------------------------------
(* Properties                                                              *)

\* However the reads of a cycle interleave with workers, and wherever cycles are
\* cut off, at most one tuning of a script is waiting or under way.
OneTuning ==
    \A i, j \in RowsOf("tune") :
        /\ row[i].state \in Current /\ row[j].state \in Current
        /\ request[i].body.script = request[j].body.script
        => i = j

\* A launch is back at a runtime root that launches in between had left.
RolledBack == \E l, m, n \in 1 .. plan.launch :
                 /\ l <= m /\ m <= n
                 /\ Launches[l].root = Launches[n].root /\ Launches[m].root # Launches[n].root

\* After a cycle, no training that has not been started yet is for another dataset
\* or deployment than those of that cycle.  Only a rollback may leave one behind: when
\* the training of the earlier root has ended, submitting it again displaces nothing.
FreshTrainingIsCurrent ==
    (plan.step = "start" /\ plan.error = "none" /\ plan.data # 0 /\ ~ RolledBack) =>
        \A i \in RowsOf("train") :
            row[i].state \in Pending /\ row[i].attempt = 0 =>
                request[i].body.data = plan.data /\ request[i].body.root = Here.root

RolledOver == \E n \in 1 .. plan.launch : Launches[n].root # Launches[1].root

\* Planning again what was planned before is accepted.  A submission is refused
\* only after a rollover to another runtime root, or when something its payload
\* counts has moved on since: the parameters of a training, the rows of a search.
RefusalExplained ==
    plan.error \in JobTypes =>
        \/ RolledOver
        \/ plan.error = "train" /\ tuned # {}
        \/ plan.error = "optimize" /\ \E i \in RowsOf("optimize") :
                                      request[i].body.rows < Largest(done)

\* Fairness: the control loop goes on, and so do lane workers and what they run.
\* Nothing is assumed of growth, relaunches, or the outcome of any job.
PlannerFairness ==
    /\ WF_plannerVars(PlannerStep /\ UNCHANGED setting)
    /\ \A o \in Owners : /\ WF_plannerVars(Take(o) /\ UNCHANGED setting)
                         /\ WF_plannerVars(\E i \in Ids : Work(o, i) /\ UNCHANGED setting)

FairPlannerSpec == PlannerSpec /\ PlannerFairness

HasSearch(m) == /\ RowOf("optimize", m) # {}
                /\ RowOf("verify_standard", m) # {} /\ RowOf("verify_fine", m) # {}

\* Whenever and however often models are promoted, the queue catches up: the model
\* that stays active gets its search and both verifications.  Not so after a rollover
\* to another runtime root: a search that names the root left is in the way for ever.
SearchFollowsPromotion == []<>(active # NoModel => HasSearch(active) \/ RolledOver)

\* So does the hand-off to consumers.
ManifestFollowsPromotion ==
    []<>(active # NoModel => manifest = [model |-> active, pointer |-> active])

\* The stated policy: the first tuning at 4000 rows, a later one after growth by
\* 2000 rows and by 20 %.
Grown(n) == n >= 4000 /\ \A d \in tuned : n - Rows[d] >= 2000 /\ 5 * (n - Rows[d]) >= Rows[d]

\* Growth is answered: again and again there is a tuning for the dataset as it is,
\* unless the tuning of that very dataset failed for good.
TuningFollowsGrowth ==
    []<>(Grown(Rows[data]) => \E i \in RowsOf("tune") : /\ request[i].body.data = data
                                                       /\ row[i].state = "failed")
=============================================================================
