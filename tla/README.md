# Verification of the MFT learning pipeline

TLA+ models of the control part of this repository, model-checked with TLC and, for what
matters most, proved with TLAPS. The repository trains surrogate models of a
medium-frequency transformer from finite-element simulations that an external HTTP
scheduler runs; the models are about the programs that decide, submit, record and resume
that work, and not about the physics.

1. [The system](#1-the-system)
2. [The modules](#2-the-modules)
3. [The runs](#3-the-runs): what each shows, its bounds, its fairness
4. [The proofs](#4-the-proofs)
5. [What is left out](#5-what-is-left-out)
6. [Plan](#6-plan)

Model-check a module with `tlc -config X.cfg MCModule`, prove one with `tlapm XProofs.tla`.

## 1. The system

Paths are relative to `src/`; `P/` is `regression_260707/pipeline/`.

### 1.1 Components

| component | state it keeps | operations | modelled in |
|---|---|---|---|
| Durable queue, `P/queue.py` | SQLite tables `jobs`, `job_dependencies` | enqueue (with coalescing), claim, heartbeat, succeed, fail, cancel, cancel_coalesced_pending, reconcile, stats | `DurableQueue` |
| Lane worker, `P/runner.py` | its job, its command's process, the lease keeper's flag | poll, claim, spawn, wait, terminate, publish, report; a keeper thread that renews | `PipelineWorkers` |
| Supervisor, `P/supervisor.py` | lane processes, stop event | launch, watch, stop all | `PipelineWorkers` |
| Artifact store, `P/artifacts.py` | directories named by the hash of what they hold, each with a manifest and a `COMPLETED` marker | publish_tree, publish_files, load, generations | `GenerationStore` |
| Candidate verification, `P/scheduler_verification.py` | `scheduler_state.json`, one record per candidate | seal, submit, wait, retry once, resume, write the document | `SchedulerVerification` |
| Scheduler client, `regression_260707/verify/scheduler_client.py` | the campaign mutation lock; nothing durable | submit with reconciliation and capacity, cancel by compare-and-set, fetch results | as called, in `SchedulerVerification`, `CampaignClaim` and `CampaignFeeder` |
| Exactly-once claim, `tools/mft_campaign_atomic_claim.py` | a claim directory with `pending.json` and `finalized.json` | acquire, validate, recover, finalize | `CampaignClaim` |
| Retry submission, `tools/mft_goal_timeout12h_retry.py` and seven siblings | plan, claim, receipt | read siblings, claim, guard, POST, reconcile, recover | `CampaignClaim` (the submission) |
| Controller and planner, `P/controller.py`, `P/orchestrator.py`, `P/policy.py` | none from cycle to cycle; `active_surrogate.json`, `surrogate_status.json` | read registry, dataset, tunings, checkpoints and queue; decide what is due; enqueue chains of jobs | `PipelinePlanner` |
| Role lock and launcher, `P/runtime_lock.py`, `P/__main__.py`, `P/start_pipeline_role.ps1` | a locked file per role | acquire, release; start again after a failure, if told to | `PipelineWorkers` (the supervisor's) |
| Campaign feeder, `regression_260707/campaign/feeder.py` | its state file: serial, candidate cursors, outstanding task ids | one cycle: observe, decide, submit, persist | `CampaignFeeder` |
| Wave collector and training data, `campaign/collect_wave.py`, `campaign/train_io.py` | cumulative dataset, source ranks, training view, cache of collected tasks | list, fetch, validate, merge, replace | `DatasetMerge` |
| Checkpoint orchestrator, `training/checkpoint_orchestrator.py` | `checkpoint_state.json`, dataset snapshots, `checkpoint.lock` | reconcile, decide what is due, snapshot, train, gate, promote, record, prune | `CheckpointTraining` |
| Model registry, `training/train_models.py` | generations, `current.json` | install a candidate, promote, discard, prune, roll back | `CheckpointTraining` |
| Active-learning driver, `regression_260707/al_driver.py` | stage file TRAIN, OPTIMIZE, SELECT, SUBMIT, WAIT, INGEST, CHECK | one stage per step, resumed by name | `DatasetMerge` (INGEST) |
| AEDT pool adapter, `module/aedt_pool_adapter.py` | a lease on a session of an external pool | acquire, renew, release | planned |
| Campaign controllers, `tools/` | about two hundred one-shot programs, pinned by hash | the protocol of the claim and of the feeder | no |
| Simulation, training mathematics, optimisation, monitoring, reports, data | | | no |

### 1.2 How they interact

```
controller --enqueue--> queue <--claim, heartbeat, report-- lane workers <--start, stop-- supervisor
    |                     |                                     |
    +--publish--> store <-+---------- publish_tree -------------+
                                                                |
                              one command per job, in a session of its own
                                                                |
                         verification command --submit--> scheduler client --HTTP--> scheduler
                                                                ^
                campaign programs --claim directory, submit-----+
                feeder --state file, campaign lock, submit------+

scheduler tasks, local runs --outputs--> collector passes --+
              active-learning driver --verified candidates--+--> dataset, ranks, view
                                                            |
controller, checkpoint loop <--rows-------------------------+
        |
        +--> checkpoint command --generations, pointer--> registry --> controller, driver
```

Everything is a process on one host, and what the processes share is on disk: one SQLite
file, directories that are renamed into place, JSON files that are replaced as a whole,
and lock files. The scheduler is remote; a POST to it is not idempotent by itself.

### 1.3 What is hard

* **Time and leases.** A worker holds a job only while its lease is renewed by a thread;
  claims work with a timestamp read before the write lock, up to the busy timeout old.
* **Orphans.** A worker's command is in a session of its own and outlives a crashed
  worker: the next attempt of the job shares its work directory with the orphan. A killed
  supervisor leaves its lanes polling next to those of the next one.
* **Non-idempotent POSTs.** The answer of a POST may be lost, and the task may appear
  after the sender looked for it.
* **Whole-file state.** A run that resumes reads a state file once and later replaces it
  as a whole, also when another run has replaced it in between.
* **Files without locks.** Sources change while they are hashed and copied; publishers of
  the same content race to one rename; nothing is synced, so a power loss can leave a
  visible directory without its bytes.
* **Decisions on stale reads.** A planning cycle reads six sources one after the other and
  submits later; workers publish, promote and finish in between, and the controller may be
  restarted, also from another deployment, at any point.
* **Several files, one meaning.** Dataset, ranks, view and cache are replaced one after the
  other, as are pointer and checkpoint state; a process may stop between any two, and the
  next one concludes from what it finds.
* **What is on its way.** The feeder must count rows that nobody has seen: of tasks that run,
  that ended and were not collected, that its ledger forgot, or whose request is still in
  the network.
* **One failing step of several.** Publication succeeds and the report is refused; the
  lease is lost between the two; the file is created and not completed.

### 1.4 What makes each component correct

* Queue: a row that runs has one owner; attempts are bounded and start only after what
  they need; nobody but its owner moves a job while the lease is live; ends are final;
  every job ends.
* Workers: two workers never both believe they hold a job; what a successful job carries is
  the output of its last attempt; two commands of one job run together only after a crash
  or while one of them is being killed; a stop request reaches every lane, and a lane that
  is lost ends its generation.
* Store: what a call returns is the source at one moment, never a mixture; what is visible
  is complete, and after a power loss nobody takes the incomplete for complete.
* Planner: one tuning of a script at a time; what waits for training is current; what was
  promoted is searched, verified and handed to consumers; growth is answered; a submission
  is refused only where the payload has more in it than the key.
* Feeder: the dataset gets its rows and no more, whatever is on its way; candidates are not
  simulated twice.
* Dataset: the better form of a sample wins, once and for all; what is not read again is
  kept; what training reads catches up.
* Checkpoints: what the state and the pointer name is there, accepted and backed by its data;
  what is due is attempted; a rollback is noticed.
* Verification: one task per candidate and attempt; a retry only after a failure; every
  document agrees with the scheduler.
* Claim: one POST per slot; all receipts agree with the one durable record.

The hazards behind these properties are listed, each at its line, in `PROJECT.json`.

## 2. The modules

| module | extends | what it is |
|---|---|---|
| `JobLedger` | | what a client of the queue may count on: one life cycle per job |
| `DurableQueue` | | the queue; implements `JobLedger` |
| `PipelineWorkers` | `DurableQueue` | lane workers, lease keepers and supervisors over the queue |
| `PipelinePlanner` | `DurableQueue` | the planning cycle over the queue |
| `GenerationStore` | | the content-addressed store |
| `SchedulerVerification` | | verification of candidates by the scheduler |
| `RetrySlot` | | what a campaign may count on about one retry slot |
| `CampaignClaim` | | one retry slot of a campaign; implements `RetrySlot` |
| `CampaignFeeder` | | the refill cycle of the campaign feeder |
| `CheckpointTraining` | | training at checkpoints, and the registry of models |
| `DatasetMerge` | | the cumulative dataset and its two writers |
| `MC...` | its module | values of the constants for TLC |
| `...Proofs` | its module, `TLAPS` | theorems; those on `PipelineWorkers` and `PipelinePlanner` are both in `PipelineProofs` |

Every transaction, file replacement, request or read is one action, because that is what
other processes can come between. Definitions named in a comment `Mutant of X` are not part
of the model: each is what X would be with a plausible mistake in the code, and is there to
show that a property notices (section 3).

### 2.1 JobLedger and DurableQueue

`row[i]` are the columns of row i that transactions change, `request[i]` those fixed when
it is inserted, `parents[i]` its dependencies. Each method of `DurableJobQueue` is one
`BEGIN IMMEDIATE` transaction and one action: `Enqueue` (`EnqueueNew`, `EnqueueAgain`),
`Reconcile`, `Claim` (which reconciles first), `Heartbeat`, `Succeed`, `Fail`, `Cancel`,
`CancelCoalescedPending`. A method that raises rolls back, which is a stuttering step.

Timestamps are kept relative to the clock: `left` is the time until the lease ends, `wait`
the time until a retry is due, and `Tick` counts both down. The code reads `time.time()`
*before* it waits for the write lock, so a transaction works with a timestamp up to the busy
timeout old: the parameter `lag` of the actions, chosen by each one from `0 .. Lag`. Claims
of equal priority are ordered by `created_at`, which is read before the lock as well; any of
them may come first in the model.

`JobLedger` says the same without SQL, time or back-off, one job at a time: submitted,
started within its budget and after everything it needs, kept, finished, withdrawn, given
up because something it needs is lost. `ImplementsLedger` maps a queue row to a ledger entry.

### 2.2 PipelineWorkers

A worker's owner label contains its process id, so an owner is a pair of lane and generation,
a generation being one launch of the supervisor. `worker[o].step` is where `run_once` and
`_execute_owned` are; each of their exits is an action or a disjunct (`Refuse` before the
command, `SpawnError`, `CommandExit` by exit code, `BeginKill` and `Killed`, `Publish`,
`Accept`, `ReportFailure`, and `ReportError` for the `except` clause). `worker[o].keeper` and
`since` are the thread that renews the lease; the code stops renewing for good after the first
failure, and so does `Beat`/`BeatError`. `commands` are operating-system processes: they are
started in a session of their own and stay when `WorkerCrash` takes their worker. A killed
supervisor leaves its lane workers, which go on next to those of the next generation.

Which lanes still hold the supervisor's role lock decides when the next supervisor is
admitted (`RoleHeld`). On Windows, where lanes are spawned, the lock goes with the supervisor.
Where lanes are forked they inherit the open file to which `flock` belongs, so that the lanes
of a killed supervisor keep its lock. The model has both.

A supervisor is started by hand or by a launcher (`StartRole`). `start_pipeline_role.ps1` starts
it again only with `-RestartOnFailure` and after an exit code other than 0 and 73
(`RestartRole`): a clean stop ends the launcher, and so does a supervisor that the role lock
refuses. On Linux there is none. `launcher` says whether one watches; a supervisor leaves with
`stopped`, after which nobody but a person starts the next one, or `failed`.

The one real-time assumption is in `Pass`: while a worker's process lives, a renewal commits
or gives up within `Lag` of being due. Commands, publications and reports may take any time.
Jobs are reduced to those with an output; checks of inputs are one nondeterministic refusal.

### 2.3 PipelinePlanner

`plan` is the planner's process: its step, and what it has read in this cycle (descriptor,
snapshot, latest tuning, active rows, chosen row). The actions follow `plan_once` and
`plan_cycle` in their order:

| action | code |
|---|---|
| `OpenCycle`, `CloseCycle` | `_publish_status`, whose `stats()` reconciles the queue |
| `ReadDescriptor`, `Snapshot`, `CheckPointer`, `WriteManifest` | registry, copy of the dataset, `active_surrogate.json` |
| `ListCollect`, `PutCollect` | `active_semantic_collector`, enqueue |
| `ReadTuning`, `ListTune`, `KeepTune`, `PutTune`, `Untune` | `latest_tuning`, `tuning_decision`, `active_coalesced_job`, enqueue, or cancel what is no longer due |
| `ReadCheckpoints`, `ListTrain`, `KeepTrain`, `PutTrain`, `Untrain` | completed thresholds, `next_training_checkpoint`, the same for training |
| `Optimize`, `Standard`, `Fine` | the chain of the active model |

`Put` is `enqueue` with its three outcomes: a new row, the row that is there, or the
exception of a key reused with other inputs, after which the cycle is over (`Raises`).
`Launches` lists the deployments of successive controller processes, each a runtime root and
the bytes of its tuning script; `Relaunch` may come at any step. Around the planner, the
dataset grows (`Grow`), workers claim (`Take`), a tuning publishes and later exits
(`PublishTuning`, `Finishes`), a training promotes, records and exits (`Promote`, `Record`,
`Finishes`): these are the effects of `tune_optuna.py`, `checkpoint_orchestrator.py` and of
`PipelineWorkers` that a cycle can see. Row counts are real numbers of rows, so that the
thresholds of `policy.py` are those of the code.

### 2.4 GenerationStore

A publication hashes the source file by file (`Hash`), looks for a generation of the
identity this gives (`Lookup`), copies file by file and compares (`Copy`), writes manifest and
marker (`Seal`), renames (`Install`) and authenticates what is at the target now (`Load`).
`Write` changes the source at any moment; contents are version numbers, so a hash is as good
as the contents. `PowerLoss` may take bytes of a visible generation, as nothing is synced.
`past` and `from` are history variables: every source there was, and that of the call.

### 2.5 SchedulerVerification

A run is one execution of the verification command. It reads `scheduler_state.json` once
(`Open`, `Create`) and from then on replaces the file by its own memory (`Writes`). `Seal`
writes the identity of a submission before it is made; `Lookup`, `Post` and `Confirm` are
`submit_verification` under the campaign lock; `Conclude`, `Retry` and `Unresolved` are what a
terminal task, a failed first task and a timeout lead to; `Finish` writes the document. Runs
overlap because an orphaned command of a crashed worker shares its work directory with the
next attempt of the job. `Fragile` runs may crash or see any call fail.

`SchedulerAssumption` is what the model takes from outside: a POST that arrives after its
sender has given up is harmless only because the scheduler answers a dedupe key it knows,
also that of an ended task, with the task it has. `Schedulers` lists what it may be like: one
that knows keys, and POSTs may be late; or one that makes a task of every POST, which then
arrive in time or never, so that the campaign lock and the search for a task under it are all
that keeps tasks unique. TLC explores both, and the theorems are about any of the kind. The
output of an ended task does not change.

### 2.6 RetrySlot and CampaignClaim

An attempt is one run of the submitting program. It reads the list of siblings, asks for the
claim (`Mkdir`, or `Inspect` when the directory exists), makes the pending record durable
(`CreatePending`, `WritePending`), looks again (`Guard`), submits (`Post`, `Answer`), reads
back (`Reconcile`) and finalizes (`Finalize`, `Seal`); a later attempt recovers (`Recover`) or
confirms (`Confirm`). Files are created with `O_EXCL` and completed later, so a crash may leave
one partial for ever. A POST that was sent may land at any later time, or never.

`RetrySlot` is the same seen from outside, without files: one request (`Ask`), a task that
goes its way (`Proceed`), one record of it (`Record`), which must be true of the task when it is
made and stays, and receipts that copy it (`Confirm`). `ImplementsSlot` takes a finalized file
for the record from the moment it is complete, and an attempt's last evidence for its receipt
from the moment it ends with one; everything before that is a stuttering step of the slot.

### 2.7 CheckpointTraining

A run is one execution of `checkpoint_orchestrator.py`, from taking `checkpoint.lock` to
releasing it. `Claim` takes the lock, reconciles the state file with the registry
(`Reconciled`) and decides what is due and not deferred; `Busy` is the exit of an execution
that meets the lock, or has nothing to do. `Begin` writes the snapshot, `Train` installs a
candidate or records metrics only, `Accept` runs the gate, `Activate` is `promote_generation`,
which compares the pointer with the one seen before training, `Record` saves the completed
checkpoint, `Prune` is retention. `Fails` is the error path of any step, `Dies` a crash.

Runs are started by `checkpoint_loop.sh`, one after the other on the live dataset, or by jobs
of the planner (`Plan`, which waits for a running training of any threshold and withdraws those
that have not started), which read the dataset version they were submitted for and are
retried by the queue: `looping` says which. `Restore` is the rollback by hand, `Grow` the
dataset, `Expire` the retry timer of a failed checkpoint.

### 2.8 DatasetMerge

A collector pass lists tasks and reads the cache (`List`), reads outputs (`Fetch`), merges
under the lock (`Refuse`, `Unchanged` or `Merge`, which replaces the master), and replaces the
ranks (`InstallRanks`), the training view (`InstallView`) and the cache (`Commit`). The driver
merges the candidates it verified into master and ranks (`Ingest`, `IngestRanks`) and then
says so (`Check`). Both may stop anywhere; a pass may fail to read any output.

A sample is read in one of six forms, each with its rank; `Authority` is the highest rank a
form can have. `Uncovered` are identities in the master without a rank, which an interrupted
pass leaves behind: `merge_dataset` accepts them only when the same rows are read again
(`Replayed`). A row streamed by a running task and the guarded form of the same row after the
task failed have the same rank, so the first one read stays.

### 2.9 CampaignFeeder

`step` is the cycle that holds the campaign mutation lock, with what it has in memory: a
generation (both revisions and the seed select the sequence of candidates), the state it
loaded, and what it counted. One generation loops; cycles of the others are single runs or
other launches. The actions are the reads of a cycle in their order (`Enter`, `Count`,
`ReadDataset`, `ReadInventory`), then for each task the next candidate (`Choose`), the search
for a task of its identity (`Lookup`), the capacity (`CheckRoom`), the POST (`Post`,
`PostLost`), the second search (`Reconcile`) and `save_state` (`Save`). `Abort` is a request that
raises or a process that dies, `Lose` the state file that a power loss left empty. `Land` is a
request that arrives after its sender gave up. `End`, `Merge` and `Judge` are the scheduler
and the collector, the latter reduced to when a task's row is there and when it is classified
(`DatasetMerge` has the rest). A task has at most one row, of its own: rows are told apart by
project name and time, so two tasks of one candidate give two.

## 3. The runs

`expect: pass` runs explore their instance completely. `PROJECT.json` pairs each of their
properties with a mutant, a changed definition with which that run's property fails: this
is how we know that the bounds are large enough for the property to mean something.

| run | bounds | states | what it shows |
|---|---|---|---|
| `queue` | 3 jobs in every dependency shape, two in one cohort, 2 owners, lease 2, lag 1, back-off 1 and 2 | 59,537 | dependency order, coalescing, live leases kept, ends final, `JobLedger` implemented; every job ends |
| `workers` | 2 generations, of which the first has 2 lanes, spawned or forked, and may crash or be stopped, with a launcher or without; 1 job of 2 attempts, lease 4, interval 1, lag 1 | 223,165 | one believer per job, outputs are those of the last attempt, overlap of commands is explained; stop requests and lost lanes end the generation, and jobs end whatever the first generation leaves behind, unless they are abandoned |
| `plan` | four settings: 2 launches from different roots with the same script, 4000 then 6000 rows, 1 tuner; 2 launches, 3000 then 3500 rows, no model yet, 1 trainer; 1 launch with a model, 3000 then 4000 rows, both lanes; 3 launches, of which the second is from another root, 3000 rows, 1 trainer; 2 attempts | 210,948 | at most one live tuning per script; waiting trainings are of the last cycle's dataset and deployment, unless a rollover was rolled back; refusals are explained; tuning follows growth; hand-off follows promotion, and so do search and verification while the root stays |
| `store` | 2 publishers, 2 files of 2 versions, one power loss | 214,545 | answers are snapshots, also after the power loss; visible is complete |
| `verify` | 2 candidates, 2 runs of which one may fail; late POSTs to a scheduler that knows keys, or one that does not | 714,226 | one task per identity, by the key or by lock and search, justified retries, true documents; the other run completes the verification |
| `claim` | 3 attempts of a plan, 1 of another, all but one may crash | 73,277 | one POST, agreeing receipts; `RetrySlot` implemented; a listed task gets its complete record, or the file is torn |
| `feeder` | 2 generations of candidates, 2 rows wanted, 2 mishaps of any kind | 1,330,266 | at most a row per fault too many; no candidate recorded twice, and simulated twice only for a reason; the dataset fills |
| `checkpoint` | 3000 then 4000 rows, 2 executions, 2 generations of models, 1 crash, 1 rollback, started by the loop or by jobs | 207,038 | what state and pointer name is there, accepted and backed; the loop attempts what is due and notices the rollback |
| `dataset` | 1 task that is also a candidate of the driver, 1 local run, 2 passes, the driver, 1 crash, a fetch that may fail, a recollection | 887,798 | ranks never claim too much; what is not read again is kept; the view catches up |

The type invariants of the modules are theorems; those of `PipelineWorkers` and `PipelinePlanner`
are checked by the runs as well. Two invariants of the queue, `LeaseIffRunning` and
`AttemptBudget`, are theorems only.

Bounds. Three jobs give every shape in which dependents of dependents, two members of a cohort and
a third party meet; a lease of two ticks with a lag of one has timestamps before, at and after
expiry. In `workers` the proportions are those of the code: a lease of 120 s, a renewal every 30
s, a busy timeout of 30 s. The proportion matters: `OneBeliever` fails with a lease of 1 or 2 and
holds from `BeatInterval + 2 * Lag` = 3 ticks on (`LeaseAssumption`, with which it is a theorem),
so the code has one tick (30 s) to spare. Two generations are enough for an old lane next to a new
one; the second lane of the first one is idle, and is there to be lost, stopped or left behind.
`MaxJobs` of the planner's run is large enough that nothing is ever refused for it: the state
count does not change with a larger one. Its fourth setting is there for the exceptions alone: a
rollback is the shortest history in which a completed cycle leaves an untried training of another
root behind, and a search that can never be submitted again. Two source files with two versions
each are the smallest source of which a mixture can exist. Two publishers and one power loss are
enough for an incomplete generation that somebody else may meet. Two tasks per candidate are all
the code can ask for; `MaxTasks` leaves room for one more than a correct execution makes when
there is one candidate, and a duplicate of any identity fits in.

In `feeder`, two mishaps are what a duplicate takes (a submission that is not recorded and a
serial that is taken) and what exceeds the ceiling (a lost answer and a late request): both
happen, so `CeilingKept` and `ReplayExplained` say no more than is true. Two rows wanted let a
cycle submit twice and be cut short in between. In `checkpoint`, the thresholds completed
before leave 2000, which yields metrics, and 3000 and 4000, which yield models: a rollback
from the second to the first is the shortest there is. In `dataset` two passes are needed for
one to merge with an outdated listing, and a task that is both the collector's and the
driver's for the two writers to compete for a row.

Deadlock is checked in `queue`, `workers`, `plan`, `store` and `feeder`. In the others
programs end and nothing is left to do: claims and verifications have their receipts and
documents, all data are collected, every checkpoint is trained.

Fairness, and why the code justifies it:

* the queue: the clock runs; some worker polls every few seconds and each poll reconciles;
  attempts go on ending in a report. An owner that never reports is covered: its report is no
  longer enabled once the lease has run out;
* workers: lane loops, keeper threads, supervisors and a launcher that watches are scheduled, and
  commands that are left alone end. Nothing is assumed of crashes, stops, the controller, or
  whoever starts the role by hand: after a clean stop there need not be another supervisor;
* planner: `run_forever` repeats cycles whatever a cycle raised; a worker without a job polls;
  tunings and trainings take their steps. Whether a job succeeds or fails, and whether data
  grow, is open;
* verification: a started run goes on, tasks end; the claim: an attempt that cannot fail is
  run, and a process that was started goes on or dies;
* feeder: a cycle that has the lock goes on, the loop takes it again after its pause, tasks
  end, and `auto_collect_loop.sh` collects. Late requests need not arrive;
* checkpoints: the loop or the queue starts runs, and a run goes on; the planner plans; the
  retry timer expires. Whether a training or a gate succeeds is open;
* dataset: `auto_collect_loop.sh` and the collect lane start one pass after the other, a pass
  that lives goes on, and so does the driver.

Liveness properties are written `[]<>` of a state that, once reached, lasts until the next
submission, promotion or growth, of which a run has finitely many: so each of them is met.

### Where code and documents disagree

Three runs expect a violation. Each checks one sentence of a document or comment against the
model, and the counterexample is a behaviour of the code:

* `checkpoint_snapshot`. `orchestrator.py:1037` takes a missing snapshot of the active model
  for an error and stops planning. A crash between the promotion and its record makes the
  next execution train the same checkpoint again; when that attempt fails, because the
  twin is hardly better than the model that is active by now, the error path removes the
  snapshot both were trained on.
* `checkpoint_deferral`. A failed checkpoint is said to be deferred until the data grow or the
  retry timer expires. As a job of the pipeline its second attempt comes before the timer has
  expired, trains nothing and exits with 0; the row has succeeded and is not submitted again
  until the dataset changes.
* `dataset_wedge`. A pass that stops between master and ranks is said to cause a safe retry.
  The retry brings no new row, so it commits the tasks to the cache and writes no ranks; from
  then on every pass with rows is refused, and so is the driver.

Four more are visible in passing runs, as what a property has to except:

* `RefusalExplained` (`plan`). `orchestrator.py:3-6` calls its submissions idempotent. The
  payloads of searches, trainings and failed tunings have more in them than their keys: paths
  of the deployment, the number of active rows, the parameters of the latest tuning. After a
  rollover, or when a tuning publishes beside a training that has ended, `enqueue` raises in
  every cycle and what comes later in it (search, verification) is not planned, until another
  model is promoted or the dataset changes. For a search of a root that was left nothing of
  the kind need ever happen, so `SearchFollowsPromotion` excepts rollovers; without the
  exception it fails in the fourth setting.
* `FreshTrainingIsCurrent` (`plan`). Submitting the training of another dataset or root
  withdraws the one that waits (`orchestrator.py:763-831`). When a rollover is rolled back and
  the training of the first root has ended already, the submission finds that row and
  withdraws nothing: the training of the root left stays and is run. `RolledBack` excepts this.
* `ReplayExplained` (`feeder`). `feeder.py:1100-1101` says that switching controllers cannot
  replay candidates that an earlier generation consumed. After a submission that was not
  recorded, the first generation's candidate is chosen again with another serial once the
  second one has taken its own: the dedupe key differs, and it is simulated twice.
* `JobsEndUnlessAbandoned` (`workers`). A job may wait for ever when no lane is left for it and no
  supervisor is going to be started: none watched, the last one was told to stop, or the launcher
  left because it was refused the lock (`Abandoned`). The last case is the surprise:
  `runtime_lock.py:6` says that the operating system releases the lock when a process exits, but
  forked lanes keep the lock of a killed supervisor. As long as one of them lives no supervisor
  is admitted, and a lane that is lost meanwhile is replaced by nobody. While a launcher watches,
  or a lane that serves the job lives, it ends.

In `claim`, `LandedIsFinalized` has an exception by design: `finalized.json` is created with
`O_EXCL` and written afterwards (`mft_campaign_atomic_claim.py:301`), and a process that dies in
between leaves a file that nobody accepts and nobody replaces (`Torn`); a person has to settle it.

## 4. The proofs

TLAPS proves the theorems below for every value of the constants that satisfies the named
assumptions of the modules. They state every safety invariant and every action property that a
passing run checks, and the two refinements. Each `...Proofs` module follows the same plan: an
inductive invariant `Inv`, one lemma per action that it is preserved, and the theorems as
consequences. TLC has checked the same invariants on the instances above.

| module | theorems | inductive invariant |
|---|---|---|
| `DurableQueueProofs` | `TypeCorrect`, `LeaseDiscipline`, `AttemptsBounded`, `DependenciesFirst`, `LeaseRespected`, `OutcomesFinal`, `Coalescing`, `Refinement` | types; a row exists with a request or not at all (`Recorded`); a row that runs has been charged (`Charged`); the safety invariants |
| `PipelineProofs`, workers | `WorkersTypeCorrect`, `LateOutputRefused`, `OneBelieverHolds`, `OverlapsExplained`, `WorkersUseQueue`, `WorkersImplementLedger` | `WorkersInv`: that of the queue, types, what step, job and command of a worker have to do with each other and with the row; `Held`: the lease of whoever believes in it outlasts every write that may still be late |
| `PipelineProofs`, planner | `PlannerTypeCorrect`, `TuningsAlone`, `TrainingsReplaced`, `RefusalsExplained`, `PlannerUsesQueue`, `PlannerImplementsLedger` | `PlannerInv`: that of the queue, types, each row is what some cycle submits, once per key, and the registers of a cycle fit its step; one more for each of the three properties |
| `GenerationStoreProofs` | `TypeCorrect`, `Snapshots`, `Completeness` | the sources form a chain; what was hashed was in the source after the call; what was copied is of one moment between the passes; every identity in the store is that of a source there was |
| `SchedulerVerificationProofs` | `TypeCorrect`, `OneTask`, `RetriesJustified`, `Documents` | every record, in the file, in any run's memory or in a document, is true of the scheduler's tasks |
| `CampaignClaimProofs` | `TypeCorrect`, `ExactlyOnce`, `Receipts`, `SlotRefinement` | what is durable at each step of an attempt; all evidence is of the owner's task; for the refinement also that evidence is true of the task, and that an attempt has no task before its POST |
| `CampaignFeederProofs` | `FeederTyping`, `NothingTwice`, `NoOverrun`, `ReplaysExplained` | cursors are never behind what is recorded; rows there, rows expected, requests in the network and what the cycle still intends fit under the ceiling plus the faults; a state file that was not lost is determined by its serial |
| `CheckpointTrainingProofs` | `CheckpointTyping`, `Backing` | what a run holds while it has the lock; generations in the state are in the registry, accepted, once active, and have their snapshots |
| `DatasetMergeProofs` | `DatasetTyping`, `Backed`, `NothingIsLost` | who writes has the lock; the ranks a writer will install fit the master as it is; what a pass will cache is in its frame, and then in the master |

* **Queue.** A transaction moves many rows at once, so the step lemmas first say what
  happens to *one* row (`RowMove`, nine ways), and everything else is proved from that:
  the invariants, the two action properties, and `Refinement`, where each row move is a move of
  `JobLedger`. `AttemptAfterParents` is inductive only together with the finality of
  `succeeded`.
* **Workers.** Every step of a lane, a keeper or a supervisor is a step of the queue or leaves it
  alone (`WorkersUseQueue`), so the invariant of the queue holds beneath it, and with it the
  refinement of `JobLedger`; a worker then only has to know what a step can do to a row that is
  its own, or not (`NoStart`, `NoSuccess`, `LiveKept`). `LateOutputRefused` holds whatever the
  length of the lease: `succeed` compares the owner, an owner's row is in the attempt it works at
  (`SameTry`), and it has published before it asks. `OneBelieverHolds` is a matter of time: a
  renewal written with a timestamp `Lag` old leaves at least `LeaseTicks - Lag` of lease, the
  keeper is at most `BeatInterval + Lag` late, so with `LeaseAssumption` nothing has expired while
  it believes (`Held`). So the busy timeout counts twice, once in the timestamp and once in the
  delay. `OverlapsExplained` follows: commands of two believers would be commands of one job.
* **Planner.** Its steps are steps of the queue as well (`PlannerUsesQueue`), with requests whose
  form is known (`Own`). `TuningsAlone`: between the listing and the submission nobody else adds a
  tuning, so what the cycle listed is still all there is (`TuneListed`). `TrainingsReplaced`:
  dataset and launch only move forward, so an untried training is the latest one
  (`FreshIsLatest`); a new one withdraws it, and only a rollback can ask for a row that has ended,
  which withdraws nothing. `RefusalsExplained`: as long as the root is the same, rows of one key
  differ only in the parameters of a training, which come from a tuning (`ParamsTuned`), and in
  the rows of a search, which count a completed threshold (`SearchRows`); dependencies are
  determined by the model (`Chained`).
* **Store.** `Snapshots` is the argument that two identical passes over something that only
  moves forward prove that it stood still in between: a file that is copied with the version
  it was hashed with had that version at every moment between. An existing target is returned
  without a second pass; there the identity itself, made by somebody who did two passes,
  names a past source, and the inventory just hashed shows that it is not older than the
  call.
* **Verification.** Tasks are only added, and what is over stays over; so a record that was
  true once stays true, however old it is and whoever overwrites whom with it. Uniqueness needs
  in addition that a run at its POST holds the campaign lock and that no task of its identity
  exists, or that the scheduler knows the key; late POSTs are only of the second kind.
* **Claim.** Only the maker of the pending record gets past its creation to the POST; hence every
  task is the owner's, all evidence names it, and so does the finalized record. `SlotRefinement`
  needs more: evidence is a readback, true of the task when it was read, and stays true
  (`SeenIsTrue`), because a task that was queued or running is not lost any more. So the record is
  true although its author read it some steps earlier; that it is never replaced, and that a
  receipt is a copy of it, is `Receipts` seen step by step.
* **Feeder.** `NoOverrun` is an account. Between two reads of a cycle rows are merged and tasks
  classified, so the counts are of no single moment; but every row that appears comes from a
  task that was not classified when the dataset was read, hence was reserved (`Counted`). The
  plan is made under that estimate, a POST turns an intended row into an expected one, and a
  request that may still arrive has cost a fault (`Budget`). `NothingTwice` needs no locking
  beyond the one cycle: what a cycle forgets is also what the ledger never recorded.
  `ReplaysExplained`: cycles save in turn, each one name and one candidate further, so
  a file that was never lost says of every serial in use which candidate it named
  (`Numbered`): the next one of its generation, or one that is used up, or one whose serial was
  saved for another generation. Only the last kind is ever submitted again (`Paired`).
* **Checkpoints.** The pointer, the registry and the state file are written in this order and
  pruned in the opposite one; the invariant says, for each step of a run, which of them are
  ahead. A rollback can only name what was active before.
* **Dataset.** Master and ranks are replaced one after the other under one lock, so the
  invariant speaks about the ranks a writer *will* install. A pass that stops leaves ranks too
  low, never too high, which is all that `Backed` and `NothingIsLost` need.

From which assumptions. Sizes of instances are natural numbers, owners and jobs are any sets.
Beyond that: `LeaseAssumption`, used for `OneBelieverHolds` and `OverlapsExplained` alone, which
the defaults of the code satisfy and a lease configured below 80 s does not; `OutputAssumption`,
that an output tells which attempt it is of; `PlannerAssumption`, that datasets only grow and stay
below 9000 rows, where the sequence of thresholds is cut off; `SubmissionAssumption`, that the queue
beneath the planner may be given what a cycle submits; and `SchedulerAssumption` about the scheduler
(2.5). The two programs over the queue are proved about one at a time: no theorem speaks of
workers and planner together beyond what each says of the queue.

What is only model-checked: liveness, which with fairness and `ENABLED` is out of the
prover's reach. These are the temporal properties of the runs other than `ImplementsLedger` and
`ImplementsSlot`: `EveryJobEnds`, `StopReachesLanes`, `LaneLossEndsGeneration`,
`JobsEndUnlessAbandoned`, `TuningFollowsGrowth`, `SearchFollowsPromotion`,
`ManifestFollowsPromotion`, `VerificationEnds`, `LandedIsFinalized`, `CampaignFills`,
`DueIsAttempted`, `RollbackIsNoticed` and `ViewCatchesUp`. No model needs induction over data
or recursive operators.

## 5. What is left out

* The physics, training mathematics, optimisation, monitoring and report code: no protocol.
* Schema creation and migration of the queue; the wording of reasons; log files.
* Legacy job identities, drift and quality signals (the control loop raises none), and more
  than one collection window in the planner; what makes a candidate model acceptable.
* Hash collisions, clock steps, and file systems that lose a rename.
* The campaign controllers under `tools/`: one-shot programs pinned by hash, whose shared
  protocol is that of the claim.
* Progress of a slot whose claim was interrupted before its POST: the code asks for manual
  recovery, by design.
* Quality filters and recovery copies of the collector; the batch mode, revision gates and
  migrations of the feeder; models pinned by other consumers in the registry.
* The driver's stages other than INGEST, the AEDT pool, and cancellation by compare-and-set:
  planned (section 6).

`PROJECT.json` lists every component with its status, and maps every definition to its lines.

## 6. Plan

In this order; each with its runs, and proofs where the table says so.

| module | of | questions | proof |
|---|---|---|---|
| `AlDriver` | `al_driver.py` | stages are resumed and never skipped; a round submitted twice | |
| cancellation | `verify/scheduler_client.py` | compare-and-set against tasks that start meanwhile | yes |
| batch mode | `campaign/feeder.py` | sealed controllers next to the loop | |
| `AedtPool` | `module/aedt_pool_adapter.py` | a lease is released whatever fails | |
| a composition | dataset, checkpoints, planner, queue | growth leads to a verified model | |
