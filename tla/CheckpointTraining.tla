------------------------- MODULE CheckpointTraining -------------------------
(***************************************************************************)
(* Training at checkpoints of the dataset's size, and the registry of      *)
(* models (main of training/checkpoint_orchestrator.py, and the            *)
(* generations, pointer, promotion and retention of                        *)
(* training/train_models.py).                                              *)
(*                                                                         *)
(* A run is one execution of the checkpoint command.  Either a shell loop  *)
(* starts one every ten minutes on the live dataset, or the planner of     *)
(* PipelinePlanner submits a job per next checkpoint and dataset, whose    *)
(* row DurableQueue retries until it succeeds or has no attempt left.      *)
(* Runs are kept apart by checkpoint.lock only, and an administrator may   *)
(* put an earlier model back at any time.                                  *)
(*                                                                         *)
(* Simplifications: one contract, so the identity of the state file never  *)
(* changes; whatever a training or gate computes is a choice; clocks are   *)
(* replaced by the expiry of the retry timer; what a run reads before it   *)
(* has the lock, of which it keeps nothing, and the generations pinned by  *)
(* consumers, which pruning only spares, are left out.                     *)
(***************************************************************************)
EXTENDS Integers, Sequences, FiniteSetsExt

CONSTANTS Rows,         \* <<strict-full rows of each version of the dataset>>
          Runs,         \* executions of the command that may overlap
          Nobody,       \* no run
          NoGen,        \* no generation
          Minimum,      \* rows from which on a checkpoint yields a model
          Backed,       \* rows of growth after which a failed checkpoint is due again
          Spared,       \* newest generations that pruning keeps
          Drivers,      \* who starts runs: TRUE the loop, FALSE the planner's jobs
          Tries,        \* attempts of a training job
          Before,       \* thresholds completed before, on version 1
          MaxBuilt,     \* bound: generations built
          MaxRestores,  \* bound: rollbacks
          MaxCrashes    \* bound: crashes

Versions   == DOMAIN Rows
Checkpoints(rows) ==
    {k \in {500, 1000, 2000, 3000, 4000, 5000, 6000, 7000, 8000} : k <= rows}

\* The datasets reach no other.
Thresholds == UNION {Checkpoints(Rows[d]) : d \in Versions}

ASSUME RowsAssumption == Rows \in Seq(0 .. 8999) /\ Rows # <<>>
ASSUME BoundsAssumption ==
    /\ Minimum \in Nat /\ Backed \in Nat /\ Spared \in Nat /\ Tries \in Nat \ {0}
    /\ Drivers \subseteq BOOLEAN
    /\ MaxBuilt \in Nat /\ MaxRestores \in Nat /\ MaxCrashes \in Nat
    /\ Before \subseteq {k \in Checkpoints(Rows[1]) : k < Minimum}

VARIABLES looping,      \* started by the loop, or by the planner's jobs
          data,         \* version of the live dataset
          completed,    \* checkpoint_state.json: the completed checkpoints
          failed,       \* and [Thresholds -> version of the last failed attempt, or 0]
          snapshots,    \* strict_<threshold>_<digest of the rows>.parquet
          gens,         \* registry/generations
          gated,        \* those with a passing quality_gate.json
          pointer,      \* what current.json names
          past,         \* generations that were active (history, and what was captured)
          built,        \* generations built
          lock,         \* holder of checkpoint.lock
          run,          \* [Runs -> Run]
          jobs,         \* [Thresholds \X Versions -> Job]
          restores, crashes

world    == <<looping, data, restores>>
file     == <<completed, failed>>
registry == <<gens, gated, pointer, past, built>>
vars     == <<world, file, snapshots, registry, lock, run, jobs, crashes>>

\* The serial stands for the training run id, which is never used twice.
Generation == [threshold : Thresholds, data : Versions, serial : 1 .. MaxBuilt]

ASSUME NullAssumption == Nobody \notin Runs /\ NoGen \notin Generation

\* metrics_only, without a generation, or accepted_generation.  Items are recorded
\* in the order in which their generations are built.
Item == [threshold : Thresholds, data : Versions, gen : Generation \cup {NoGen}]

Keys  == Thresholds \X Versions
NoJob == <<0, 0>>

NoFailure == 0

Run == [step      : {"off", "begin", "train", "evaluate", "activate", "record", "prune"},
        data      : Versions,
        due       : Thresholds \cup {0},         \* the threshold it attempts, 0 if none
        expected  : Generation \cup {NoGen},     \* the pointer before it trained
        gen       : Generation \cup {NoGen},     \* its candidate
        job       : Keys \cup {NoJob}]           \* the job it is an attempt of

\* A row of the queue: pending again after an attempt that raised, over when it has no
\* attempt left or was superseded.
Job == [status : {"absent", "pending", "running", "succeeded", "over"}, attempts : 0 .. Tries]

CheckpointTypeOK ==
    /\ looping \in BOOLEAN /\ data \in Versions
    /\ completed \subseteq Item
    /\ failed \in [Thresholds -> Versions \cup {NoFailure}]
    /\ snapshots \subseteq Keys
    /\ gens \subseteq Generation /\ gated \subseteq Generation /\ past \subseteq Generation
    /\ pointer \in Generation \cup {NoGen} /\ built \in 0 .. MaxBuilt
    /\ lock \in Runs \cup {Nobody}
    /\ run \in [Runs -> Run]
    /\ jobs \in [Keys -> Job]
    /\ restores \in 0 .. MaxRestores /\ crashes \in 0 .. MaxCrashes

Idle == [step |-> "off", data |-> 1, due |-> 0, expected |-> NoGen, gen |-> NoGen,
         job |-> NoJob]

Init ==
    /\ looping \in Drivers /\ data = 1
    /\ completed = {[threshold |-> k, data |-> 1, gen |-> NoGen] : k \in Before}
    /\ failed = [k \in Thresholds |-> NoFailure]
    /\ snapshots = Before \X {1}
    /\ gens = {} /\ gated = {} /\ pointer = NoGen /\ past = {} /\ built = 0
    /\ lock = Nobody /\ run = [r \in Runs |-> Idle]
    /\ jobs = [key \in Keys |-> [status |-> "absent", attempts |-> 0]]
    /\ restores = 0 /\ crashes = 0

----------------------------------------------------------------------------
(* What is due                                                             *)

Models(items) == {i.gen : i \in items} \ {NoGen}
ThresholdsOf(items) == {i.threshold : i \in items}

\* _completion_error: the snapshot and the accepted generation are still there.
Coherent(item) ==
    /\ <<item.threshold, item.data>> \in snapshots
    /\ item.gen # NoGen => item.gen \in gens \cap gated

\* Mutant of Reconciled: completions newer than the active generation stay.
ReconciledLenient == {i \in completed : Coherent(i)}

\* reconcile_completed: without an accepted generation newer than the active one,
\* and without any if the active one is unknown and does not supersede them all.
Reconciled ==
    LET valid    == {i \in completed : Coherent(i)}
        accepted == {i \in valid : i.gen # NoGen}
    IN IF pointer \in Models(valid)
       THEN {i \in valid : i.gen # NoGen => i.gen.serial <= pointer.serial}
       ELSE IF /\ pointer \in gens \cap gated
               /\ \A i \in accepted : i.threshold <= Rows[pointer.data]
            THEN valid
            ELSE valid \ accepted

\* due_with_backoff: no failure within the retry time, or growth since; what was
\* invalidated is ready in any case.
Ready(k, d) == failed[k] = NoFailure \/ Rows[d] - Rows[failed[k]] >= Backed

ReadyCheckpoints(d) ==
    LET due    == Checkpoints(Rows[d]) \ ThresholdsOf(Reconciled)
        forced == ThresholdsOf(completed \ Reconciled)
    IN {k \in due : k \in forced \/ Ready(k, d)}

\* One checkpoint per run, the lowest.
Lowest(S) == IF S = {} THEN 0 ELSE Min(S)

\* plan_cycle: the lowest threshold above what the active model or the completed
\* checkpoints stand for; no plan without the snapshot of the active model.
ActiveRows ==
    Max({0} \cup {k \in ThresholdsOf(completed) : k <= Rows[data]}
            \cup (IF pointer = NoGen THEN {} ELSE {Rows[pointer.data]}))

SnapshotOf(g) == <<g.threshold, g.data>>

Requested == <<Lowest({k \in Checkpoints(Rows[data]) : k > ActiveRows}), data>>

\* A row that is running, of whatever threshold, is kept to and makes the pending ones
\* obsolete, and so does the requested row as long as it can still run; it is inserted
\* only once.  Without a threshold that is due no row stays pending.
Plan ==
    /\ ~ looping
    /\ pointer # NoGen => SnapshotOf(pointer) \in snapshots
    /\ LET running    == \E key \in Keys : jobs[key].status = "running"
           wanted     == IF running THEN {} ELSE {Requested} \cap Keys
           superseded == \A key \in wanted : jobs[key].status \in {"absent", "pending"}
       IN jobs' = [key \in Keys |->
                     CASE key \in wanted /\ jobs[key].status = "absent" ->
                              [jobs[key] EXCEPT !.status = "pending"]
                       [] superseded /\ key \notin wanted /\ jobs[key].status = "pending" ->
                              [jobs[key] EXCEPT !.status = "over"]
                       [] OTHER -> jobs[key]]
    /\ UNCHANGED <<world, file, snapshots, registry, lock, run, crashes>>

----------------------------------------------------------------------------
(* A run                                                                   *)

Goes(r, step) == run' = [run EXCEPT ![r].step = step]

\* The loop starts a run for no job.
Startable(key) == IF looping THEN key = NoJob ELSE key \in Keys /\ jobs[key].status = "pending"

Row(key, status, attempts) ==
    IF key = NoJob THEN jobs
    ELSE [jobs EXCEPT ![key] = [status |-> status, attempts |-> attempts]]
Attempted(key) == Row(key, "running", jobs[key].attempts + 1)
Finished(key)  == Row(key, "succeeded", jobs[key].attempts)
Failed(key, attempts) == Row(key, IF attempts < Tries THEN "pending" ELSE "over", attempts)

\* Mutant of Ends: the lock outlives the process.
EndsLocked(r) == run' = [run EXCEPT ![r] = Idle] /\ UNCHANGED lock

\* The process ends, with an error or without one.
Ends(r) == /\ run' = [run EXCEPT ![r] = Idle]
           /\ lock' = IF lock = r THEN Nobody ELSE lock
Raises(r) == Ends(r) /\ jobs' = Failed(run[r].job, jobs[run[r].job].attempts)
Exits(r)  == Ends(r) /\ jobs' = Finished(run[r].job)

\* The loop reads the live dataset, a job the generation it was submitted with.
Reads(key) == IF key = NoJob THEN data ELSE key[2]

Claimed(key, due) == [Idle EXCEPT !.step = "begin", !.data = Reads(key), !.due = due, !.job = key]

\* Mutant of Claim: the checkpoint lock is not taken.
ClaimUnlocked(r, key) ==
    /\ run[r].step = "off" /\ Startable(key)
    /\ completed' = Reconciled
    /\ LET due == Lowest(ReadyCheckpoints(Reads(key)))
       IN IF due = 0 THEN jobs' = Finished(key) /\ UNCHANGED run
          ELSE jobs' = Attempted(key) /\ run' = [run EXCEPT ![r] = Claimed(key, due)]
    /\ UNCHANGED <<world, failed, snapshots, registry, lock, crashes>>

\* Under the lock the state is read, reconciled and saved.  Nothing due is success.
Claim(r, key) ==
    /\ run[r].step = "off" /\ lock = Nobody /\ Startable(key)
    /\ completed' = Reconciled
    /\ LET due == Lowest(ReadyCheckpoints(Reads(key)))
       IN IF due = 0 THEN jobs' = Finished(key) /\ UNCHANGED <<lock, run>>
          ELSE /\ jobs' = Attempted(key) /\ lock' = r
               /\ run' = [run EXCEPT ![r] = Claimed(key, due)]
    /\ UNCHANGED <<world, failed, snapshots, registry, crashes>>

\* Another run has the lock for longer than a second.
Busy(r, key) ==
    /\ run[r].step = "off" /\ lock # Nobody /\ Startable(key)
    /\ jobs' = Failed(key, jobs[key].attempts + 1)
    /\ UNCHANGED <<world, file, snapshots, registry, lock, run, crashes>>

Begin(r) ==
    /\ run[r].step = "begin"
    /\ snapshots' = snapshots \cup {<<run[r].due, run[r].data>>}
    /\ run' = [run EXCEPT ![r].step = "train", ![r].expected = pointer]
    /\ UNCHANGED <<world, file, registry, lock, jobs, crashes>>

Candidate(r) == [threshold |-> run[r].due, data |-> run[r].data, serial |-> built + 1]

\* The training commands: metrics only, or a candidate generation too.
Train(r) ==
    /\ run[r].step = "train"
    /\ IF run[r].due < Minimum THEN Goes(r, "record") /\ UNCHANGED <<gens, built>>
       ELSE /\ built < MaxBuilt
            /\ run' = [run EXCEPT ![r].step = "evaluate", ![r].gen = Candidate(r)]
            /\ gens' = gens \cup {Candidate(r)} /\ built' = built + 1
    /\ UNCHANGED <<world, file, snapshots, gated, pointer, past, lock, jobs, crashes>>

\* promote_generation: the candidate passed its gate, the pointer is still the one
\* before training, and the candidate improves on the incumbent.
Accept(r) ==
    /\ run[r].step = "evaluate"
    /\ pointer = run[r].expected
    /\ pointer # NoGen => Rows[run[r].data] >= Rows[pointer.data]
    /\ gated' = gated \cup {run[r].gen}
    /\ Goes(r, "activate")
    /\ UNCHANGED <<world, file, snapshots, gens, pointer, past, built, lock, jobs, crashes>>

\* ... and the pointer last.
Activate(r) ==
    /\ run[r].step = "activate"
    /\ pointer' = run[r].gen /\ past' = past \cup {run[r].gen}
    /\ Goes(r, "record")
    /\ UNCHANGED <<world, file, snapshots, gens, gated, built, lock, jobs, crashes>>

Completion(r) == [threshold |-> run[r].due, data |-> run[r].data, gen |-> run[r].gen]

Record(r) ==
    /\ run[r].step = "record"
    /\ completed' = completed \cup {Completion(r)}
    /\ IF run[r].gen = NoGen THEN Exits(r) ELSE Goes(r, "prune") /\ UNCHANGED <<lock, jobs>>
    /\ UNCHANGED <<world, failed, snapshots, registry, crashes>>

\* Mutant of Prunable: only what the state lists is protected.
PrunableActive ==
    {g \in gens : /\ g \notin Models(completed)
                  /\ Cardinality({h \in gens : h.serial > g.serial}) >= Spared}

\* Neither active, nor completed, nor one of the newest.
Prunable ==
    {g \in gens : /\ g # pointer /\ g \notin Models(completed)
                  /\ Cardinality({h \in gens : h.serial > g.serial}) >= Spared}

\* prune_inactive_generations, of which a failure is only a warning.
Prune(r) ==
    /\ run[r].step = "prune"
    /\ gens' \in {gens, gens \ Prunable} /\ gated' = gated \cap gens'
    /\ Exits(r)
    /\ UNCHANGED <<world, file, snapshots, pointer, past, built, crashes>>

\* A command, the gate, the promotion or a save raises before the pointer is set: the
\* candidate is discarded, the failure saved with the state in memory, the snapshot
\* removed.
Fails(r) ==
    /\ \/ run[r].step \in {"train", "evaluate", "activate"}
       \/ run[r].step = "record" /\ run[r].gen = NoGen
    /\ gens' \in {gens, gens \ {run[r].gen}} /\ gated' = gated \cap gens'
    /\ failed' = [failed EXCEPT ![run[r].due] = run[r].data]
    /\ completed' = IF run[r].step = "record" THEN completed \cup {Completion(r)}
                    ELSE completed
    /\ snapshots' = snapshots \ {<<run[r].due, run[r].data>>}
    /\ Raises(r)
    /\ UNCHANGED <<world, pointer, past, built, crashes>>

\* The process dies, or an error ends it after the pointer was set.  A training
\* command it leaves behind may still finish its candidate.
Dies(r) ==
    /\ run[r].step # "off" /\ crashes < MaxCrashes
    /\ crashes' = crashes + 1
    /\ \/ UNCHANGED <<gens, built>>
       \/ /\ run[r].step = "train" /\ run[r].due >= Minimum /\ built < MaxBuilt
          /\ gens' = gens \cup {Candidate(r)} /\ built' = built + 1
    /\ Raises(r)
    /\ UNCHANGED <<world, file, snapshots, gated, pointer, past>>

----------------------------------------------------------------------------
(* Everybody else                                                          *)

\* restore_active_generation: an administrator puts back what was captured once.
\* The registry's writer lock keeps it out of a promotion.
Restore(g) ==
    /\ g \in (past \cap gens \cap gated) \cup {NoGen} /\ g # pointer
    /\ restores < MaxRestores /\ restores' = restores + 1
    /\ \A r \in Runs : run[r].step # "activate"
    /\ pointer' = g
    /\ UNCHANGED <<looping, data, file, snapshots, gens, gated, past, built, lock, run, jobs,
                   crashes>>

Grow ==
    /\ data + 1 \in Versions /\ data' = data + 1
    /\ UNCHANGED <<looping, restores, file, snapshots, registry, lock, run, jobs, crashes>>

\* retry_backoff_seconds have passed since the last failure, which counts no more.
Expire(k) ==
    /\ failed[k] # NoFailure
    /\ failed' = [failed EXCEPT ![k] = NoFailure]
    /\ UNCHANGED <<world, completed, snapshots, registry, lock, run, jobs, crashes>>

Start(r) == \E key \in Keys \cup {NoJob} : Claim(r, key) \/ Busy(r, key)
RunStep(r) == \/ Start(r) \/ Begin(r) \/ Train(r) \/ Accept(r)
              \/ Activate(r) \/ Record(r) \/ Prune(r) \/ Fails(r)

Next == \/ \E r \in Runs : RunStep(r) \/ Dies(r)
        \/ Plan
        \/ \E g \in past \cup {NoGen} : Restore(g)
        \/ \E k \in Thresholds : Expire(k)
        \/ Grow

Spec == Init /\ [][Next]_vars

----------------------------------------------------------------------------
(* Properties                                                              *)

\* Whatever fails, crashes, overlaps or is rolled back: the active generation is there
\* and accepted; every model a checkpoint was completed with was once active, is still
\* there, accepted, and has its snapshot; no checkpoint is completed twice.
AcceptedIsBacked ==
    /\ pointer # NoGen => pointer \in gens \cap gated \cap past
    /\ \A i \in completed : i.gen # NoGen =>
          /\ i.gen \in gens \cap gated \cap past
          /\ SnapshotOf(i.gen) = <<i.threshold, i.data>> /\ SnapshotOf(i.gen) \in snapshots
    /\ \A i, j \in completed : i.threshold = j.threshold => i = j

Due == Checkpoints(Rows[data]) \ ThresholdsOf(completed)
Attempting == \E r \in Runs : run[r].step = "train"

\* Fairness: whoever starts runs goes on doing so, a run goes on, and timers expire.
Fairness == /\ WF_vars(\E r \in Runs : RunStep(r))
            /\ WF_vars(Plan)
            /\ \A k \in Thresholds : WF_vars(Expire(k))

FairSpec == Spec /\ Fairness

\* The loop never gives up: as long as a checkpoint is due, one is attempted again
\* and again, whatever failed or crashed before.
DueIsAttempted == []<>(looping => Due = {} \/ Attempting)

\* Nor does it overlook a rollback: again and again the state claims no checkpoint
\* for a model beyond the rows of the active one.
RollbackIsNoticed ==
    []<>(looping => \A i \in completed : i.gen # NoGen =>
                        pointer # NoGen /\ i.threshold <= Rows[pointer.data])

----------------------------------------------------------------------------
(* What documents say, and the code does not do                            *)

\* pipeline/orchestrator.py: the active model's immutable dataset snapshot is there.
ActiveHasSnapshot == pointer # NoGen => SnapshotOf(pointer) \in snapshots

\* training/checkpoint_orchestrator.py: a failed checkpoint is deferred until the data
\* grows or the retry timer expires, and not longer, unless its job has failed for good.
DeferralEnds ==
    []<>(\/ Attempting
         \/ \A k \in Due : Ready(k, data) => jobs[<<k, data>>].status = "over")
=============================================================================
