---------------------------- MODULE DatasetMerge ----------------------------
(***************************************************************************)
(* The cumulative dataset and its two writers (main and merge_dataset of   *)
(* campaign/collect_wave.py, stage_ingest of al_driver.py).                *)
(*                                                                         *)
(* The master file holds one row per sample identity.  A sample can be     *)
(* read in several forms: from the output of its task, from the files of a *)
(* local run, or as a candidate that the active-learning driver verified.  *)
(* A form with a higher rank replaces a row with a lower one; the ranks    *)
(* are in a file of their own, replaced after the master.  A third file is *)
(* the view that training reads, a fourth the cache of tasks and parts     *)
(* that need not be read again.  The writers take turns by a file lock.    *)
(*                                                                         *)
(* Simplifications: a task or a local run has one sample, and what it says *)
(* of it is given by the form alone; rows that the quality filters drop,   *)
(* rows without an identity, the demotion of old thermal flags, the        *)
(* archived parts, the manifest and the recovery copies of the cache are   *)
(* left out, as are limits on how many tasks a pass reads.  The driver is  *)
(* at the end of one round whose candidates have one task each.            *)
(***************************************************************************)
EXTENDS Integers, FiniteSets

CONSTANTS Tasks,       \* tasks that the collector's prefixes list
          Locals,      \* local runs
          Candidates,  \* tasks of the round that the driver ingests
          Collectors,  \* passes of the collector that may overlap
          Driver,      \* the active-learning driver
          Nobody,
          Streaming,   \* does a pass read running tasks: any of these
          Flaky,       \* tasks and local runs whose output a pass may fail to read
          Recollected, \* tasks that an operator may have collected again
          MaxCrashes   \* bound: passes and drivers that crash

ASSUME ActorsAssumption ==
    /\ Driver \notin Collectors /\ Nobody \notin Collectors \cup {Driver}
    /\ Candidates \subseteq Tasks /\ Recollected \subseteq Tasks
    /\ Tasks \cap Locals = {} /\ Flaky \subseteq Tasks \cup Locals
    /\ Streaming \subseteq BOOLEAN /\ MaxCrashes \in Nat

VARIABLES status,   \* [Tasks -> status at the scheduler]
          output,   \* [Tasks -> forms in its stdout]
          saved,    \* [Locals -> forms in the files of local runs]
          master,   \* train.parquet: [Ids -> form of the row, or "none"]
          ranks,    \* source_ranks.parquet: [Ids -> rank, 0 if it has no row]
          view,     \* train_io.parquet: the master it was built from
          cache,    \* collect_cache.json
          lock,     \* holder of train.parquet.lock
          pass,     \* [Collectors -> Pass]
          driver,   \* the driver: its step and the ranks it will install
          crashes

outside == <<status, output, saved>>
vars    == <<outside, master, ranks, view, cache, lock, pass, driver, crashes>>

Ids == Tasks \cup Locals

\* "failed" is failed or cancelled, "withdrawn" cancelled before it was started.  Nobody
\* reads a task that waits: tasks run from the start, or have been withdrawn.
Ended == {"completed", "failed", "withdrawn"}

\* A task that failed has its rows audited and marked ("guarded"); a
\* local run writes a part and a line of a CSV file ("local").
Forms == {"csv", "json", "guarded", "local", "part", "candidate"}

Rank == [csv |-> 10, json |-> 20, guarded |-> 20, local |-> 30, part |-> 40, candidate |-> 50]

\* Collecting a task again raises the rank of its rows by one.
Again(form) == Rank[form] + 1

\* The highest rank at which a row of this form can be read.
Authority(form) ==
    CASE form \in {"csv", "json", "guarded"}      -> Again(form)
      [] form \in {"local", "part", "candidate"} -> Rank[form]
      [] OTHER                                   -> 0

Row == [form : Forms \cup {"none"}, rank : 0 .. 50]
NoRow == [form |-> "none", rank |-> 0]

Pass == [step      : {"off", "fetch", "merge", "ranks", "view", "cache"},
         listed    : [Tasks -> {"running"} \cup Ended],
         skip      : SUBSET Ids,          \* what the cache says need not be read
         again     : SUBSET Tasks,        \* --recollect-task
         frame     : [Ids -> Row],        \* what it has read
         harvested : SUBSET Tasks,        \* what it will add to the cache
         nodata    : SUBSET Tasks,
         parts     : SUBSET Locals,
         plan      : [Ids -> 0 .. 50]]    \* the ranks to install

Off == [step |-> "off", listed |-> [t \in Tasks |-> "running"], skip |-> {}, again |-> {},
        frame |-> [i \in Ids |-> NoRow], harvested |-> {}, nodata |-> {}, parts |-> {},
        plan |-> [i \in Ids |-> 0]]

DatasetTypeOK ==
    /\ status \in [Tasks -> {"running"} \cup Ended]
    /\ output \in [Tasks -> SUBSET {"json", "csv"}]
    /\ saved \in [Locals -> SUBSET {"local", "part"}]
    /\ master \in [Ids -> Forms \cup {"none"}]
    /\ ranks \in [Ids -> 0 .. 50]
    /\ view \in [Ids -> Forms \cup {"none"}]
    /\ cache \in [harvested : SUBSET Tasks, nodata : SUBSET Tasks, parts : SUBSET Locals]
    /\ lock \in Collectors \cup {Driver, Nobody}
    /\ pass \in [Collectors -> Pass]
    /\ driver \in [step : {"wait", "ingest", "ranks", "save", "check"},
                   plan : [Ids -> 0 .. 50]]
    /\ crashes \in 0 .. MaxCrashes

Init ==
    /\ status \in [Tasks -> {"running", "withdrawn"}] /\ output = [t \in Tasks |-> {}]
    /\ saved = [i \in Locals |-> {}]
    /\ master = [i \in Ids |-> "none"] /\ ranks = [i \in Ids |-> 0]
    /\ view = [i \in Ids |-> "none"]
    /\ cache = [harvested |-> {}, nodata |-> {}, parts |-> {}]
    /\ lock = Nobody /\ pass = [p \in Collectors |-> Off]
    /\ driver = [step |-> "wait", plan |-> Off.plan]
    /\ crashes = 0

----------------------------------------------------------------------------
(* The tasks and the local runs                                            *)

\* The sample is finished: its line is in the output, and the task goes on.
Emit(t) ==
    /\ status[t] = "running" /\ output[t] = {}
    /\ output' = [output EXCEPT ![t] = {"json"}]
    /\ UNCHANGED <<status, saved, master, ranks, view, cache, lock, pass, driver, crashes>>

\* A completed task adds the aggregate; the line may have been cut off by then.
End(t) ==
    /\ status[t] = "running"
    /\ \/ /\ status' = [status EXCEPT ![t] = "completed"]
          /\ output[t] # {}
          /\ \E forms \in {{"json", "csv"}, {"csv"}} : output' = [output EXCEPT ![t] = forms]
       \/ /\ \E end \in {"completed", "failed"} :
               status' = [status EXCEPT ![t] = end]
          /\ UNCHANGED output
    /\ UNCHANGED <<saved, master, ranks, view, cache, lock, pass, driver, crashes>>

\* save_results_to_csv: the part first; either may fail to be written.
Save(i) ==
    /\ saved[i] = {}
    /\ \E forms \in (SUBSET {"local", "part"}) \ {{}} : saved' = [saved EXCEPT ![i] = forms]
    /\ UNCHANGED <<status, output, master, ranks, view, cache, lock, pass, driver, crashes>>

----------------------------------------------------------------------------
(* A pass of the collector: what it reads                                  *)

\* list_tasks and _load_cache.  A task collected again must have ended.
List(p) ==
    /\ pass[p].step = "off"
    /\ \E again \in {{}} \cup {{t} : t \in {r \in Recollected : status[r] \in Ended}} :
         pass' = [pass EXCEPT ![p] =
             [Off EXCEPT !.step = "fetch", !.listed = status, !.again = again,
                         !.skip = ((cache.harvested \cup cache.nodata) \ again) \cup cache.parts]]
    /\ UNCHANGED <<outside, master, ranks, view, cache, lock, driver, crashes>>

\* The tasks whose output decides what becomes of them.
Pending(p) ==
    {t \in Tasks : pass[p].listed[t] \in Ended \ {"withdrawn"} /\ t \notin pass[p].skip}

Withdrawn(p) == {t \in Tasks : pass[p].listed[t] = "withdrawn" /\ t \notin pass[p].skip}

Running(p) == {t \in Tasks : pass[p].listed[t] = "running"}

\* guard_terminal_result_json changes the rows of a task that did not complete.
FormOf(p, t) ==
    IF "json" \notin output[t] THEN "csv"
    ELSE IF pass[p].listed[t] = "failed" THEN "guarded" ELSE "json"

TaskRow(p, t) ==
    LET form == FormOf(p, t)
    IN [form |-> form, rank |-> IF t \in pass[p].again THEN Again(form) ELSE Rank[form]]

\* Parts that are not in the cache and can be read.
PartsOf(p, broken) == {i \in Locals : "part" \in saved[i]} \ (pass[p].skip \cup broken)

\* What can be read of every sample, of the highest rank (_deduplicate_ranked_rows).
FrameOf(p, read, streamed, parts) ==
    [i \in Ids |->
        IF i \in Tasks
        THEN IF i \in read /\ output[i] # {} THEN TaskRow(p, i)
             ELSE IF i \in streamed /\ "json" \in output[i]
             THEN [form |-> "json", rank |-> Rank.json]
             ELSE NoRow
        ELSE IF i \in parts THEN [form |-> "part", rank |-> Rank.part]
             ELSE IF "local" \in saved[i] THEN [form |-> "local", rank |-> Rank.local]
             ELSE NoRow]

\* Only an output that was read proves that a task has no data.
Judged(p, read) == {t \in read : output[t] = {}} \cup Withdrawn(p)

Fetch(p) ==
    /\ pass[p].step = "fetch"
    /\ \E broken \in SUBSET Flaky, streaming \in Streaming :
         LET read     == Pending(p) \ broken
             streamed == IF streaming THEN Running(p) \ broken ELSE {}
             parts    == PartsOf(p, broken)
         IN pass' = [pass EXCEPT
                ![p].step = "merge", ![p].listed = Off.listed, ![p].skip = {}, ![p].again = {},
                ![p].frame = FrameOf(p, read, streamed, parts),
                ![p].harvested = {t \in read : output[t] # {}},
                ![p].nodata = Judged(p, read), ![p].parts = parts]
    /\ UNCHANGED <<outside, master, ranks, view, cache, lock, driver, crashes>>

----------------------------------------------------------------------------
(* Ranks decide                                                            *)

\* Rows of the master without a rank: an install stopped between the two files.
Uncovered == {i \in Ids : master[i] # "none" /\ ranks[i] = 0}

\* Mutant of Replayed: an identity that is read again is enough.
ReplayedByKey(frame) == \A i \in Uncovered : frame[i] # NoRow

\* _matching_replay_rows: each of them is read again, and says the same.
Replayed(frame) == \A i \in Uncovered : frame[i].form = master[i]

\* _validated_source_rank_sidecar, _validated_existing_source_ranks.
Held(frame, i) == IF i \in Uncovered THEN frame[i].rank ELSE ranks[i]

\* select_new_unique_rows.
Accepted(frame) == {i \in Ids : frame[i].rank > Held(frame, i)}

Merged(frame) == [i \in Ids |-> IF i \in Accepted(frame) THEN frame[i].form ELSE master[i]]

RanksOf(frame) ==
    [i \in Ids |-> IF i \in Accepted(frame) THEN frame[i].rank ELSE Held(frame, i)]

Empty(frame) == \A i \in Ids : frame[i] = NoRow

----------------------------------------------------------------------------
(* A pass of the collector: what it writes                                 *)

\* Neither view nor cache is written by a pass whose merge is refused.
Refuse(p) ==
    /\ pass[p].step = "merge" /\ lock = Nobody
    /\ ~Empty(pass[p].frame) /\ ~Replayed(pass[p].frame)
    /\ pass' = [pass EXCEPT ![p] = Off]
    /\ UNCHANGED <<outside, master, ranks, view, cache, lock, driver, crashes>>

\* Mutant of Unchanged: without new rows the view is left as it is.
UnchangedView(p) ==
    /\ pass[p].step = "merge" /\ lock = Nobody
    /\ \/ Empty(pass[p].frame)
       \/ (Replayed(pass[p].frame) /\ Accepted(pass[p].frame) = {})
    /\ lock' = p
    /\ pass' = [pass EXCEPT ![p].step = "cache", ![p].frame = Off.frame]
    /\ UNCHANGED <<outside, master, ranks, view, cache, driver, crashes>>

\* Nothing was read, or nothing that the master does not have.
Unchanged(p) ==
    /\ pass[p].step = "merge" /\ lock = Nobody
    /\ \/ Empty(pass[p].frame)
       \/ (Replayed(pass[p].frame) /\ Accepted(pass[p].frame) = {})
    /\ lock' = p
    /\ pass' = [pass EXCEPT ![p].step = "view", ![p].frame = Off.frame]
    /\ UNCHANGED <<outside, master, ranks, view, cache, driver, crashes>>

\* Mutant of Merge: the lock is not taken.
MergeUnlocked(p) ==
    /\ pass[p].step = "merge"
    /\ ~Empty(pass[p].frame) /\ Replayed(pass[p].frame) /\ Accepted(pass[p].frame) # {}
    /\ master' = Merged(pass[p].frame)
    /\ pass' = [pass EXCEPT ![p].step = "ranks", ![p].frame = Off.frame,
                            ![p].plan = RanksOf(pass[p].frame)]
    /\ UNCHANGED <<outside, ranks, view, cache, lock, driver, crashes>>

Merge(p) ==
    /\ pass[p].step = "merge" /\ lock = Nobody
    /\ ~Empty(pass[p].frame) /\ Replayed(pass[p].frame) /\ Accepted(pass[p].frame) # {}
    /\ lock' = p
    /\ master' = Merged(pass[p].frame)
    /\ pass' = [pass EXCEPT ![p].step = "ranks", ![p].frame = Off.frame,
                            ![p].plan = RanksOf(pass[p].frame)]
    /\ UNCHANGED <<outside, ranks, view, cache, driver, crashes>>

InstallRanks(p) ==
    /\ pass[p].step = "ranks"
    /\ ranks' = pass[p].plan
    /\ pass' = [pass EXCEPT ![p].step = "view", ![p].plan = Off.plan]
    /\ UNCHANGED <<outside, master, view, cache, lock, driver, crashes>>

InstallView(p) ==
    /\ pass[p].step = "view"
    /\ view' = master
    /\ pass' = [pass EXCEPT ![p].step = "cache"]
    /\ UNCHANGED <<outside, master, ranks, cache, lock, driver, crashes>>

\* _commit_pending_cache adds to the cache as it is now.
Commit(p) ==
    /\ pass[p].step = "cache"
    /\ cache' = [harvested |-> cache.harvested \cup pass[p].harvested,
                 nodata    |-> cache.nodata \cup pass[p].nodata,
                 parts     |-> cache.parts \cup pass[p].parts]
    /\ lock' = Nobody
    /\ pass' = [pass EXCEPT ![p] = Off]
    /\ UNCHANGED <<outside, master, ranks, view, driver, crashes>>

\* The process ends, or a replacement fails, which ends it as well.
Crash(p) ==
    /\ pass[p].step # "off" /\ crashes < MaxCrashes
    /\ pass' = [pass EXCEPT ![p] = Off]
    /\ lock' = IF lock = p THEN Nobody ELSE lock
    /\ crashes' = crashes + 1
    /\ UNCHANGED <<outside, master, ranks, view, cache, driver>>

----------------------------------------------------------------------------
(* The driver                                                              *)

\* A candidate whose task ended without a result is exhausted.
Verified == {c \in Candidates : status[c] \in Ended /\ "json" \in output[c]}

CandidateFrame ==
    [i \in Ids |-> IF i \in Verified
                   THEN [form |-> "candidate", rank |-> Rank.candidate] ELSE NoRow]

\* stage_wait: every candidate is valid or exhausted.
Wait ==
    /\ driver.step = "wait" /\ \A c \in Candidates : status[c] \in Ended
    /\ driver' = [driver EXCEPT !.step = "ingest"]
    /\ UNCHANGED <<outside, master, ranks, view, cache, lock, pass, crashes>>

\* The merge of stage_ingest; where it is refused the stage raises and is entered again.
Ingest ==
    /\ driver.step = "ingest" /\ lock = Nobody
    /\ Verified # {} /\ Replayed(CandidateFrame)
    /\ lock' = Driver
    /\ master' = Merged(CandidateFrame)
    /\ driver' = [step |-> "ranks", plan |-> RanksOf(CandidateFrame)]
    /\ UNCHANGED <<outside, ranks, view, cache, pass, crashes>>

IngestRanks ==
    /\ driver.step = "ranks"
    /\ ranks' = driver.plan
    /\ lock' = Nobody
    /\ driver' = [step |-> "save", plan |-> Off.plan]
    /\ UNCHANGED <<outside, master, view, cache, pass, crashes>>

\* The stage is CHECK from here on.
Check ==
    /\ driver.step = "save" \/ (driver.step = "ingest" /\ Verified = {})
    /\ driver' = [driver EXCEPT !.step = "check"]
    /\ UNCHANGED <<outside, master, ranks, view, cache, lock, pass, crashes>>

\* The state file says INGEST: the stage is entered again.
DriverCrash ==
    /\ driver.step \in {"ranks", "save"} /\ crashes < MaxCrashes
    /\ driver' = [step |-> "ingest", plan |-> Off.plan]
    /\ lock' = IF lock = Driver THEN Nobody ELSE lock
    /\ crashes' = crashes + 1
    /\ UNCHANGED <<outside, master, ranks, view, cache, pass>>

----------------------------------------------------------------------------
Reads(p)  == List(p) \/ Fetch(p)
Writes(p) == Refuse(p) \/ Unchanged(p) \/ Merge(p) \/ InstallRanks(p) \/ InstallView(p) \/ Commit(p)
Ingests   == Wait \/ Ingest \/ IngestRanks \/ Check

Next ==
    \/ \E t \in Tasks : Emit(t) \/ End(t)
    \/ \E i \in Locals : Save(i)
    \/ \E p \in Collectors : Reads(p) \/ Writes(p) \/ Crash(p)
    \/ Ingests \/ DriverCrash

Spec == Init /\ [][Next]_vars

\* auto_collect_loop.sh and the queue's collect lane start one pass after the other, and a
\* pass that lives goes on; the driver is restarted when it raises.
FairSpec == Spec /\ (\A p \in Collectors : WF_vars(Reads(p) \/ Writes(p))) /\ WF_vars(Ingests)

----------------------------------------------------------------------------
(* Properties                                                              *)

\* A row has at least the authority that its rank claims: else a better row would be
\* refused for good.  This is why the master is replaced before the ranks, and why both
\* writers compute the ranks from what they read under the lock.
RanksBacked == \A i \in Ids : ranks[i] <= Authority(master[i])

\* What is not read again is kept: the row of a harvested task is in the master, the row of
\* a cached part is there as the part, a task without data had none, and a round that was
\* ingested has its candidates there, whatever stopped, raced or was collected again.
CollectedIsKept ==
    /\ \A t \in cache.harvested : master[t] # "none"
    /\ \A i \in cache.parts : master[i] = "part"
    /\ \A t \in cache.nodata : output[t] = {} /\ status[t] \in Ended
    /\ driver.step = "check" =>
           \A c \in Verified : master[c] = "candidate" /\ ranks[c] = Rank.candidate

\* The view that training reads catches up with the master after every install of either
\* writer, also one that stopped in the middle, unless merges are refused.
ViewCatchesUp == []<>(view = master \/ Uncovered # {})

\* "If this replacement fails, the part remains uncached and the lower-rank sidecar causes
\* a safe retry next pass": the samples of completed tasks go on being collected.
CollectionGoesOn == []<>(\A t \in Tasks : status[t] = "completed" =>
                             t \in cache.harvested \cup cache.nodata)
=============================================================================
