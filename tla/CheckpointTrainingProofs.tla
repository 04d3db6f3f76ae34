---------------------- MODULE CheckpointTrainingProofs ----------------------
(* Theorems about CheckpointTraining, for every sequence of datasets, any  *)
(* number of executions, generations, rollbacks and crashes.               *)
EXTENDS CheckpointTraining, TLAPS

\* Thresholds are some of nine numbers.
LEMMA ThresholdsAre ==
    /\ Thresholds \subseteq {500, 1000, 2000, 3000, 4000, 5000, 6000, 7000, 8000}
    /\ 0 \notin Thresholds /\ NoJob \notin Keys
<1>1. Thresholds \subseteq {500, 1000, 2000, 3000, 4000, 5000, 6000, 7000, 8000}
  BY DEF Thresholds, Checkpoints
<1>2. 0 \notin Thresholds
  BY <1>1
<1>3. NoJob \notin Keys
  BY <1>2 DEF NoJob, Keys
<1> QED
  BY <1>1, <1>2, <1>3

LEMMA LowestIsDue ==
    ASSUME NEW S \in SUBSET Thresholds, S # {}
    PROVE  Lowest(S) \in S
<1>1. S \subseteq {500, 1000, 2000, 3000, 4000, 5000, 6000, 7000, 8000}
  BY ThresholdsAre
<1>2. \E k \in S : \A j \in S : k <= j
  <2> SUFFICES ASSUME \A k \in S : \E j \in S : ~ (k <= j)
               PROVE  FALSE
    OBVIOUS
  <2>0. \A j \in S : \/ j = 500 \/ j = 1000 \/ j = 2000 \/ j = 3000 \/ j = 4000
                      \/ j = 5000 \/ j = 6000 \/ j = 7000 \/ j = 8000
    BY <1>1
  <2>1. 500 \notin S
    BY <2>0
  <2>2. 1000 \notin S
    BY <2>0, <2>1
  <2>3. 2000 \notin S
    BY <2>0, <2>1, <2>2
  <2>4. 3000 \notin S
    BY <2>0, <2>1, <2>2, <2>3
  <2>5. 4000 \notin S
    BY <2>0, <2>1, <2>2, <2>3, <2>4
  <2>6. 5000 \notin S
    BY <2>0, <2>1, <2>2, <2>3, <2>4, <2>5
  <2>7. 6000 \notin S
    BY <2>0, <2>1, <2>2, <2>3, <2>4, <2>5, <2>6
  <2>8. 7000 \notin S
    BY <2>0, <2>1, <2>2, <2>3, <2>4, <2>5, <2>6, <2>7
  <2>9. 8000 \notin S
    BY <2>0, <2>1, <2>2, <2>3, <2>4, <2>5, <2>6, <2>7, <2>8
  <2> QED
    BY <2>0, <2>1, <2>2, <2>3, <2>4, <2>5, <2>6, <2>7, <2>8, <2>9
<1>3. Min(S) \in S
  BY <1>2, Zenon DEF Min
<1> QED
  BY <1>3 DEF Lowest

LEMMA CheckpointsAreThresholds ==
    ASSUME NEW d \in Versions
    PROVE  /\ ReadyCheckpoints(d) \subseteq Thresholds
           /\ ReadyCheckpoints(d) \cap ThresholdsOf(Reconciled) = {}
  BY DEF ReadyCheckpoints, Thresholds

LEMMA ReconciledKept == Reconciled \subseteq completed
  BY DEF Reconciled

LEMMA VersionsAre == Versions \subseteq Nat /\ 1 \in Versions
<1>1. Len(Rows) \in Nat /\ Len(Rows) # 0 /\ Versions = 1 .. Len(Rows)
  BY RowsAssumption DEF Versions
<1> QED
  BY <1>1

-----------------------------------------------------------------------------
(* Types                                                                    *)

\* A row that waits has an attempt left.
Attempts ==
    \A key \in Keys : jobs[key].status \in {"absent", "pending"} => jobs[key].attempts < Tries

Typed == CheckpointTypeOK /\ Attempts

LEMMA IdleTyped == Idle \in Run
  BY VersionsAre DEF Idle, Run

LEMMA FailedTyped ==
    ASSUME Typed, NEW key \in Keys \cup {NoJob}, NEW n \in Nat, n <= Tries,
           jobs' = Failed(key, n)
    PROVE  jobs' \in [Keys -> Job] /\ Attempts'
<1> USE BoundsAssumption DEF Typed, CheckpointTypeOK, Attempts
<1>1. CASE key = NoJob
  BY <1>1 DEF Failed, Row
<1>2. CASE key # NoJob
  <2>1. jobs' = [jobs EXCEPT ![key] =
                   [status |-> IF n < Tries THEN "pending" ELSE "over", attempts |-> n]]
    BY <1>2 DEF Failed, Row
  <2>2. [status |-> IF n < Tries THEN "pending" ELSE "over", attempts |-> n] \in Job
    BY DEF Job
  <2> QED
    BY <1>2, <2>1, <2>2
<1> QED
  BY <1>1, <1>2

LEMMA FinishedTyped ==
    ASSUME Typed, NEW key \in Keys \cup {NoJob}, jobs' = Finished(key)
    PROVE  jobs' \in [Keys -> Job] /\ Attempts'
<1> USE DEF Typed, CheckpointTypeOK, Attempts
<1>1. CASE key = NoJob
  BY <1>1 DEF Finished, Row
<1>2. CASE key # NoJob
  BY <1>2 DEF Finished, Row, Job
<1> QED
  BY <1>1, <1>2

LEMMA AttemptedTyped ==
    ASSUME Typed, NEW key \in Keys \cup {NoJob}, Startable(key), jobs' = Attempted(key)
    PROVE  jobs' \in [Keys -> Job] /\ Attempts'
<1> USE BoundsAssumption DEF Typed, CheckpointTypeOK, Attempts
<1>1. CASE key = NoJob
  BY <1>1 DEF Attempted, Row
<1>2. CASE key # NoJob
  <2>1. jobs[key].status = "pending" /\ jobs[key] \in Job
    BY <1>2 DEF Startable
  <2>2. jobs[key].attempts + 1 \in 0 .. Tries
    BY <1>2, <2>1 DEF Job
  <2>3. [status |-> "running", attempts |-> jobs[key].attempts + 1] \in Job
    BY <2>2 DEF Job
  <2>4. jobs' = [jobs EXCEPT ![key] =
                   [status |-> "running", attempts |-> jobs[key].attempts + 1]]
    BY <1>2 DEF Attempted, Row
  <2> QED
    BY <1>2, <2>3, <2>4
<1> QED
  BY <1>1, <1>2

LEMMA RaisesTyped ==
    ASSUME Typed, NEW r \in Runs, Raises(r)
    PROVE  jobs' \in [Keys -> Job] /\ Attempts' /\ run' \in [Runs -> Run]
           /\ lock' \in Runs \cup {Nobody}
<1> USE BoundsAssumption
<1>1. run' \in [Runs -> Run] /\ lock' \in Runs \cup {Nobody}
  BY IdleTyped DEF Raises, Ends, Typed, CheckpointTypeOK
<1>2. run[r].job \in Keys \cup {NoJob}
  BY DEF Typed, CheckpointTypeOK, Run
<1>3. CASE run[r].job = NoJob
  BY <1>1, <1>3 DEF Raises, Failed, Row, Typed, CheckpointTypeOK, Attempts
<1>4. CASE run[r].job # NoJob
  <2>1. jobs[run[r].job].attempts \in Nat /\ jobs[run[r].job].attempts <= Tries
    BY <1>2, <1>4 DEF Typed, CheckpointTypeOK, Job
  <2> QED
    BY <1>1, <1>2, <2>1, FailedTyped DEF Raises
<1> QED
  BY <1>3, <1>4

LEMMA ExitsTyped ==
    ASSUME Typed, NEW r \in Runs, Exits(r)
    PROVE  jobs' \in [Keys -> Job] /\ Attempts' /\ run' \in [Runs -> Run]
           /\ lock' \in Runs \cup {Nobody}
<1>1. run' \in [Runs -> Run] /\ lock' \in Runs \cup {Nobody}
  BY IdleTyped DEF Exits, Ends, Typed, CheckpointTypeOK
<1>2. run[r].job \in Keys \cup {NoJob}
  BY DEF Typed, CheckpointTypeOK, Run
<1> QED
  BY <1>1, <1>2, FinishedTyped DEF Exits

LEMMA CandidateTyped ==
    ASSUME Typed, NEW r \in Runs, run[r].due # 0, built < MaxBuilt
    PROVE  Candidate(r) \in Generation /\ built + 1 \in 0 .. MaxBuilt
<1>1. run[r].due \in Thresholds /\ run[r].data \in Versions
  BY DEF Typed, CheckpointTypeOK, Run
<1>2. built \in 0 .. MaxBuilt /\ MaxBuilt \in Nat
  BY BoundsAssumption DEF Typed, CheckpointTypeOK
<1>3. built + 1 \in 1 .. MaxBuilt
  BY <1>2
<1> QED
  BY <1>1, <1>2, <1>3 DEF Candidate, Generation

\* Only a run that is off attempts no threshold; whoever evaluates has a candidate.
Engaged ==
    \A r \in Runs : /\ run[r].step # "off" => run[r].due \in Thresholds
                    /\ run[r].step \in {"evaluate", "activate"} => run[r].gen \in Generation

LEMMA EngagedItem ==
    ASSUME Typed, Engaged, NEW r \in Runs, run[r].step # "off"
    PROVE  Completion(r) \in Item /\ run[r].due # 0
  BY ThresholdsAre DEF Typed, CheckpointTypeOK, Engaged, Completion, Item, Run

LEMMA TypeInit == Init => Typed /\ Engaged
<1> SUFFICES ASSUME Init PROVE Typed /\ Engaged
  OBVIOUS
<1> USE BoundsAssumption, VersionsAre DEF Init
<1>1. \A k \in Before : k \in Thresholds
  BY DEF Thresholds
<1>2. completed \subseteq Item /\ snapshots \subseteq Keys
  BY <1>1 DEF Item, Keys
<1>3. run \in [Runs -> Run]
  BY IdleTyped
<1>4. jobs \in [Keys -> Job] /\ Attempts
  BY DEF Job, Attempts
<1>5. failed \in [Thresholds -> Versions \cup {NoFailure}]
  BY DEF NoFailure
<1>6. Engaged
  BY DEF Engaged, Idle
<1> QED
  BY <1>2, <1>3, <1>4, <1>5, <1>6 DEF Typed, CheckpointTypeOK

LEMMA ClaimTyped ==
    ASSUME Typed, Engaged, NEW r \in Runs, NEW key \in Keys \cup {NoJob}, Claim(r, key)
    PROVE  Typed' /\ Engaged'
<1> DEFINE due == Lowest(ReadyCheckpoints(Reads(key)))
<1>1. Reads(key) \in Versions
  BY DEF Reads, Keys, Typed, CheckpointTypeOK
<1>2. due # 0 => due \in Thresholds
  BY <1>1, LowestIsDue, CheckpointsAreThresholds DEF Lowest
<1>3. completed' \subseteq Item
  BY ReconciledKept DEF Claim, Typed, CheckpointTypeOK
<1>4. CASE due = 0
  <2>1. jobs' = Finished(key) /\ UNCHANGED <<lock, run>>
    BY <1>4 DEF Claim
  <2> QED
    BY <1>3, <2>1, FinishedTyped
    DEF Claim, Typed, CheckpointTypeOK, Engaged, world, registry
<1>5. CASE due # 0
  <2>1. jobs' = Attempted(key) /\ lock' = r /\ run' = [run EXCEPT ![r] = Claimed(key, due)]
    BY <1>5 DEF Claim
  <2>2. /\ Claimed(key, due) \in Run /\ Claimed(key, due).due \in Thresholds
        /\ Claimed(key, due).step = "begin"
    BY <1>1, <1>2, <1>5, IdleTyped DEF Claimed, Run, Idle
  <2>3. run' \in [Runs -> Run] /\ Engaged'
    BY <2>1, <2>2 DEF Typed, CheckpointTypeOK, Engaged
  <2>4. jobs' \in [Keys -> Job] /\ Attempts'
    BY <2>1, AttemptedTyped DEF Claim
  <2> QED
    BY <1>3, <2>1, <2>3, <2>4 DEF Claim, Typed, CheckpointTypeOK, world, registry
<1> QED
  BY <1>4, <1>5

LEMMA EndedEngaged ==
    ASSUME Engaged, NEW r \in Runs, Ends(r), run \in [Runs -> Run]
    PROVE  Engaged'
  BY DEF Engaged, Ends, Idle

LEMMA TypeStep == Typed /\ Engaged /\ [Next]_vars => Typed' /\ Engaged'
<1> SUFFICES ASSUME Typed, Engaged, [Next]_vars PROVE Typed' /\ Engaged'
  OBVIOUS
<1> USE DEF world, file, registry
<1>1. ASSUME NEW r \in Runs, Start(r) PROVE Typed' /\ Engaged'
  <2>1. PICK key \in Keys \cup {NoJob} : Claim(r, key) \/ Busy(r, key)
    BY <1>1 DEF Start
  <2>2. CASE Busy(r, key)
    <3>1. CASE key = NoJob
      BY <2>2, <3>1 DEF Busy, Failed, Row, Typed, CheckpointTypeOK, Attempts, Engaged
    <3>2. CASE key # NoJob
      <4>1. jobs[key] \in Job /\ jobs[key].status = "pending"
        BY <2>2, <3>2 DEF Busy, Startable, Typed, CheckpointTypeOK
      <4>2. jobs[key].attempts + 1 \in Nat /\ jobs[key].attempts + 1 <= Tries
        BY <3>2, <4>1, BoundsAssumption DEF Typed, Attempts, Job
      <4> HIDE DEF Keys
      <4>3. jobs' \in [Keys -> Job] /\ Attempts'
        BY <2>2, <4>2, FailedTyped DEF Busy
      <4> QED
        BY <2>2, <4>3 DEF Busy, Typed, CheckpointTypeOK, Engaged
    <3> QED
      BY <3>1, <3>2
  <2> QED
    BY <2>1, <2>2, ClaimTyped
<1>2. ASSUME NEW r \in Runs, Begin(r) PROVE Typed' /\ Engaged'
  <2> DEFINE c == [run[r] EXCEPT !.step = "train", !.expected = pointer]
  <2>0. run' = [run EXCEPT ![r] = c] /\ c \in Run /\ c.step = "train" /\ c.due \in Thresholds
    BY <1>2 DEF Begin, Typed, CheckpointTypeOK, Engaged, Run
  <2>1. run' \in [Runs -> Run] /\ Engaged'
    BY <2>0 DEF Typed, CheckpointTypeOK, Engaged
  <2>2. run[r].due \in Thresholds /\ run[r].data \in Versions
    BY <1>2 DEF Begin, Typed, CheckpointTypeOK, Engaged, Run
  <2>3. snapshots' \subseteq Keys
    BY <1>2, <2>2 DEF Begin, Typed, CheckpointTypeOK, Keys
  <2> QED
    BY <1>2, <2>1, <2>3 DEF Begin, Typed, CheckpointTypeOK, Attempts
<1>3. ASSUME NEW r \in Runs, Train(r) PROVE Typed' /\ Engaged'
  <2>1. CASE run[r].due < Minimum
    <3>1. run' \in [Runs -> Run] /\ Engaged'
      BY <1>3, <2>1 DEF Train, Goes, Typed, CheckpointTypeOK, Engaged, Run
    <3> QED
      BY <1>3, <2>1, <3>1 DEF Train, Typed, CheckpointTypeOK, Attempts
  <2>2. CASE ~ (run[r].due < Minimum)
    <3>1. Candidate(r) \in Generation /\ built + 1 \in 0 .. MaxBuilt
      BY <1>3, <2>2, CandidateTyped, EngagedItem DEF Train
    <3>2. run' \in [Runs -> Run] /\ Engaged'
      BY <1>3, <2>2, <3>1 DEF Train, Typed, CheckpointTypeOK, Engaged, Run
    <3> QED
      BY <1>3, <2>2, <3>1, <3>2 DEF Train, Typed, CheckpointTypeOK, Attempts
  <2> QED
    BY <2>1, <2>2
<1>4. ASSUME NEW r \in Runs, Accept(r) PROVE Typed' /\ Engaged'
  <2>1. run' \in [Runs -> Run] /\ Engaged'
    BY <1>4 DEF Accept, Goes, Typed, CheckpointTypeOK, Engaged, Run
  <2>2. gated' \subseteq Generation
    BY <1>4 DEF Accept, Typed, CheckpointTypeOK, Engaged
  <2> QED
    BY <1>4, <2>1, <2>2 DEF Accept, Typed, CheckpointTypeOK, Attempts
<1>5. ASSUME NEW r \in Runs, Activate(r) PROVE Typed' /\ Engaged'
  <2>1. run' \in [Runs -> Run] /\ Engaged'
    BY <1>5 DEF Activate, Goes, Typed, CheckpointTypeOK, Engaged, Run
  <2>2. run[r].gen \in Generation
    BY <1>5 DEF Activate, Engaged
  <2> QED
    BY <1>5, <2>1, <2>2 DEF Activate, Typed, CheckpointTypeOK, Attempts
<1>6. ASSUME NEW r \in Runs, Record(r) PROVE Typed' /\ Engaged'
  <2>1. completed' \subseteq Item
    BY <1>6, EngagedItem DEF Record, Typed, CheckpointTypeOK
  <2>2. CASE run[r].gen = NoGen
    <3>1. Exits(r)
      BY <1>6, <2>2 DEF Record
    <3>2. Engaged'
      BY <3>1, EndedEngaged DEF Exits, Typed, CheckpointTypeOK
    <3> QED
      BY <1>6, <2>1, <3>1, <3>2, ExitsTyped DEF Record, Typed, CheckpointTypeOK
  <2>3. CASE run[r].gen # NoGen
    <3>1. run' \in [Runs -> Run] /\ Engaged'
      BY <1>6, <2>3 DEF Record, Goes, Typed, CheckpointTypeOK, Engaged, Run
    <3> QED
      BY <1>6, <2>1, <2>3, <3>1 DEF Record, Typed, CheckpointTypeOK, Attempts
  <2> QED
    BY <2>2, <2>3
<1>7. ASSUME NEW r \in Runs, Prune(r) PROVE Typed' /\ Engaged'
  <2>1. Exits(r)
    BY <1>7 DEF Prune
  <2>2. Engaged'
    BY <2>1, EndedEngaged DEF Exits, Typed, CheckpointTypeOK
  <2>3. gens' \subseteq Generation /\ gated' \subseteq Generation
    BY <1>7 DEF Prune, Typed, CheckpointTypeOK
  <2> QED
    BY <1>7, <2>1, <2>2, <2>3, ExitsTyped DEF Prune, Typed, CheckpointTypeOK
<1>8. ASSUME NEW r \in Runs, Fails(r) PROVE Typed' /\ Engaged'
  <2>1. Raises(r) /\ run[r].step # "off"
    BY <1>8 DEF Fails
  <2>2. Engaged'
    BY <2>1, EndedEngaged DEF Raises, Typed, CheckpointTypeOK
  <2>3. gens' \subseteq Generation /\ gated' \subseteq Generation
    BY <1>8 DEF Fails, Typed, CheckpointTypeOK
  <2>4. completed' \subseteq Item
    BY <1>8, <2>1, EngagedItem DEF Fails, Typed, CheckpointTypeOK
  <2>5. run[r].due \in Thresholds /\ run[r].data \in Versions
    BY <2>1 DEF Engaged, Typed, CheckpointTypeOK, Run
  <2>6. failed' \in [Thresholds -> Versions \cup {NoFailure}]
    BY <1>8, <2>5 DEF Fails, Typed, CheckpointTypeOK
  <2> QED
    BY <1>8, <2>1, <2>2, <2>3, <2>4, <2>6, RaisesTyped DEF Fails, Typed, CheckpointTypeOK
<1>9. ASSUME NEW r \in Runs, Dies(r) PROVE Typed' /\ Engaged'
  <2>1. Raises(r) /\ run[r].step # "off"
    BY <1>9 DEF Dies
  <2>2. Engaged'
    BY <2>1, EndedEngaged DEF Raises, Typed, CheckpointTypeOK
  <2>3. gens' \subseteq Generation /\ built' \in 0 .. MaxBuilt
    BY <1>9, <2>1, EngagedItem, CandidateTyped DEF Dies, Typed, CheckpointTypeOK
  <2>4. crashes' \in 0 .. MaxCrashes
    BY <1>9, BoundsAssumption DEF Dies, Typed, CheckpointTypeOK
  <2> QED
    BY <1>9, <2>1, <2>2, <2>3, <2>4, RaisesTyped DEF Dies, Typed, CheckpointTypeOK
<1>10. CASE Plan
  <2>1. jobs' \in [Keys -> Job] /\ Attempts'
    BY <1>10 DEF Plan, Typed, CheckpointTypeOK, Attempts, Job
  <2> QED
    BY <1>10, <2>1 DEF Plan, Typed, CheckpointTypeOK, Engaged
<1>11. ASSUME NEW g \in past \cup {NoGen}, Restore(g) PROVE Typed' /\ Engaged'
  <2>1. pointer' \in Generation \cup {NoGen} /\ restores' \in 0 .. MaxRestores
    BY <1>11, BoundsAssumption DEF Restore, Typed, CheckpointTypeOK
  <2> QED
    BY <1>11, <2>1 DEF Restore, Typed, CheckpointTypeOK, Attempts, Engaged
<1>12. ASSUME NEW k \in Thresholds, Expire(k) PROVE Typed' /\ Engaged'
  BY <1>12 DEF Expire, Typed, CheckpointTypeOK, Attempts, Engaged
<1>13. CASE Grow
  BY <1>13 DEF Grow, Typed, CheckpointTypeOK, Attempts, Engaged
<1>14. CASE UNCHANGED vars
  BY <1>14 DEF vars, Typed, CheckpointTypeOK, Attempts, Engaged
<1> QED
  BY <1>1, <1>2, <1>3, <1>4, <1>5, <1>6, <1>7, <1>8, <1>9, <1>10, <1>11, <1>12, <1>13, <1>14
  DEF Next, RunStep

\* The files, the registry, the runs and the rows always have their types.
THEOREM CheckpointTyping == Spec => []CheckpointTypeOK
<1>1. Typed => CheckpointTypeOK
  BY DEF Typed
<1> QED
  BY <1>1, TypeInit, TypeStep, PTL DEF Spec

-----------------------------------------------------------------------------
(* What the state file and the pointer name                                 *)

Working == {"begin", "train", "evaluate", "activate", "record"}

\* checkpoint.lock keeps executions apart.
Exclusive == \A r \in Runs : run[r].step # "off" => lock = r

\* No serial of the future is known.
Serials == \A g \in gens \cup past : g.serial <= built

\* The candidate of a run is that of its threshold and dataset.
Own(c) == c.gen \in gens /\ SnapshotOf(c.gen) = <<c.due, c.data>>

\* A run works on a checkpoint that is not completed, has its snapshot, and has a
\* candidate that nobody else knows until it is active.
Progress(c) ==
    /\ c.step \in Working => c.due \notin ThresholdsOf(completed)
    /\ c.step \in Working \ {"begin"} => <<c.due, c.data>> \in snapshots
    /\ c.step \in {"begin", "train"} => c.gen = NoGen
    /\ c.step \in {"evaluate", "activate"} => Own(c) /\ c.gen \notin past
    /\ c.step = "activate" => c.gen \in gated
    /\ c.step = "record" /\ c.gen # NoGen => Own(c) /\ c.gen \in gated \cap past

\* The inductive invariant.
Inv == /\ Typed /\ Engaged /\ Exclusive /\ Serials
       /\ \A r \in Runs : Progress(run[r])
       /\ AcceptedIsBacked

\* One run works at a time, and the others stay off.
LEMMA Alone ==
    ASSUME Inv, NEW r \in Runs, run[r].step # "off"
    PROVE  /\ lock = r
           /\ \A q \in Runs \ {r} : run[q].step = "off"
  BY DEF Inv, Exclusive

LEMMA OffProgress ==
    ASSUME NEW c, c.step = "off"
    PROVE  Progress(c)
  BY DEF Progress, Working

\* A run that ends leaves no run at work.
LEMMA EndedProgress ==
    ASSUME Inv, NEW r \in Runs, run[r].step # "off", Ends(r)
    PROVE  Exclusive' /\ \A q \in Runs : (run[q].step = "off")'
<1>1. \A q \in Runs : (run[q].step = "off")'
  BY Alone DEF Ends, Idle, Inv, Typed, CheckpointTypeOK
<1> QED
  BY <1>1 DEF Exclusive

LEMMA AllOff ==
    ASSUME \A q \in Runs : (run[q].step = "off")'
    PROVE  \A q \in Runs : Progress(run[q])'
  BY DEF Progress, Working

\* What is completed stays backed when nothing it rests on goes, and a new item is
\* backed if its model is and its threshold is new.
LEMMA BackedKept ==
    ASSUME AcceptedIsBacked, NEW new, completed' \subseteq completed \cup {new},
           completed' \subseteq completed \/ new.threshold \notin ThresholdsOf(completed),
           new \in completed' /\ new \notin completed /\ new.gen # NoGen =>
               /\ new.gen \in gens' \cap gated' \cap past'
               /\ SnapshotOf(new.gen) = <<new.threshold, new.data>>
               /\ SnapshotOf(new.gen) \in snapshots',
           past \subseteq past',
           pointer' = pointer \/ pointer' \in (gens' \cap gated' \cap past') \cup {NoGen},
           \A g \in gens \cap gated \cap past :
               g = pointer \/ g \in Models(completed) => g \in gens' \cap gated',
           \A i \in completed : i.gen # NoGen /\ SnapshotOf(i.gen) \in snapshots
                                    => SnapshotOf(i.gen) \in snapshots'
    PROVE  AcceptedIsBacked'
<1> DEFINE Kept(i) == /\ i.gen \in gens' \cap gated' \cap past'
                      /\ SnapshotOf(i.gen) = <<i.threshold, i.data>>
                      /\ SnapshotOf(i.gen) \in snapshots'
<1>1. ASSUME NEW i \in completed', i.gen # NoGen PROVE Kept(i)
  <2>1. CASE i \in completed
    <3>1. /\ i.gen \in gens \cap gated \cap past
          /\ SnapshotOf(i.gen) = <<i.threshold, i.data>> /\ SnapshotOf(i.gen) \in snapshots
      BY <1>1, <2>1 DEF AcceptedIsBacked
    <3>2. i.gen \in Models(completed)
      BY <1>1, <2>1 DEF Models
    <3> QED
      BY <1>1, <2>1, <3>1, <3>2
  <2>2. CASE i \notin completed
    BY <1>1, <2>2
  <2> QED
    BY <2>1, <2>2
<1>2. pointer' # NoGen => pointer' \in gens' \cap gated' \cap past'
  BY DEF AcceptedIsBacked
<1>3. \A i, j \in completed' : i.threshold = j.threshold => i = j
  BY DEF AcceptedIsBacked, ThresholdsOf
<1> HIDE DEF Kept
<1>4. \A i \in completed' : i.gen # NoGen => Kept(i)
  BY <1>1
<1> QED
  BY <1>2, <1>3, <1>4 DEF AcceptedIsBacked, SnapshotOf, Kept

LEMMA InvInit == Init => Inv
<1> SUFFICES ASSUME Init PROVE Inv
  OBVIOUS
<1>1. Typed /\ Engaged
  BY TypeInit
<1>2. \A r \in Runs : run[r].step = "off"
  BY DEF Init, Idle
<1>3. Exclusive /\ Serials
  BY <1>2 DEF Exclusive, Serials, Init
<1>4. \A r \in Runs : Progress(run[r])
  BY <1>2, OffProgress
<1>5. AcceptedIsBacked
  BY DEF Init, AcceptedIsBacked
<1> QED
  BY <1>1, <1>3, <1>4, <1>5 DEF Inv

\* A step of run r that only changes what r works on.
LEMMA OneMoves ==
    ASSUME Inv, NEW r \in Runs, run[r].step # "off", NEW c, run' = [run EXCEPT ![r] = c],
           lock' = lock, Progress(c)'
    PROVE  Exclusive' /\ \A q \in Runs : Progress(run[q])'
<1>1. run'[r] = c /\ \A q \in Runs \ {r} : run'[q] = run[q] /\ run'[q].step = "off"
  BY Alone DEF Inv, Typed, CheckpointTypeOK
<1>2. Exclusive'
  BY <1>1, Alone DEF Exclusive
<1>3. \A q \in Runs \ {r} : Progress(run[q])'
  BY <1>1 DEF Progress, Working
<1>4. Progress(run[r])'
  BY <1>1 DEF Progress, Working, Own, SnapshotOf, ThresholdsOf
<1> QED
  BY <1>2, <1>3, <1>4

LEMMA ClaimInv ==
    ASSUME Inv, NEW r \in Runs, NEW key \in Keys \cup {NoJob}, Claim(r, key)
    PROVE  Exclusive' /\ Serials' /\ AcceptedIsBacked' /\ \A q \in Runs : Progress(run[q])'
<1> DEFINE due == Lowest(ReadyCheckpoints(Reads(key)))
<1> USE DEF registry, world
<1>1. Reads(key) \in Versions
  BY DEF Reads, Keys, Inv, Typed, CheckpointTypeOK
<1>2. \A q \in Runs : run[q].step = "off"
  BY NullAssumption DEF Claim, Inv, Exclusive
<1>3. Serials'
  BY DEF Claim, Inv, Serials
<1>4. AcceptedIsBacked'
  BY ReconciledKept, BackedKept DEF Claim, Inv
<1>5. CASE due = 0
  <2>1. UNCHANGED <<lock, run>>
    BY <1>5 DEF Claim
  <2>2. \A q \in Runs : (run[q].step = "off")'
    BY <1>2, <2>1
  <2> QED
    BY <1>3, <1>4, <2>2, AllOff DEF Exclusive
<1>6. CASE due # 0
  <2>1. lock' = r /\ run' = [run EXCEPT ![r] = Claimed(key, due)] /\ completed' = Reconciled
    BY <1>6 DEF Claim
  <2>2. due \notin ThresholdsOf(Reconciled)
    BY <1>1, <1>6, LowestIsDue, CheckpointsAreThresholds DEF Lowest
  <2>3. /\ Claimed(key, due).step = "begin" /\ Claimed(key, due).due = due
        /\ Claimed(key, due).gen = NoGen
    BY DEF Claimed, Idle
  <2> HIDE DEF due
  <2>4. run'[r] = Claimed(key, due) /\ \A q \in Runs \ {r} : run'[q].step = "off"
    BY <1>2, <2>1 DEF Inv, Typed, CheckpointTypeOK
  <2>5. Exclusive'
    BY <2>1, <2>4 DEF Exclusive
  <2>6. \A q \in Runs \ {r} : Progress(run[q])'
    BY <2>4 DEF Progress, Working
  <2>7. run'[r].due \notin ThresholdsOf(completed')
    BY <2>1, <2>2, <2>3, <2>4
  <2>8. Progress(run[r])'
    BY <2>3, <2>4, <2>7 DEF Progress, Working, ThresholdsOf
  <2> QED
    BY <1>3, <1>4, <2>5, <2>6, <2>8
<1> QED
  BY <1>5, <1>6

\* What a run that works knows of itself.
LEMMA RunFacts ==
    ASSUME Inv, NEW r \in Runs
    PROVE  /\ run[r] \in Run /\ Progress(run[r]) /\ NoGen \notin Generation
           /\ gens \subseteq Generation /\ past \subseteq Generation
           /\ built \in Nat /\ \A g \in Generation : g.serial \in Nat
  BY NullAssumption, BoundsAssumption DEF Inv, Typed, CheckpointTypeOK, Generation

LEMMA BeginInv ==
    ASSUME Inv, NEW r \in Runs, Begin(r)
    PROVE  Exclusive' /\ Serials' /\ AcceptedIsBacked' /\ \A q \in Runs : Progress(run[q])'
<1>0. PICK c : c = [run[r] EXCEPT !.step = "train", !.expected = pointer]
  OBVIOUS
<1> USE DEF registry, file, world
<1>1. Serials' /\ AcceptedIsBacked'
  BY BackedKept DEF Begin, Inv, Serials
<1>2. run' = [run EXCEPT ![r] = c] /\ lock' = lock /\ run[r].step # "off"
  BY <1>0 DEF Begin
<1>3. /\ c.step = "train" /\ c.due = run[r].due /\ c.data = run[r].data
      /\ c.gen = run[r].gen
  BY <1>0, RunFacts DEF Run
<1>4. c.gen = NoGen /\ c.due \notin ThresholdsOf(completed')
  BY <1>3, RunFacts DEF Begin, Progress, Working
<1>5. <<c.due, c.data>> \in snapshots'
  BY <1>3 DEF Begin
<1>6. Progress(c)'
  BY <1>3, <1>4, <1>5 DEF Progress, Working, ThresholdsOf
<1> QED
  BY <1>1, <1>2, <1>6, OneMoves

LEMMA TrainInv ==
    ASSUME Inv, NEW r \in Runs, Train(r)
    PROVE  Exclusive' /\ Serials' /\ AcceptedIsBacked' /\ \A q \in Runs : Progress(run[q])'
<1> USE DEF registry, file, world
<1>1. AcceptedIsBacked'
  BY BackedKept DEF Train, Inv
<1>2. run[r].step = "train" /\ lock' = lock /\ UNCHANGED <<completed, snapshots>>
  BY DEF Train
<1>3. /\ run[r].due \notin ThresholdsOf(completed) /\ <<run[r].due, run[r].data>> \in snapshots
      /\ run[r].gen = NoGen /\ run[r] \in Run
  BY <1>2, RunFacts DEF Progress, Working
<1>4. CASE run[r].due < Minimum
  <2>0. PICK c : c = [run[r] EXCEPT !.step = "record"]
    OBVIOUS
  <2>1. run' = [run EXCEPT ![r] = c] /\ UNCHANGED <<gens, built>>
    BY <1>4, <2>0 DEF Train, Goes
  <2>2. /\ c.step = "record" /\ c.gen = NoGen /\ c.due = run[r].due /\ c.data = run[r].data
    BY <1>3, <2>0 DEF Run
  <2>3. Progress(c)'
    BY <1>2, <1>3, <2>2 DEF Progress, Working, ThresholdsOf
  <2>4. Serials'
    BY <2>1 DEF Train, Inv, Serials
  <2> QED
    BY <1>1, <1>2, <2>1, <2>3, <2>4, OneMoves
<1>5. CASE ~ (run[r].due < Minimum)
  <2>0. PICK c : c = [run[r] EXCEPT !.step = "evaluate", !.gen = Candidate(r)]
    OBVIOUS
  <2>1. /\ run' = [run EXCEPT ![r] = c] /\ built' = built + 1
        /\ gens' = gens \cup {Candidate(r)} /\ past' = past
    BY <1>5, <2>0 DEF Train
  <2>2. /\ c.step = "evaluate" /\ c.gen = Candidate(r)
        /\ c.due = run[r].due /\ c.data = run[r].data
    BY <1>3, <2>0 DEF Run
  <2>3. /\ Candidate(r).serial = built + 1 /\ Candidate(r).threshold = run[r].due
        /\ Candidate(r).data = run[r].data
    BY DEF Candidate
  <2>4. Candidate(r) \notin past
    BY <2>3, RunFacts DEF Inv, Serials
  <2>5. Serials'
    BY <2>1, <2>3, RunFacts DEF Inv, Serials
  <2>6. Progress(c)'
    BY <1>2, <1>3, <2>1, <2>2, <2>3, <2>4 DEF Progress, Working, ThresholdsOf, Own, SnapshotOf
  <2> QED
    BY <1>1, <1>2, <2>1, <2>5, <2>6, OneMoves
<1> QED
  BY <1>4, <1>5

LEMMA AcceptInv ==
    ASSUME Inv, NEW r \in Runs, Accept(r)
    PROVE  Exclusive' /\ Serials' /\ AcceptedIsBacked' /\ \A q \in Runs : Progress(run[q])'
<1>0. PICK c : c = [run[r] EXCEPT !.step = "activate"]
  OBVIOUS
<1> USE DEF registry, file, world
<1>1. Serials' /\ AcceptedIsBacked'
  BY BackedKept DEF Accept, Inv, Serials
<1>2. run' = [run EXCEPT ![r] = c] /\ lock' = lock /\ run[r].step = "evaluate"
  BY <1>0 DEF Accept, Goes
<1>3. /\ c.step = "activate" /\ c.due = run[r].due /\ c.data = run[r].data
      /\ c.gen = run[r].gen
  BY <1>0, RunFacts DEF Run
<1>4. /\ Own(run[r]) /\ run[r].gen \notin past /\ run[r].due \notin ThresholdsOf(completed)
      /\ <<run[r].due, run[r].data>> \in snapshots
  BY <1>2, RunFacts DEF Progress, Working
<1>5. /\ UNCHANGED <<completed, snapshots, gens, past>> /\ gated' = gated \cup {run[r].gen}
  BY DEF Accept
<1>6. Progress(c)'
  BY <1>3, <1>4, <1>5 DEF Progress, Working, ThresholdsOf, Own, SnapshotOf
<1> QED
  BY <1>1, <1>2, <1>6, OneMoves

LEMMA ActivateInv ==
    ASSUME Inv, NEW r \in Runs, Activate(r)
    PROVE  Exclusive' /\ Serials' /\ AcceptedIsBacked' /\ \A q \in Runs : Progress(run[q])'
<1>0. PICK c : c = [run[r] EXCEPT !.step = "record"]
  OBVIOUS
<1> USE DEF registry, file, world
<1>2. run' = [run EXCEPT ![r] = c] /\ lock' = lock /\ run[r].step = "activate"
  BY <1>0 DEF Activate, Goes
<1>3. /\ c.step = "record" /\ c.due = run[r].due /\ c.data = run[r].data
      /\ c.gen = run[r].gen
  BY <1>0, RunFacts DEF Run
<1>4. /\ Own(run[r]) /\ run[r].gen \in gated /\ run[r].due \notin ThresholdsOf(completed)
      /\ <<run[r].due, run[r].data>> \in snapshots
  BY <1>2, RunFacts DEF Progress, Working
<1>5. /\ UNCHANGED <<completed, snapshots, gens, gated, built>> /\ pointer' = run[r].gen
      /\ past' = past \cup {run[r].gen}
  BY DEF Activate
<1>6. Serials'
  BY <1>4, <1>5 DEF Inv, Serials, Own
<1>7. AcceptedIsBacked'
  BY <1>4, <1>5, BackedKept DEF Inv, Own
<1>8. Progress(c)'
  BY <1>3, <1>4, <1>5 DEF Progress, Working, ThresholdsOf, Own, SnapshotOf
<1> QED
  BY <1>2, <1>6, <1>7, <1>8, OneMoves

LEMMA RecordInv ==
    ASSUME Inv, NEW r \in Runs, Record(r)
    PROVE  Exclusive' /\ Serials' /\ AcceptedIsBacked' /\ \A q \in Runs : Progress(run[q])'
<1> USE DEF registry, file, world
<1>1. run[r].step = "record" /\ run[r] \in Run
  BY RunFacts DEF Record
<1>2. /\ UNCHANGED <<snapshots, gens, gated, built, past, pointer>>
      /\ completed' = completed \cup {Completion(r)}
  BY DEF Record
<1>3. /\ Completion(r).threshold = run[r].due /\ Completion(r).data = run[r].data
      /\ Completion(r).gen = run[r].gen
  BY DEF Completion
<1>4. /\ run[r].gen # NoGen => Own(run[r]) /\ run[r].gen \in gated \cap past
      /\ run[r].due \notin ThresholdsOf(completed)
      /\ <<run[r].due, run[r].data>> \in snapshots
  BY <1>1, RunFacts DEF Progress, Working
<1>5. Serials'
  BY <1>2 DEF Inv, Serials
<1>6. AcceptedIsBacked'
  BY <1>2, <1>3, <1>4, BackedKept DEF Inv, Own
<1>7. CASE run[r].gen = NoGen
  <2>1. Ends(r)
    BY <1>7 DEF Record, Exits
  <2> QED
    BY <1>1, <1>5, <1>6, <2>1, EndedProgress, AllOff
<1>8. CASE run[r].gen # NoGen
  <2>0. PICK c : c = [run[r] EXCEPT !.step = "prune"]
    OBVIOUS
  <2>1. run' = [run EXCEPT ![r] = c] /\ lock' = lock /\ c.step = "prune"
    BY <1>1, <1>8, <2>0 DEF Record, Goes, Run
  <2>2. Progress(c)'
    BY <2>1 DEF Progress, Working
  <2> QED
    BY <1>1, <1>5, <1>6, <2>1, <2>2, OneMoves
<1> QED
  BY <1>7, <1>8

LEMMA PruneInv ==
    ASSUME Inv, NEW r \in Runs, Prune(r)
    PROVE  Exclusive' /\ Serials' /\ AcceptedIsBacked' /\ \A q \in Runs : Progress(run[q])'
<1> USE DEF file
<1>1. Ends(r) /\ run[r].step # "off"
  BY DEF Prune, Exits
<1>2. \A g \in Prunable : g # pointer /\ g \notin Models(completed)
  BY DEF Prunable
<1>3. /\ UNCHANGED <<completed, snapshots, pointer, past, built>>
      /\ gens' \in {gens, gens \ Prunable} /\ gated' = gated \cap gens'
  BY DEF Prune
<1>4. AcceptedIsBacked'
  BY <1>2, <1>3, BackedKept DEF Inv
<1>5. Serials'
  BY <1>3 DEF Inv, Serials
<1> QED
  BY <1>1, <1>4, <1>5, EndedProgress, AllOff

LEMMA FailsInv ==
    ASSUME Inv, NEW r \in Runs, Fails(r)
    PROVE  Exclusive' /\ Serials' /\ AcceptedIsBacked' /\ \A q \in Runs : Progress(run[q])'
<1>1. Ends(r) /\ run[r].step # "off"
  BY DEF Fails, Raises
<1>2. run[r].step \in Working /\ run[r].step # "begin"
  BY DEF Fails, Working
<1>3. /\ UNCHANGED <<pointer, past, built>>
      /\ gens' \in {gens, gens \ {run[r].gen}} /\ gated' = gated \cap gens'
      /\ completed' \subseteq completed \cup {Completion(r)}
      /\ snapshots' = snapshots \ {<<run[r].due, run[r].data>>}
  BY DEF Fails
\* Nobody knows the candidate.
<1>4. run[r].gen \notin past
  BY RunFacts DEF Fails, Progress
<1>5. \A g \in gens \cap gated \cap past : g \in gens' \cap gated'
  BY <1>3, <1>4
\* The snapshot that goes is of a checkpoint that is not completed.
<1>6. run[r].due \notin ThresholdsOf(completed)
  BY <1>2, RunFacts DEF Progress
<1>7. \A i \in completed : i.gen # NoGen /\ SnapshotOf(i.gen) \in snapshots
                              => SnapshotOf(i.gen) \in snapshots'
  BY <1>3, <1>6 DEF Inv, AcceptedIsBacked, ThresholdsOf
<1>8. /\ Completion(r).threshold = run[r].due
      /\ Completion(r) \in completed' /\ Completion(r) \notin completed => Completion(r).gen = NoGen
  BY RunFacts DEF Fails, Completion
<1>9. AcceptedIsBacked'
  BY <1>3, <1>5, <1>6, <1>7, <1>8, BackedKept DEF Inv
<1>10. Serials'
  BY <1>3 DEF Inv, Serials
<1> QED
  BY <1>1, <1>9, <1>10, EndedProgress, AllOff

LEMMA DiesInv ==
    ASSUME Inv, NEW r \in Runs, Dies(r)
    PROVE  Exclusive' /\ Serials' /\ AcceptedIsBacked' /\ \A q \in Runs : Progress(run[q])'
<1> USE DEF file, world
<1>1. Ends(r) /\ run[r].step # "off"
  BY DEF Dies, Raises
<1>2. /\ UNCHANGED <<completed, snapshots, gated, pointer, past>>
      /\ \/ UNCHANGED <<gens, built>>
         \/ gens' = gens \cup {Candidate(r)} /\ built' = built + 1
  BY DEF Dies
<1>3. AcceptedIsBacked'
  BY <1>2, BackedKept DEF Inv
<1>4. Candidate(r).serial = built + 1
  BY DEF Candidate
<1>5. Serials'
  BY <1>2, <1>4, RunFacts DEF Inv, Serials
<1> QED
  BY <1>1, <1>3, <1>5, EndedProgress, AllOff

LEMMA RestoreInv ==
    ASSUME Inv, NEW g \in past \cup {NoGen}, Restore(g)
    PROVE  Exclusive' /\ Serials' /\ AcceptedIsBacked' /\ \A q \in Runs : Progress(run[q])'
<1> USE DEF file
<1>1. AcceptedIsBacked'
  BY BackedKept DEF Restore, Inv
<1>2. Exclusive' /\ Serials'
  BY DEF Restore, Inv, Exclusive, Serials
<1>3. \A q \in Runs : Progress(run[q])'
  BY DEF Restore, Inv, Progress, Own, SnapshotOf, ThresholdsOf
<1> QED
  BY <1>1, <1>2, <1>3

\* A step outside of the runs and the registry.
LEMMA ElsewhereInv ==
    ASSUME Inv, UNCHANGED <<completed, snapshots, gens, gated, pointer, past, built, lock, run>>
    PROVE  Exclusive' /\ Serials' /\ AcceptedIsBacked' /\ \A q \in Runs : Progress(run[q])'
<1> USE DEF registry
<1>1. AcceptedIsBacked'
  BY BackedKept DEF Inv
<1>2. Exclusive' /\ Serials'
  BY DEF Inv, Exclusive, Serials
<1>3. \A q \in Runs : Progress(run[q])'
  BY DEF Inv, Progress, Own, SnapshotOf, ThresholdsOf
<1> QED
  BY <1>1, <1>2, <1>3

LEMMA InvStep == Inv /\ [Next]_vars => Inv'
<1> SUFFICES ASSUME Inv, [Next]_vars PROVE Inv'
  OBVIOUS
<1> USE DEF world, file, registry
<1> DEFINE Goal == Exclusive' /\ Serials' /\ AcceptedIsBacked' /\ \A q \in Runs : Progress(run[q])'
<1>1. Typed' /\ Engaged'
  BY TypeStep DEF Inv
<1>2. ASSUME NEW r \in Runs, Start(r) PROVE Goal
  <2>1. PICK key \in Keys \cup {NoJob} : Claim(r, key) \/ Busy(r, key)
    BY <1>2 DEF Start
  <2>2. CASE Busy(r, key)
    BY <2>2, ElsewhereInv DEF Busy
  <2> QED
    BY <2>1, <2>2, ClaimInv
<1>3. ASSUME NEW r \in Runs, RunStep(r) \/ Dies(r) PROVE Goal
  BY <1>2, <1>3, BeginInv, TrainInv, AcceptInv, ActivateInv, RecordInv, PruneInv, FailsInv,
     DiesInv DEF RunStep
<1>4. ASSUME Plan PROVE Goal
  <2>1. UNCHANGED <<completed, snapshots, gens, gated, pointer, past, built, lock, run>>
    BY <1>4 DEF Plan
  <2> QED
    BY <2>1, ElsewhereInv
<1>5. ASSUME NEW g \in past \cup {NoGen}, Restore(g) PROVE Goal
  BY <1>5, RestoreInv
<1>6. ASSUME NEW k \in Thresholds, Expire(k) PROVE Goal
  BY <1>6, ElsewhereInv DEF Expire
<1>7. ASSUME Grow PROVE Goal
  <2>1. UNCHANGED <<completed, snapshots, gens, gated, pointer, past, built, lock, run>>
    BY <1>7 DEF Grow
  <2> QED
    BY <2>1, ElsewhereInv
<1>8. ASSUME UNCHANGED vars PROVE Goal
  <2>1. UNCHANGED <<completed, snapshots, gens, gated, pointer, past, built, lock, run>>
    BY <1>8 DEF vars
  <2> QED
    BY <2>1, ElsewhereInv
<1>9. Goal
  BY <1>3, <1>4, <1>5, <1>6, <1>7, <1>8 DEF Next, RunStep
<1> QED
  BY <1>1, <1>9 DEF Inv

\* Whatever fails, crashes, overlaps or is rolled back, what the pointer and the state
\* file name is there, accepted and backed by its snapshot.
THEOREM Backing == Spec => []AcceptedIsBacked
<1>1. Inv => AcceptedIsBacked
  BY DEF Inv
<1> QED
  BY <1>1, InvInit, InvStep, PTL DEF Spec
=============================================================================
