------------------------ MODULE CampaignFeederProofs ------------------------
(* Theorems about CampaignFeeder, for any number of generations, rows and  *)
(* mishaps.                                                                *)
EXTENDS CampaignFeeder, FiniteSetTheorems, SequenceTheorems, TLAPS

-----------------------------------------------------------------------------
(* The invariant                                                            *)

Cycle == [phase : Phases, gen : Generations, st : State, left : Nat,
          rows : Nat, judged : SUBSET Nat]
Task  == [item : Item, state : {"live", "done", "dud"}]

\* What is remembered of tasks exists.
Known == /\ ledger.outstanding \subseteq Ids /\ step.st.outstanding \subseteq Ids
         /\ step.judged \subseteq Ids

Finite == IsFiniteSet(rows) /\ IsFiniteSet(net)

Submitting == {"lookup", "room", "post", "reconcile"}

\* A cycle submits only as long as something is left to do.
Working == step.phase \in {"choose", "save"} \cup Submitting => step.left > 0

Typing == FeederTypeOK /\ Known /\ Finite /\ Working

\* The candidates recorded by st are different, and its cursors are not behind them.
Recorded(ts, st) ==
    /\ \A i \in st.outstanding : ts[i].item.cand <= st.cursor[ts[i].item.gen]
    /\ \A i, j \in st.outstanding : Sample(ts[i].item) = Sample(ts[j].item) => i = j

\* The candidate being submitted is beyond what is recorded.
Beyond == step.phase \in Submitting =>
              \A i \in step.st.outstanding :
                  tasks[i].item.gen = step.gen
                      => tasks[i].item.cand < step.st.cursor[step.gen]

Records == Recorded(tasks, ledger) /\ Recorded(tasks, step.st) /\ Beyond

\* A task is classified after its row was merged, if it has one.
Classified == \A i \in judged : \/ tasks[i].state = "dud"
                                \/ tasks[i].state = "done" /\ i \in rows

Expected == rows \cup (Ids \ judged)

\* What the dataset has and may get comes from the rows the cycle has counted and
\* from the tasks it has not seen classified.
Counted == step.phase = "inventory" =>
               \E R \in SUBSET rows :
                   /\ Cardinality(R) = step.rows
                   /\ rows \subseteq R \cup (Ids \ step.judged)
                   /\ step.judged \subseteq judged
                   /\ \A i \in step.judged : tasks[i].state = "dud" \/ i \in R

\* What the cycle still intends to submit.
Intended == IF step.phase \in {"choose"} \cup Submitting THEN step.left
            ELSE IF step.phase = "save" THEN step.left - 1 ELSE 0

\* Each request that may still arrive has cost a fault.
Budget == /\ Cardinality(net) <= faults
          /\ Cardinality(Expected) + Cardinality(net) + Intended <= MaxSamples + faults

Ceiling == Classified /\ Counted /\ Budget

\* The candidates submitted: those of tasks, and of requests that may still arrive.
Sent == {tasks[i].item : i \in Ids} \cup net

\* Another generation has a task with the serial of r.
Displaced(r) == \E k \in Ids : tasks[k].item.serial = r.serial /\ tasks[k].item.gen # r.gen

\* A cycle holds the state file in memory, from Choose to Save with one more name and
\* one more candidate of its generation; what it is about to save has a task.
Memory ==
    /\ step.phase \in {"count", "dataset", "inventory", "choose"} =>
           step.st.serial = ledger.serial /\ step.st.cursor = ledger.cursor
    /\ step.phase \in {"save"} \cup Submitting =>
           /\ step.st.serial = ledger.serial + 1
           /\ step.st.cursor[step.gen] = ledger.cursor[step.gen] + 1
           /\ \A g \in Generations \ {step.gen} : step.st.cursor[g] = ledger.cursor[g]
    /\ step.phase = "save" => \E i \in Ids : tasks[i].item = Chosen

\* A serial in use names the next candidate of its generation.  One that was saved
\* names a candidate that is used up, unless it was saved for another generation.
Numbered ==
    \A r \in Sent :
        /\ r.serial <= ledger.serial + 1
        /\ r.serial = ledger.serial + 1 => r.cand = ledger.cursor[r.gen] + 1
        /\ r.serial <= ledger.serial => r.cand <= ledger.cursor[r.gen] \/ Displaced(r)

\* A candidate is submitted under a later serial only after losing its own.
Paired == \A r, q \in Sent : Sample(r) = Sample(q) /\ r.serial < q.serial => Displaced(r)

\* The scheduler's deduplication by the key.
Distinct == \A i, j \in Ids : tasks[i].item = tasks[j].item => i = j

Replays == Distinct /\ (~ lost => Memory /\ Numbered /\ Paired)

-----------------------------------------------------------------------------
(* Tasks                                                                    *)

\* Tasks are only added, and only their state changes.
Extended == /\ Ids \subseteq Ids'
            /\ \A i \in Ids : tasks'[i].item = tasks[i].item

LEMMA TasksTyped ==
  ASSUME FeederTypeOK
  PROVE  /\ tasks \in Seq(Task) /\ Ids = 1 .. Len(tasks) /\ Len(tasks) \in Nat
         /\ IsFiniteSet(Ids) /\ \A i \in Ids : tasks[i] \in Task
<1>1. tasks \in Seq(Task) /\ Ids = 1 .. Len(tasks) /\ Len(tasks) \in Nat
  BY DEF FeederTypeOK, Task, Ids
<1>2. \A i \in Ids : tasks[i] \in Task
  BY <1>1
<1> QED
  BY <1>1, <1>2, FS_Interval

LEMMA ReceivedTask ==
  ASSUME FeederTypeOK, NEW r \in Item, tasks' = Received(r)
  PROVE  /\ tasks' \in Seq(Task) /\ Extended /\ \E n : Ids' \subseteq Ids \cup {n}
         /\ \A i \in Ids : tasks'[i] = tasks[i]
         /\ \A i \in Ids' \ Ids : tasks'[i].item = r /\ tasks'[i].state = "live"
<1>1. CASE Holding(r) # {}
  BY <1>1, TasksTyped DEF Received, Extended, Ids
<1>2. CASE Holding(r) = {}
  <2> DEFINE t == [item |-> r, state |-> "live"]
  <2>1. t \in Task /\ t.item = r /\ t.state = "live"
    BY DEF Task
  <2>2. tasks' = Append(tasks, t)
    BY <1>2 DEF Received
  <2>3. /\ tasks' \in Seq(Task) /\ Len(tasks') = Len(tasks) + 1
        /\ \A i \in 1 .. Len(tasks) : tasks'[i] = tasks[i]
        /\ tasks'[Len(tasks) + 1] = t
    BY <2>1, <2>2, TasksTyped, AppendProperties
  <2>4. Ids' = 1 .. Len(tasks) + 1
    BY <2>3 DEF Ids
  <2>5. Ids' \subseteq Ids \cup {Len(tasks) + 1}
    BY <2>4, TasksTyped
  <2> HIDE DEF t
  <2> QED
    BY <2>1, <2>3, <2>4, <2>5, TasksTyped DEF Extended
<1> QED
  BY <1>1, <1>2

LEMMA EndedTask ==
  ASSUME FeederTypeOK, NEW i \in Ids, NEW s \in {"done", "dud"}, End(i, s)
  PROVE  /\ tasks' \in Seq(Task) /\ Extended /\ Ids' = Ids
         /\ \A j \in Ids \ {i} : tasks'[j] = tasks[j]
         /\ tasks[i].state = "live" /\ tasks'[i].state = s
<1>1. tasks' = [tasks EXCEPT ![i].state = s] /\ tasks[i].state = "live"
  BY DEF End
<1>2. Ids' = Ids /\ Len(tasks') = Len(tasks) /\ DOMAIN tasks' = DOMAIN tasks
  BY <1>1, TasksTyped DEF Ids
<1>3. /\ \A j \in Ids \ {i} : tasks'[j] = tasks[j]
      /\ tasks'[i] = [tasks[i] EXCEPT !.state = s]
  BY <1>1, TasksTyped DEF Ids
<1>4. /\ tasks'[i].state = s /\ tasks'[i].item = tasks[i].item
      /\ tasks'[i] \in Task
  BY <1>3, TasksTyped DEF Task
<1>5. tasks' \in Seq(Task)
  BY <1>1, <1>3, <1>4, TasksTyped DEF Ids
<1> QED
  BY <1>1, <1>2, <1>3, <1>4, <1>5 DEF Extended

LEMMA ActiveCounted ==
  ASSUME FeederTypeOK, NEW s
  PROVE  IsFiniteSet(InState(s)) /\ Cardinality(InState(s)) \in Nat
<1>1. InState(s) \subseteq Ids
  BY DEF InState
<1> QED
  BY <1>1, TasksTyped, FS_Subset, FS_CardinalityType

LEMMA FaultsCounted ==
  ASSUME FeederTypeOK, Fault
  PROVE  faults' = faults + 1 /\ faults' \in 0 .. Mishaps
<1>1. Cardinality(InState("dud")) \in Nat
  BY ActiveCounted
<1> QED
  BY <1>1, FeederAssumption DEF Fault, Mishap, FeederTypeOK

-----------------------------------------------------------------------------
(* Typing                                                                   *)

LEMMA IdleTyped ==
  /\ Fresh \in State /\ Idle.phase = "idle" /\ Idle.gen = Looping /\ Idle.st = Fresh
  /\ Idle.left = 0 /\ Idle.rows = 0 /\ Idle.judged = {} /\ Fresh.outstanding = {}
  /\ Idle \in Cycle
<1>1. Fresh \in State /\ Fresh.outstanding = {}
  BY DEF Fresh, State
<1> QED
  BY <1>1, FeederAssumption DEF Idle, Phases, Cycle

LEMMA ChosenTyped ==
  ASSUME FeederTypeOK
  PROVE  Chosen \in Item
  BY DEF FeederTypeOK, State, Item, Chosen

LEMMA ReservedCounted ==
  ASSUME Typing
  PROVE  IsFiniteSet(Reserved) /\ Cardinality(Reserved) \in Nat
<1>1. Reserved \subseteq Ids
  BY DEF Reserved, Typing, Known
<1> QED
  BY <1>1, TasksTyped, FS_Subset, FS_CardinalityType DEF Typing

\* The cycle begins, counts and reads the dataset.
LEMMA ReadingTyped ==
  ASSUME Typing, (\E g \in Generations : Enter(g)) \/ Count \/ ReadDataset
  PROVE  Typing'
<1>1. ASSUME NEW g \in Generations, Enter(g) PROVE Typing'
  BY <1>1, IdleTyped DEF Enter, Cycle, Typing, FeederTypeOK, Known, Finite, Working, Submitting,
     Idle, Phases, world, Ids, State
<1>2. CASE Count
  <2> DEFINE active == Cardinality(InState("live"))
  <2>1. PICK left \in Nat : step' = [step EXCEPT !.phase = "dataset", !.left = left]
    <3> DEFINE room == IF active < Target THEN Target - active ELSE 0
    <3>1. active \in Nat
      BY ActiveCounted DEF Typing
    <3>2. \/ step' = [step EXCEPT !.phase = "dataset", !.left = room]
          \/ step' = [step EXCEPT !.phase = "dataset", !.left = 0]
      BY <1>2 DEF Count
    <3> HIDE DEF active
    <3>3. room \in Nat
      BY <3>1, FeederAssumption
    <3> QED
      BY <3>2, <3>3
  <2>2. faults' \in 0 .. Mishaps
    BY <1>2, FaultsCounted DEF Count, Typing, FeederTypeOK
  <2> QED
    BY <1>2, <2>1, <2>2 DEF Count, Typing, FeederTypeOK, Known, Finite, Working, Submitting,
       Phases, world, Ids
<1>3. CASE ReadDataset
  <2>1. Cardinality(rows) \in Nat
    BY FS_CardinalityType DEF Typing, Finite
  <2>2. judged \subseteq Nat
    BY TasksTyped DEF Typing, FeederTypeOK
  <2> QED
    BY <1>3, <2>1, <2>2 DEF ReadDataset, Typing, FeederTypeOK, Known, Finite, Working,
       Submitting, Phases, world, Ids
<1> QED
  BY <1>1, <1>2, <1>3

\* What ReadInventory makes of the counts.
LEMMA InventoryStep ==
  ASSUME Typing, ReadInventory
  PROVE  /\ step.rows + Cardinality(Reserved) \in Nat
         /\ \/ step' = Idle
            \/ \E new \in Nat :
                 /\ new > 0
                 /\ step.rows + Cardinality(Reserved) + new <= MaxSamples
                 /\ step' = [step EXCEPT !.phase = "choose", !.left = new,
                                         !.rows = 0, !.judged = {}]
<1> DEFINE projected == step.rows + Cardinality(Reserved)
           new == IF step.left < MaxSamples - projected THEN step.left
                  ELSE MaxSamples - projected
<1>1. projected \in Nat /\ step.left \in Nat /\ MaxSamples \in Nat
  BY ReservedCounted, FeederAssumption DEF Typing, FeederTypeOK
<1>2. step' = IF projected >= MaxSamples \/ step.left = 0 THEN Idle
              ELSE [step EXCEPT !.phase = "choose", !.left = new, !.rows = 0, !.judged = {}]
  BY DEF ReadInventory
<1> HIDE DEF projected
<1>3. CASE ~ (projected >= MaxSamples \/ step.left = 0)
  <2>1. new \in Nat /\ new > 0 /\ projected + new <= MaxSamples
    BY <1>1, <1>3
  <2>2. step' = [step EXCEPT !.phase = "choose", !.left = new, !.rows = 0, !.judged = {}]
    BY <1>2, <1>3
  <2> QED
    BY <1>1, <2>1, <2>2 DEF projected
<1> QED
  BY <1>1, <1>2, <1>3 DEF projected

LEMMA InventoryTyped ==
  ASSUME Typing, ReadInventory
  PROVE  Typing'
<1>1. CASE step' = Idle
  BY <1>1, IdleTyped DEF ReadInventory, Cycle, Typing, FeederTypeOK, Known, Finite, Working,
     Submitting, world, Ids
<1>2. ASSUME NEW new \in Nat, new > 0,
             step' = [step EXCEPT !.phase = "choose", !.left = new, !.rows = 0, !.judged = {}]
      PROVE  Typing'
  <2>1. over' \in BOOLEAN
    BY DEF ReadInventory
  <2>2. UNCHANGED <<ledger, tasks, net, rows, judged, faults, lost>>
    BY DEF ReadInventory, world
  <2> QED
    BY <1>2, <2>1, <2>2 DEF Typing, FeederTypeOK, Known, Finite, Working, Submitting,
       Phases, Ids
<1> QED
  BY <1>1, <1>2, InventoryStep

\* What Choose makes of the state in memory.
LEMMA ChooseStep ==
  ASSUME Typing, Choose
  PROVE  /\ step' \in Cycle
         /\ step'.phase = "lookup" /\ step'.gen = step.gen /\ step'.left = step.left
         /\ step'.rows = step.rows /\ step'.judged = step.judged
         /\ step'.st.outstanding = step.st.outstanding
         /\ step'.st.serial = step.st.serial + 1
         /\ step'.st.cursor[step.gen] = step.st.cursor[step.gen] + 1
         /\ \A g \in Generations \ {step.gen} : step'.st.cursor[g] = step.st.cursor[g]
<1>1. step \in Cycle
  BY DEF Typing, FeederTypeOK, Cycle
<1> DEFINE up == [step.st.cursor EXCEPT ![step.gen] = @ + 1]
           st == [step.st EXCEPT !.serial = @ + 1, !.cursor = up]
<1>2. step' = [step EXCEPT !.phase = "lookup", !.st = st]
  BY <1>1 DEF Choose, State, Cycle
<1>3. up \in [Generations -> Nat] /\ up[step.gen] = step.st.cursor[step.gen] + 1
      /\ \A g \in Generations \ {step.gen} : up[g] = step.st.cursor[g]
  BY <1>1 DEF State, Cycle
<1> HIDE DEF up
<1>4. /\ st \in State /\ st.cursor = up /\ st.outstanding = step.st.outstanding
      /\ st.serial = step.st.serial + 1
  <2>1. step.st \in State
    BY <1>1 DEF Cycle
  <2>2. step.st.serial + 1 \in Nat
    BY <2>1 DEF State
  <2>3. PICK n \in Nat : n = step.st.serial + 1
    BY <2>2
  <2>4. st = [step.st EXCEPT !.serial = n, !.cursor = up]
    BY <2>3
  <2> HIDE DEF st
  <2> QED
    BY <1>3, <2>1, <2>3, <2>4 DEF State
<1> HIDE DEF st
<1> QED
  BY <1>1, <1>2, <1>3, <1>4 DEF Phases, Cycle

LEMMA ChooseTyped ==
  ASSUME Typing, Choose
  PROVE  Typing'
<1>1. UNCHANGED <<ledger, over, tasks, net, rows, judged, faults, lost>> /\ step.phase = "choose"
  BY DEF Choose, world
<1> QED
  BY <1>1, ChooseStep DEF Cycle, Typing, FeederTypeOK, Known, Finite, Working, Submitting, Ids

\* What Accept makes of the state in memory.
LEMMA AcceptStep ==
  ASSUME Typing, NEW ids \in SUBSET Nat, Accept(ids)
  PROVE  \E i \in ids :
           /\ step' \in Cycle /\ step'.phase = "save"
           /\ step'.gen = step.gen /\ step'.left = step.left /\ step'.rows = step.rows
           /\ step'.judged = step.judged /\ step'.st.cursor = step.st.cursor
           /\ step'.st.serial = step.st.serial
           /\ step'.st.outstanding = step.st.outstanding \cup {i}
<1>1. PICK i \in ids : step' = [step EXCEPT !.phase = "save", !.st.outstanding = @ \cup {i}]
  BY DEF Accept
<1>2. step \in Cycle /\ step.st \in State
  BY DEF Typing, FeederTypeOK, Cycle
<1>3. PICK out \in SUBSET Nat : out = step.st.outstanding \cup {i}
  BY <1>2 DEF State
<1>4. PICK st : st = [step.st EXCEPT !.outstanding = out]
  OBVIOUS
<1>5. /\ st \in State /\ st.cursor = step.st.cursor /\ st.outstanding = out
      /\ st.serial = step.st.serial
  BY <1>2, <1>4 DEF State
<1>6. step' = [step EXCEPT !.phase = "save", !.st = st]
  BY <1>1, <1>2, <1>3, <1>4 DEF Cycle, State
<1> QED
  BY <1>2, <1>3, <1>5, <1>6 DEF Cycle, Phases

\* The task exists, or it does not and the cycle goes on or ends.
LEMMA LookingTyped ==
  ASSUME Typing, Lookup \/ CheckRoom \/ Reconcile
  PROVE  Typing'
<1>1. /\ UNCHANGED <<ledger, over, tasks, net, rows, judged, faults, lost>>
      /\ step.phase \in Submitting
  BY DEF Lookup, CheckRoom, Reconcile, world, Submitting
<1>2. Holding(Chosen) \subseteq Ids /\ Holding(Chosen) \in SUBSET Nat
  BY TasksTyped DEF Holding, Typing
<1>3. CASE Accept(Holding(Chosen))
  BY <1>1, <1>2, <1>3, AcceptStep DEF Cycle, Typing, FeederTypeOK, Known, Finite, Working,
     Submitting, Ids
<1>4. CASE step' = Idle
  BY <1>1, <1>4, IdleTyped DEF Cycle, Typing, FeederTypeOK, Known, Finite, Working,
     Submitting, Ids
<1>5. ASSUME NEW phase \in Submitting, Goes(phase) PROVE Typing'
  BY <1>1, <1>5 DEF Goes, Phases, Typing, FeederTypeOK, Known, Finite, Working,
     Submitting, Ids
<1> QED
  BY <1>3, <1>4, <1>5 DEF Lookup, CheckRoom, Reconcile, Submitting

LEMMA PostTyped ==
  ASSUME Typing, Post
  PROVE  Typing'
<1>1. /\ tasks' = Received(Chosen) /\ UNCHANGED <<ledger, over, net, rows, judged, faults, lost>>
      /\ step.phase = "post"
  BY DEF Post
<1>2. tasks' \in Seq(Task) /\ Ids \subseteq Ids' /\ Ids' \subseteq Nat
  BY <1>1, ReceivedTask, ChosenTyped DEF Typing, Extended, Ids
<1>3. PICK ids \in SUBSET Ids' : Accept(ids)
  BY DEF Post, Ids
<1>4. ids \in SUBSET Nat
  BY <1>2
<1> QED
  BY <1>1, <1>2, <1>3, <1>4, AcceptStep DEF Cycle, Task, Typing, FeederTypeOK, Known, Finite,
     Working, Submitting

LEMMA PostLostTyped ==
  ASSUME Typing, PostLost
  PROVE  Typing'
<1>1. /\ Goes("reconcile") /\ UNCHANGED <<ledger, over, rows, judged, lost>>
      /\ step.phase = "post" /\ faults' \in 0 .. Mishaps
  BY FaultsCounted DEF PostLost, Typing
<1>2. tasks' \in Seq(Task) /\ Ids \subseteq Ids'
  BY ReceivedTask, ChosenTyped, TasksTyped DEF PostLost, Typing, Extended, Ids
<1>3. net' \subseteq Item /\ IsFiniteSet(net')
  <2>1. net \subseteq Item /\ IsFiniteSet(net) /\ Chosen \in Item
    BY ChosenTyped DEF Typing, FeederTypeOK, Finite
  <2>2. net' = net \/ net' = net \cup {Chosen}
    BY DEF PostLost
  <2> QED
    BY <2>1, <2>2, FS_AddElement
<1> QED
  BY <1>1, <1>2, <1>3 DEF Goes, Phases, Task, Typing, FeederTypeOK, Known, Finite, Working,
     Submitting

LEMMA SaveTyped ==
  ASSUME Typing, Save
  PROVE  Typing'
<1>1. /\ ledger' = step.st /\ UNCHANGED <<over, tasks, net, rows, judged, faults, lost>>
      /\ step.left > 0 /\ step.left \in Nat
  BY DEF Save, world, Typing, Working, FeederTypeOK
<1>2. CASE step' = Idle
  BY <1>1, <1>2, IdleTyped DEF Cycle, Typing, FeederTypeOK, Known, Finite, Working,
     Submitting, Ids
<1>3. CASE step.left # 1 /\ step' = [step EXCEPT !.phase = "choose", !.left = @ - 1]
  <2>1. step.left - 1 \in Nat /\ step.left - 1 > 0
    BY <1>1, <1>3
  <2> QED
    BY <1>1, <1>3, <2>1 DEF Phases, Typing, FeederTypeOK, Known, Finite, Working,
       Submitting, Ids
<1> QED
  BY <1>2, <1>3 DEF Save

\* Faults of the cycle, and everything that goes on around it.
LEMMA ElsewhereTyped ==
  ASSUME Typing,
         \/ Abort \/ Lose \/ \E r \in net : Land(r)
         \/ \E i \in Ids : Collected(i) \/ \E s \in {"done", "dud"} : End(i, s)
  PROVE  Typing'
<1>1. CASE Abort \/ Lose
  <2>1. /\ step' = Idle /\ ledger' \in {ledger, Fresh} /\ faults' \in 0 .. Mishaps
        /\ UNCHANGED <<over, tasks, net, rows, judged>> /\ lost' \in {lost, TRUE}
    BY <1>1, FaultsCounted DEF Abort, Lose, world, Typing
  <2> QED
    BY <2>1, IdleTyped DEF Cycle, Typing, FeederTypeOK, Known, Finite, Working, Submitting, Ids
<1>2. ASSUME NEW r \in net, Land(r) PROVE Typing'
  <2>1. tasks' \in Seq(Task) /\ Ids \subseteq Ids'
    BY <1>2, ReceivedTask DEF Land, Typing, FeederTypeOK, Extended
  <2>2. net' \subseteq Item /\ IsFiniteSet(net')
    BY <1>2, FS_RemoveElement DEF Land, Typing, FeederTypeOK, Finite
  <2> QED
    BY <1>2, <2>1, <2>2 DEF Land, Task, Typing, FeederTypeOK, Known, Finite, Working
<1>3. ASSUME NEW i \in Ids, Merge(i) PROVE Typing'
  <2>1. IsFiniteSet(rows') /\ rows' \subseteq Ids
    BY <1>3, FS_AddElement DEF Merge, Typing, FeederTypeOK, Finite
  <2> QED
    BY <1>3, <2>1 DEF Merge, Typing, FeederTypeOK, Known, Finite, Working, Ids
<1>4. ASSUME NEW i \in Ids, Judge(i) PROVE Typing'
  BY <1>4 DEF Judge, Typing, FeederTypeOK, Known, Finite, Working, Ids
<1>5. ASSUME NEW i \in Ids, NEW s \in {"done", "dud"}, End(i, s) PROVE Typing'
  BY <1>5, EndedTask DEF End, Task, Typing, FeederTypeOK, Known, Finite, Working
<1> QED
  BY <1>1, <1>2, <1>3, <1>4, <1>5 DEF Collected

LEMMA TypingInit == FeederInit => Typing
<1> SUFFICES ASSUME FeederInit PROVE Typing
  OBVIOUS
<1>1. Ids = {} /\ tasks \in Seq(Task)
  BY DEF FeederInit, Ids
<1>2. FeederTypeOK
  <2>1. over \in BOOLEAN /\ lost \in BOOLEAN
    BY DEF FeederInit
  <2>2. ledger \in State /\ step \in Cycle
    BY IdleTyped DEF FeederInit
  <2>3. faults \in 0 .. Mishaps
    BY FeederAssumption DEF FeederInit
  <2>4. net \subseteq Item /\ rows \subseteq Ids /\ judged \subseteq Ids
    BY DEF FeederInit
  <2> QED
    BY <1>1, <2>1, <2>2, <2>3, <2>4 DEF Cycle, Task, FeederTypeOK
<1>3. Known /\ Working
  BY IdleTyped DEF FeederInit, Known, Working, Submitting
<1>4. Finite
  BY FS_EmptySet DEF FeederInit, Finite
<1> QED
  BY <1>2, <1>3, <1>4 DEF Typing

LEMMA TypingStep == Typing /\ [FeederNext]_feederVars => Typing'
<1> SUFFICES ASSUME Typing, [FeederNext]_feederVars PROVE Typing'
  OBVIOUS
<1>1. CASE UNCHANGED feederVars
  BY <1>1 DEF feederVars, world, Typing, FeederTypeOK, Known, Finite, Working, Ids
<1>2. CASE FeederNext
  BY <1>2, ReadingTyped, InventoryTyped, ChooseTyped, LookingTyped, PostTyped, PostLostTyped,
     SaveTyped, ElsewhereTyped DEF FeederNext, FeederStep
<1> QED
  BY <1>1, <1>2

\* The type invariant, for any number of generations and mishaps.
THEOREM FeederTyping == FeederSpec => []FeederTypeOK
<1>1. Typing => FeederTypeOK
  BY DEF Typing
<1> QED
  BY <1>1, TypingInit, TypingStep, PTL DEF FeederSpec

-----------------------------------------------------------------------------
(* Nothing is recorded twice                                                *)

LEMMA StaysRecorded ==
  ASSUME NEW ts, NEW us, NEW st, Recorded(ts, st),
         \A i \in st.outstanding : us[i].item = ts[i].item
  PROVE  Recorded(us, st)
BY DEF Recorded

\* Steps that record nothing.
LEMMA NoRecord ==
  ASSUME Typing, Records, Extended,
         ledger' \in {ledger, step.st, Fresh}, step'.st \in {ledger, step.st, Fresh},
         step'.phase \in Submitting => /\ step.phase \in Submitting
                                       /\ step'.gen = step.gen /\ step'.st = step.st
  PROVE  Records'
<1>1. /\ \A i \in ledger.outstanding : tasks'[i].item = tasks[i].item
      /\ \A i \in step.st.outstanding : tasks'[i].item = tasks[i].item
  BY DEF Typing, Known, Extended
<1>2. Recorded(tasks', ledger) /\ Recorded(tasks', step.st)
  BY <1>1, StaysRecorded DEF Records
<1>3. Recorded(tasks', Fresh)
  BY IdleTyped DEF Recorded
<1>4. Beyond'
  BY <1>1 DEF Beyond, Records
<1> QED
  BY <1>2, <1>3, <1>4 DEF Records

LEMMA ChooseRecords ==
  ASSUME Typing, Records, Choose
  PROVE  Records'
<1>1. tasks' = tasks /\ ledger' = ledger /\ step.gen \in Generations
  BY DEF Choose, world, Typing, FeederTypeOK
<1>2. /\ step'.st.outstanding = step.st.outstanding /\ step'.gen = step.gen
      /\ step'.st.cursor[step.gen] = step.st.cursor[step.gen] + 1
      /\ \A g \in Generations \ {step.gen} : step'.st.cursor[g] = step.st.cursor[g]
  BY ChooseStep
<1>3. \A i \in step.st.outstanding :
          tasks[i].item.gen \in Generations /\ tasks[i].item.cand \in Nat
  BY TasksTyped DEF Typing, Known, Task, Item
<1>4. \A g \in Generations : step.st.cursor[g] \in Nat
  BY DEF Typing, FeederTypeOK, State
<1>5. \A i \in step.st.outstanding :
          /\ tasks[i].item.cand <= step'.st.cursor[tasks[i].item.gen]
          /\ tasks[i].item.gen = step.gen
                 => tasks[i].item.cand < step'.st.cursor[step.gen]
  <2> SUFFICES ASSUME NEW i \in step.st.outstanding
               PROVE  /\ tasks[i].item.cand <= step'.st.cursor[tasks[i].item.gen]
                      /\ tasks[i].item.gen = step.gen
                             => tasks[i].item.cand < step'.st.cursor[step.gen]
    OBVIOUS
  <2>1. tasks[i].item.cand <= step.st.cursor[tasks[i].item.gen]
    BY DEF Records, Recorded
  <2>2. CASE tasks[i].item.gen = step.gen
    BY <1>1, <1>2, <1>3, <1>4, <2>1, <2>2
  <2>3. CASE tasks[i].item.gen # step.gen
    BY <1>2, <1>3, <2>1, <2>3
  <2> QED
    BY <2>2, <2>3
<1>6. Recorded(tasks, step'.st)
  BY <1>2, <1>5 DEF Records, Recorded
<1>7. Beyond'
  BY <1>1, <1>2, <1>5 DEF Beyond
<1> QED
  BY <1>1, <1>6, <1>7 DEF Records

\* The task of the candidate being submitted is recorded.
LEMMA AcceptRecords ==
  ASSUME Typing, Records, Extended, step.phase \in Submitting, ledger' = ledger,
         NEW ids \in SUBSET Nat, Accept(ids), \A i \in ids : tasks'[i].item = Chosen
  PROVE  Records'
<1>1. PICK i \in ids : /\ step'.phase = "save" /\ step'.st.cursor = step.st.cursor
                       /\ step'.st.outstanding = step.st.outstanding \cup {i}
  BY AcceptStep
<1>2. /\ \A j \in ledger.outstanding : tasks'[j].item = tasks[j].item
      /\ \A j \in step.st.outstanding : tasks'[j].item = tasks[j].item
  BY DEF Typing, Known, Extended
<1>3. Recorded(tasks', ledger) /\ Recorded(tasks', step.st)
  BY <1>2, StaysRecorded DEF Records
<1>4. /\ tasks'[i].item.gen = step.gen /\ tasks'[i].item.cand = step.st.cursor[step.gen]
      /\ step.st.cursor[step.gen] \in Nat
  BY DEF Chosen, Typing, FeederTypeOK, State
<1>5. \A j \in step.st.outstanding :
          /\ tasks'[j].item.cand \in Nat
          /\ tasks'[j].item.gen = step.gen => tasks'[j].item.cand < step.st.cursor[step.gen]
  BY <1>2, TasksTyped DEF Records, Beyond, Typing, Known, Task, Item
<1>6. \A j \in step.st.outstanding : Sample(tasks'[j].item) # Sample(tasks'[i].item)
  BY <1>4, <1>5 DEF Sample
<1>7. Recorded(tasks', step'.st)
  BY <1>1, <1>3, <1>4, <1>6 DEF Recorded
<1> QED
  BY <1>1, <1>3, <1>7 DEF Records, Beyond, Submitting

LEMMA RecordsStep ==
  ASSUME Typing, Records, [FeederNext]_feederVars
  PROVE  Records'
<1>1. Extended /\ UNCHANGED step /\ UNCHANGED ledger => Records'
  BY NoRecord
<1>2. tasks' = tasks => Extended
  BY DEF Extended, Ids
<1>3. \A ids : tasks' = tasks /\ ids = Holding(Chosen) =>
          ids \in SUBSET Nat /\ \A i \in ids : tasks'[i].item = Chosen
  BY TasksTyped DEF Holding, Typing
<1>4. CASE (\E g \in Generations : Enter(g)) \/ Count \/ ReadDataset \/ ReadInventory
  <2>1. step'.phase \notin Submitting /\ step'.st \in {ledger, step.st, Fresh}
    <3>1. ASSUME NEW g \in Generations, Enter(g)
          PROVE  step'.phase = "count" /\ step'.st = ledger
      BY <3>1, IdleTyped DEF Enter, Cycle
    <3>2. CASE Count \/ ReadDataset
      BY <3>2 DEF Count, ReadDataset, Typing, FeederTypeOK, Submitting
    <3>3. CASE ReadInventory
      BY <3>3, IdleTyped DEF ReadInventory, Typing, FeederTypeOK, Submitting
    <3> QED
      BY <1>4, <3>1, <3>2, <3>3 DEF Submitting
  <2>2. tasks' = tasks /\ ledger' = ledger
    BY <1>4 DEF Enter, Count, ReadDataset, ReadInventory, world
  <2> QED
    BY <1>2, <2>1, <2>2, NoRecord
<1>5. CASE Choose
  BY <1>5, ChooseRecords
<1>6. CASE Lookup \/ Reconcile \/ CheckRoom
  <2>1. tasks' = tasks /\ ledger' = ledger /\ step.phase \in Submitting
    BY <1>6 DEF Lookup, Reconcile, CheckRoom, world, Submitting
  <2>2. CASE Accept(Holding(Chosen))
    BY <1>2, <1>3, <2>1, <2>2, AcceptRecords
  <2>3. CASE step' = Idle
    BY <1>2, <2>1, <2>3, IdleTyped, NoRecord DEF Submitting
  <2>4. ASSUME NEW phase \in Submitting, Goes(phase) PROVE Records'
    <3>1. step'.st = step.st /\ step'.gen = step.gen
      BY <2>4 DEF Goes, Typing, FeederTypeOK
    <3> QED
      BY <1>2, <2>1, <3>1, NoRecord
  <2> QED
    BY <1>6, <2>2, <2>3, <2>4 DEF Lookup, Reconcile, CheckRoom, Submitting
<1>7. CASE Post
  <2>1. /\ tasks' = Received(Chosen) /\ ledger' = ledger /\ step.phase \in Submitting
        /\ Accept({i \in DOMAIN tasks' : tasks'[i].item = Chosen})
    BY <1>7 DEF Post, Submitting
  <2>2. Extended /\ DOMAIN tasks' \subseteq Nat
    BY <2>1, ReceivedTask, ChosenTyped DEF Typing
  <2>3. PICK ids : ids = {i \in DOMAIN tasks' : tasks'[i].item = Chosen}
    OBVIOUS
  <2>4. /\ ids \in SUBSET Nat /\ Accept(ids)
        /\ \A i \in ids : tasks'[i].item = Chosen
    BY <2>1, <2>2, <2>3
  <2> QED
    BY <2>1, <2>2, <2>4, AcceptRecords
<1>8. CASE PostLost
  <2>1. Extended /\ ledger' = ledger
    BY <1>2, <1>8, ReceivedTask, ChosenTyped DEF PostLost, Typing
  <2>2. step.phase \in Submitting /\ step'.st = step.st /\ step'.gen = step.gen
    BY <1>8 DEF PostLost, Goes, Typing, FeederTypeOK, Submitting
  <2> QED
    BY <2>1, <2>2, NoRecord
<1>9. CASE Save
  <2>1. tasks' = tasks /\ ledger' = step.st
    BY <1>9 DEF Save, world
  <2>2. step'.phase \notin Submitting /\ step'.st \in {step.st, Fresh}
    BY <1>9, IdleTyped DEF Save, Typing, FeederTypeOK, Submitting
  <2> QED
    BY <1>2, <2>1, <2>2, NoRecord
<1>10. CASE Abort \/ Lose
  <2>1. tasks' = tasks /\ ledger' \in {ledger, Fresh} /\ step' = Idle
    BY <1>10 DEF Abort, Lose, world
  <2> QED
    BY <1>2, <2>1, IdleTyped, NoRecord DEF Submitting
<1>11. ASSUME NEW r \in net, Land(r) PROVE Records'
  <2>1. Extended
    BY <1>11, ReceivedTask DEF Land, Typing, FeederTypeOK
  <2> QED
    BY <1>1, <1>11, <2>1 DEF Land
<1>12. ASSUME NEW i \in Ids, Collected(i) PROVE Records'
  BY <1>1, <1>2, <1>12 DEF Collected, Merge, Judge
<1>13. ASSUME NEW i \in Ids, NEW s \in {"done", "dud"}, End(i, s) PROVE Records'
  <2>1. Extended
    BY <1>13, EndedTask DEF Typing
  <2> QED
    BY <1>1, <1>13, <2>1 DEF End
<1>14. CASE UNCHANGED feederVars
  BY <1>1, <1>2, <1>14 DEF feederVars, world
<1> QED
  BY <1>4, <1>5, <1>6, <1>7, <1>8, <1>9, <1>10, <1>11, <1>12, <1>13, <1>14
     DEF FeederNext, FeederStep

LEMMA RecordsInit == FeederInit => Records
BY IdleTyped DEF FeederInit, Records, Recorded, Beyond, Submitting

\* The ledger never lists two tasks of one candidate, however often cycles of whatever
\* generation are cut short, answers are lost and requests arrive late.
THEOREM NothingTwice == FeederSpec => []ConsumedOnce
<1>1. Records => ConsumedOnce
  BY DEF Records, Recorded, ConsumedOnce
<1>2. FeederInit => Typing /\ Records
  BY TypingInit, RecordsInit
<1>3. Typing /\ Records /\ [FeederNext]_feederVars => (Typing /\ Records)'
  BY TypingStep, RecordsStep
<1> QED
  BY <1>1, <1>2, <1>3, PTL DEF FeederSpec

-----------------------------------------------------------------------------
(* The ceiling                                                              *)

LEMMA UnionCounted ==
  ASSUME NEW S, NEW T, IsFiniteSet(S), IsFiniteSet(T)
  PROVE  /\ IsFiniteSet(S \cup T)
         /\ Cardinality(S) \in Nat /\ Cardinality(T) \in Nat /\ Cardinality(S \cup T) \in Nat
         /\ Cardinality(S \cup T) <= Cardinality(S) + Cardinality(T)
<1>1. /\ IsFiniteSet(S \cup T)
      /\ Cardinality(S \cup T) = Cardinality(S) + Cardinality(T) - Cardinality(S \cap T)
  BY FS_Union
<1>2. IsFiniteSet(S \cap T)
  BY FS_Intersection
<1>3. /\ Cardinality(S) \in Nat /\ Cardinality(T) \in Nat /\ Cardinality(S \cup T) \in Nat
      /\ Cardinality(S \cap T) \in Nat
  BY <1>1, <1>2, FS_CardinalityType
<1> QED
  BY <1>1, <1>3

LEMMA OneMore ==
  ASSUME NEW S, NEW x, NEW T, IsFiniteSet(S), T \subseteq S \cup {x}
  PROVE  /\ IsFiniteSet(T) /\ Cardinality(T) \in Nat
         /\ Cardinality(T) <= Cardinality(S) + 1
<1>1. IsFiniteSet(S \cup {x}) /\ Cardinality(S \cup {x}) <= Cardinality(S) + 1
  <2>1. Cardinality(S) \in Nat
    BY FS_CardinalityType
  <2> QED
    BY <2>1, FS_AddElement
<1>2. IsFiniteSet(T) /\ Cardinality(T) <= Cardinality(S \cup {x})
  BY <1>1, FS_Subset
<1>3. Cardinality(T) \in Nat /\ Cardinality(S \cup {x}) \in Nat /\ Cardinality(S) \in Nat
  BY <1>1, <1>2, FS_CardinalityType
<1> QED
  BY <1>1, <1>2, <1>3

LEMMA ExpectedCounted ==
  ASSUME Typing
  PROVE  /\ IsFiniteSet(Expected) /\ Cardinality(Expected) \in Nat
         /\ IsFiniteSet(net) /\ Cardinality(net) \in Nat
         /\ Intended \in Nat /\ faults \in Nat /\ MaxSamples \in Nat
<1>1. IsFiniteSet(Ids \ judged)
  BY TasksTyped, FS_Difference DEF Typing
<1>2. IsFiniteSet(rows) /\ IsFiniteSet(net)
  BY DEF Typing, Finite
<1>3. IsFiniteSet(Expected)
  BY <1>1, <1>2, UnionCounted DEF Expected
<1>4. Intended \in Nat
  BY DEF Intended, Typing, FeederTypeOK, Working, Submitting
<1>5. faults \in Nat /\ MaxSamples \in Nat
  BY FeederAssumption DEF Typing, FeederTypeOK
<1> QED
  BY <1>2, <1>3, <1>4, <1>5, FS_CardinalityType

\* What a received request adds.
LEMMA ReceivedExpected ==
  ASSUME Typing, NEW r \in Item, tasks' = Received(r), UNCHANGED <<rows, judged>>
  PROVE  /\ Cardinality(Expected') <= Cardinality(Expected) + 1
         /\ Cardinality(Expected') \in Nat
<1>1. PICK n : Ids' \subseteq Ids \cup {n}
  BY ReceivedTask DEF Typing
<1>2. Expected' \subseteq Expected \cup {n}
  BY <1>1 DEF Expected
<1> QED
  BY <1>2, ExpectedCounted, OneMore

\* Steps that promise no row more.
LEMMA NoPromise ==
  ASSUME Typing, Budget, Expected' \subseteq Expected, net' = net,
         faults' \in {faults, faults + 1}, Intended' \in Nat, Intended' <= Intended
  PROVE  Budget'
<1>1. Cardinality(Expected') <= Cardinality(Expected) /\ Cardinality(Expected') \in Nat
  BY ExpectedCounted, FS_Subset, FS_CardinalityType
<1>2. PICK e \in Nat, f \in Nat, n \in Nat, k \in Nat :
          e = Cardinality(Expected) /\ f = faults /\ n = Cardinality(net) /\ k = Intended
  BY ExpectedCounted
<1>3. n <= f /\ e + n + k <= MaxSamples + f
  BY <1>2 DEF Budget
<1>4. PICK e2 \in Nat, k2 \in Nat : e2 = Cardinality(Expected') /\ k2 = Intended'
  BY <1>1
<1>5. e2 <= e /\ k2 <= k
  BY <1>1, <1>2, <1>4
<1>6. PICK f2 \in Nat : f2 = faults' /\ f2 >= f
  BY <1>2
<1>7. n <= f2 /\ e2 + n + k2 <= MaxSamples + f2
  BY <1>3, <1>5, <1>6, ExpectedCounted
<1> QED
  BY <1>2, <1>4, <1>6, <1>7 DEF Budget

LEMMA PostBudget ==
  ASSUME Typing, Budget, Post
  PROVE  Budget'
<1>1. /\ tasks' = Received(Chosen) /\ UNCHANGED <<net, rows, judged, faults>>
      /\ step.phase = "post"
  BY DEF Post
<1>2. step'.phase = "save" /\ step'.left = step.left
  BY <1>1 DEF Post, Accept, Typing, FeederTypeOK
<1>3. step.left \in Nat /\ step.left > 0 /\ Intended = step.left /\ Intended' = step.left - 1
  BY <1>1, <1>2 DEF Typing, FeederTypeOK, Working, Intended, Submitting
<1>4. Cardinality(Expected') <= Cardinality(Expected) + 1 /\ Cardinality(Expected') \in Nat
  BY <1>1, ReceivedExpected, ChosenTyped DEF Typing
<1> QED
  BY <1>1, <1>3, <1>4, ExpectedCounted DEF Budget

LEMMA PostLostBudget ==
  ASSUME Typing, Budget, PostLost
  PROVE  Budget'
<1>1. /\ step.phase = "post" /\ Goes("reconcile") /\ faults' = faults + 1
      /\ UNCHANGED <<rows, judged>>
  BY DEF PostLost, Fault
<1>2. Intended' = Intended
  BY <1>1 DEF Goes, Intended, Submitting, Typing, FeederTypeOK
<1>3. CASE tasks' = Received(Chosen) /\ net' = net
  <2>1. Cardinality(Expected') <= Cardinality(Expected) + 1 /\ Cardinality(Expected') \in Nat
    BY <1>1, <1>3, ReceivedExpected, ChosenTyped DEF Typing
  <2> QED
    BY <1>1, <1>2, <1>3, <2>1, ExpectedCounted DEF Budget
<1>4. CASE tasks' = tasks /\ net' = net \cup {Chosen}
  <2>1. Cardinality(net') <= Cardinality(net) + 1 /\ Cardinality(net') \in Nat
    BY <1>4, ExpectedCounted, OneMore
  <2>2. Expected' = Expected
    BY <1>1, <1>4 DEF Expected, Ids
  <2> QED
    BY <1>1, <1>2, <2>1, <2>2, ExpectedCounted DEF Budget
<1> QED
  BY <1>3, <1>4 DEF PostLost

LEMMA LandBudget ==
  ASSUME Typing, Budget, NEW r \in net, Land(r)
  PROVE  Budget'
<1>1. /\ tasks' = Received(r) /\ net' = net \ {r} /\ r \in Item
      /\ UNCHANGED <<step, rows, judged, faults>>
  BY DEF Land, Typing, FeederTypeOK
<1>2. Cardinality(Expected') <= Cardinality(Expected) + 1 /\ Cardinality(Expected') \in Nat
  BY <1>1, ReceivedExpected
<1>3. Cardinality(net') = Cardinality(net) - 1
  BY <1>1, ExpectedCounted, FS_RemoveElement
<1>4. Intended' = Intended
  BY <1>1 DEF Intended
<1> QED
  BY <1>1, <1>2, <1>3, <1>4, ExpectedCounted DEF Budget

\* The plan fits under the ceiling, whatever has happened since the counts were read.
LEMMA InventoryBudget ==
  ASSUME Typing, Budget, Counted, ReadInventory
  PROVE  Budget'
<1>1. UNCHANGED <<tasks, net, rows, judged, faults>> /\ step.phase = "inventory"
  BY DEF ReadInventory, world
<1>2. Expected' = Expected
  BY <1>1 DEF Expected, Ids
<1>3. CASE step' = Idle
  <2>1. Intended' = 0
    BY <1>3, IdleTyped DEF Intended, Submitting
  <2> QED
    BY <1>1, <1>2, <2>1, ExpectedCounted, NoPromise
<1>4. ASSUME NEW new \in Nat, step.rows + Cardinality(Reserved) + new <= MaxSamples,
             step' = [step EXCEPT !.phase = "choose", !.left = new, !.rows = 0, !.judged = {}]
      PROVE  Budget'
  <2>1. PICK R \in SUBSET rows :
            /\ Cardinality(R) = step.rows
            /\ rows \subseteq R \cup (Ids \ step.judged)
            /\ step.judged \subseteq judged
    BY <1>1 DEF Counted
  <2>2. IsFiniteSet(R) /\ IsFiniteSet(Reserved) /\ Cardinality(Reserved) \in Nat
    BY ReservedCounted, FS_Subset DEF Typing, Finite
  <2>3. Expected \subseteq R \cup Reserved
    BY <2>1 DEF Expected, Reserved
  <2>4. /\ IsFiniteSet(R \cup Reserved) /\ Cardinality(R \cup Reserved) \in Nat
        /\ Cardinality(R \cup Reserved) <= Cardinality(R) + Cardinality(Reserved)
    BY <2>2, UnionCounted
  <2>5. Cardinality(Expected) <= Cardinality(R \cup Reserved)
    BY <2>3, <2>4, FS_Subset
  <2>6. step.rows \in Nat
    BY DEF Typing, FeederTypeOK
  <2>7. Cardinality(Expected) <= step.rows + Cardinality(Reserved)
    BY <2>1, <2>2, <2>4, <2>5, <2>6, ExpectedCounted
  <2>8. Intended' = new
    BY <1>4 DEF Intended, Typing, FeederTypeOK
  <2> QED
    BY <1>1, <1>2, <1>4, <2>2, <2>6, <2>7, <2>8, ExpectedCounted DEF Budget
<1> QED
  BY <1>3, <1>4, InventoryStep

\* All the other steps.
LEMMA OtherBudget ==
  ASSUME Typing, Classified, Budget, UNCHANGED net,
         \/ tasks' = tasks /\ rows' = rows /\ judged' = judged
         \/ step' = step /\ \E i \in Ids :
                Merge(i) \/ Judge(i) \/ \E s \in {"done", "dud"} : End(i, s),
         faults' \in {faults, faults + 1}, Intended' \in Nat, Intended' <= Intended
  PROVE  Budget'
<1>1. CASE tasks' = tasks /\ rows' = rows /\ judged' = judged
  BY <1>1, NoPromise DEF Expected, Ids
<1>2. ASSUME NEW i \in Ids, Merge(i) PROVE Expected' \subseteq Expected
  <2>1. i \in judged => i \in rows
    BY <1>2 DEF Merge, Classified
  <2>2. i \in Expected
    BY <2>1 DEF Expected
  <2> QED
    BY <1>2, <2>2 DEF Merge, Expected, Ids
<1>3. ASSUME NEW i \in Ids, Judge(i) PROVE Expected' \subseteq Expected
  BY <1>3 DEF Judge, Expected, Ids
<1>4. ASSUME NEW i \in Ids, NEW s \in {"done", "dud"}, End(i, s) PROVE Expected' \subseteq Expected
  <2>1. Extended /\ Ids' = Ids /\ rows' = rows /\ judged' = judged
    BY <1>4, EndedTask DEF End, Typing
  <2> QED
    BY <2>1 DEF Expected
<1> QED
  BY <1>1, <1>2, <1>3, <1>4, NoPromise

\* A step of the cycle that submits nothing intends no more than before.
LEMMA QuietBudget ==
  ASSUME Typing, Classified, Budget,
         \/ \E g \in Generations : Enter(g)
         \/ Count \/ ReadDataset \/ Choose \/ Lookup \/ CheckRoom \/ Reconcile \/ Save
         \/ Abort \/ Lose
  PROVE  Budget'
<1>1. UNCHANGED <<tasks, net, rows, judged>>
  BY DEF Enter, Count, ReadDataset, Choose, Lookup, CheckRoom, Reconcile, Save, Abort, Lose, world
<1>2. faults' \in {faults, faults + 1}
  BY DEF Enter, Count, ReadDataset, Choose, Lookup, CheckRoom, Reconcile, Save, Abort, Lose, Fault
<1>3. step.left \in Nat /\ Intended \in Nat
  BY ExpectedCounted DEF Typing, FeederTypeOK
<1>4. ASSUME step' = Idle PROVE Intended' = 0
  BY <1>4, IdleTyped DEF Intended, Submitting
<1>5. Intended' \in Nat /\ Intended' <= Intended
  <2>1. ASSUME NEW g \in Generations, Enter(g) PROVE Intended' = 0
    BY <2>1, IdleTyped DEF Enter, Intended, Submitting, Cycle
  <2>2. CASE Count \/ ReadDataset
    <3>1. step'.phase \in {"dataset", "inventory"}
      BY <2>2 DEF Count, ReadDataset, Typing, FeederTypeOK
    <3>2. Intended' = 0
      BY <3>1 DEF Intended, Submitting
    <3> QED
      BY <1>3, <3>2
  <2>3. CASE Choose
    <3>1. step.phase = "choose" /\ step'.phase = "lookup" /\ step'.left = step.left
      BY <2>3, ChooseStep DEF Choose
    <3> QED
      BY <1>3, <3>1 DEF Intended, Submitting
  <2>4. CASE Lookup \/ CheckRoom \/ Reconcile
    <3>1. step.phase \in Submitting
      BY <2>4 DEF Lookup, CheckRoom, Reconcile, Submitting
    <3>2. Intended = step.left /\ step.left > 0
      BY <3>1 DEF Intended, Submitting, Typing, Working
    <3>3. CASE Accept(Holding(Chosen))
      <4>1. step'.phase = "save" /\ step'.left = step.left
        BY <3>3 DEF Accept, Typing, FeederTypeOK
      <4>2. Intended' = step.left - 1
        BY <4>1 DEF Intended, Submitting
      <4> QED
        BY <1>3, <3>2, <4>2
    <3>4. ASSUME NEW phase \in Submitting, Goes(phase)
          PROVE  Intended' \in Nat /\ Intended' <= Intended
      <4>1. step'.phase \in Submitting /\ step'.left = step.left
        BY <3>4 DEF Goes, Typing, FeederTypeOK
      <4>2. Intended' = step.left
        BY <4>1 DEF Intended
      <4> QED
        BY <1>3, <3>2, <4>2
    <3> QED
      BY <1>3, <1>4, <2>4, <3>3, <3>4 DEF Lookup, CheckRoom, Reconcile, Submitting
  <2>5. CASE Save
    <3>1. step.phase = "save" /\ step.left > 0
      BY <2>5 DEF Save, Typing, Working
    <3>2. Intended = step.left - 1
      BY <3>1 DEF Intended, Submitting
    <3>3. CASE step' = [step EXCEPT !.phase = "choose", !.left = @ - 1]
      <4>1. step'.phase = "choose" /\ step'.left = step.left - 1
        BY <3>3 DEF Typing, FeederTypeOK
      <4>2. Intended' = step.left - 1
        BY <4>1 DEF Intended
      <4> QED
        BY <1>3, <3>1, <3>2, <4>2
    <3> QED
      BY <1>3, <1>4, <2>5, <3>3 DEF Save
  <2>6. CASE Abort \/ Lose
    BY <1>3, <1>4, <2>6 DEF Abort, Lose
  <2> QED
    BY <1>3, <2>1, <2>2, <2>3, <2>4, <2>5, <2>6
<1> QED
  BY <1>1, <1>2, <1>5, OtherBudget

LEMMA BudgetStep ==
  ASSUME Typing, Ceiling, [FeederNext]_feederVars
  PROVE  Budget'
<1>1. Classified /\ Counted /\ Budget
  BY DEF Ceiling
<1>2. Intended \in Nat
  BY ExpectedCounted
<1>3. ASSUME NEW i \in Ids,
             Merge(i) \/ Judge(i) \/ \E s \in {"done", "dud"} : End(i, s)
      PROVE  Budget'
  <2>1. UNCHANGED <<step, net, faults>>
    BY <1>3 DEF Merge, Judge, End
  <2>2. Intended' = Intended
    BY <2>1 DEF Intended
  <2> QED
    BY <1>1, <1>2, <1>3, <2>1, <2>2, OtherBudget
<1>4. CASE UNCHANGED feederVars
  <2>1. UNCHANGED <<step, tasks, net, rows, judged, faults>>
    BY <1>4 DEF feederVars, world
  <2>2. Intended' = Intended
    BY <2>1 DEF Intended
  <2> QED
    BY <1>1, <1>2, <2>1, <2>2, OtherBudget
<1> QED
  BY <1>1, <1>3, <1>4, QuietBudget, InventoryBudget, PostBudget, PostLostBudget, LandBudget
     DEF FeederNext, FeederStep, Collected

\* The tasks change only in their number, or one of them ends.
LEMMA WorldStep ==
  ASSUME Typing, [FeederNext]_feederVars
  PROVE  /\ Extended /\ rows \subseteq rows'
         /\ \A i \in Ids : tasks[i].state # "live" => tasks'[i] = tasks[i]
         /\ judged' = judged \/ \E i \in Ids : Judge(i)
         /\ rows' = rows \/ \E i \in Ids : Merge(i)
<1>1. ASSUME NEW r \in Item, tasks' = Received(r)
      PROVE  Extended /\ \A i \in Ids : tasks'[i] = tasks[i]
  BY <1>1, ReceivedTask DEF Typing
<1>2. ASSUME NEW i \in Ids, NEW s \in {"done", "dud"}, End(i, s)
      PROVE  Extended /\ \A j \in Ids : tasks[j].state # "live" => tasks'[j] = tasks[j]
  BY <1>2, EndedTask DEF Typing
<1>3. tasks' = tasks => Extended
  BY DEF Extended, Ids
<1>4. Chosen \in Item /\ net \subseteq Item
  BY ChosenTyped DEF Typing, FeederTypeOK
<1>5. CASE \/ \E g \in Generations : Enter(g)
           \/ Count \/ ReadDataset \/ ReadInventory \/ Choose \/ Lookup \/ CheckRoom
           \/ Reconcile \/ Save \/ Abort \/ Lose \/ UNCHANGED feederVars
  <2>1. UNCHANGED <<tasks, rows, judged>>
    BY <1>5 DEF Enter, Count, ReadDataset, ReadInventory, Choose, Lookup, CheckRoom,
       Reconcile, Save, Abort, Lose, feederVars, world
  <2> QED
    BY <1>3, <2>1
<1>6. CASE Post \/ PostLost
  <2>1. UNCHANGED <<rows, judged>> /\ (tasks' = tasks \/ tasks' = Received(Chosen))
    BY <1>6 DEF Post, PostLost
  <2> QED
    BY <1>1, <1>3, <1>4, <2>1
<1>7. ASSUME NEW r \in net, Land(r)
      PROVE  /\ Extended /\ UNCHANGED <<rows, judged>>
             /\ \A i \in Ids : tasks'[i] = tasks[i]
  BY <1>1, <1>4, <1>7 DEF Land
<1>8. ASSUME NEW i \in Ids, Collected(i)
      PROVE  /\ tasks' = tasks /\ rows \subseteq rows'
             /\ judged' = judged \/ Judge(i)
             /\ rows' = rows \/ Merge(i)
  BY <1>8 DEF Collected, Merge, Judge
<1>9. ASSUME NEW i \in Ids, NEW s \in {"done", "dud"}, End(i, s)
      PROVE  UNCHANGED <<rows, judged>>
  BY <1>9 DEF End
<1> QED
  BY <1>2, <1>3, <1>5, <1>6, <1>7, <1>8, <1>9 DEF FeederNext, FeederStep

LEMMA ClassifiedStep ==
  ASSUME Typing, Classified, [FeederNext]_feederVars
  PROVE  Classified'
<1>1. ASSUME NEW i \in judged
      PROVE  \/ tasks'[i].state = "dud"
             \/ tasks'[i].state = "done" /\ i \in rows'
  <2>1. i \in Ids /\ tasks[i].state # "live"
    BY DEF Classified, Typing, FeederTypeOK
  <2> QED
    BY <2>1, WorldStep DEF Classified
<1>2. ASSUME NEW i \in Ids, Judge(i) PROVE Classified'
  BY <1>1, <1>2 DEF Judge, Classified
<1> QED
  BY <1>1, <1>2, WorldStep DEF Classified

LEMMA CountedStep ==
  ASSUME Typing, Classified, Counted, [FeederNext]_feederVars
  PROVE  Counted'
<1> SUFFICES ASSUME step'.phase = "inventory" PROVE Counted'
  BY DEF Counted
<1>1. ReadDataset \/ step' = step
  <2>1. \A g \in Generations : Enter(g) => step'.phase = "count"
    BY IdleTyped DEF Enter, Cycle
  <2>2. Count => step'.phase = "dataset"
    BY DEF Count, Typing, FeederTypeOK
  <2>3. ReadInventory \/ Save \/ Abort \/ Lose => step'.phase \in {"idle", "choose"}
    BY IdleTyped DEF ReadInventory, Save, Abort, Lose, Typing, FeederTypeOK
  <2>4. Choose => step'.phase = "lookup"
    BY ChooseStep
  <2>5. \A ids : Accept(ids) => step'.phase = "save"
    BY DEF Accept, Typing, FeederTypeOK
  <2>6. \A phase \in Submitting : Goes(phase) => step'.phase \in Submitting
    BY DEF Goes, Typing, FeederTypeOK
  <2>7. Lookup \/ CheckRoom \/ Post \/ PostLost \/ Reconcile
            => step'.phase \in {"idle", "save"} \cup Submitting
    BY <2>5, <2>6, IdleTyped DEF Lookup, CheckRoom, Post, PostLost, Reconcile, Submitting
  <2>8. (\E r \in net : Land(r)) \/ (\E i \in Ids : Collected(i)) => step' = step
    BY DEF Land, Collected, Merge, Judge
  <2>9. (\E i \in Ids, s \in {"done", "dud"} : End(i, s)) => step' = step
    BY DEF End
  <2> QED
    BY <2>1, <2>2, <2>3, <2>4, <2>7, <2>8, <2>9
       DEF FeederNext, FeederStep, feederVars, Submitting
<1>2. CASE ReadDataset
  <2>1. /\ step'.rows = Cardinality(rows) /\ step'.judged = judged
        /\ UNCHANGED <<tasks, rows, judged>>
    BY <1>2 DEF ReadDataset, world, Typing, FeederTypeOK
  <2>2. /\ Cardinality(rows') = step'.rows /\ step'.judged \subseteq judged'
        /\ \A i \in step'.judged : tasks'[i].state = "dud" \/ i \in rows'
    BY <2>1 DEF Classified
  <2> QED
    BY <2>2 DEF Counted
<1>3. CASE step' = step
  <2>1. PICK R \in SUBSET rows :
            /\ Cardinality(R) = step.rows
            /\ rows \subseteq R \cup (Ids \ step.judged)
            /\ step.judged \subseteq judged
            /\ \A i \in step.judged : tasks[i].state = "dud" \/ i \in R
    BY <1>3 DEF Counted
  <2>2. Extended /\ R \subseteq rows' /\ judged \subseteq judged'
    BY WorldStep DEF Judge
  <2>3. \A i \in step.judged : tasks'[i].state = "dud" \/ i \in R
    <3>1. \A i \in step.judged : i \in Ids /\ tasks[i].state # "live"
      BY <2>1 DEF Classified, Typing, FeederTypeOK
    <3> QED
      BY <2>1, <3>1, WorldStep
  <2>4. ASSUME NEW i \in Ids, Merge(i)
        PROVE  rows' \subseteq R \cup (Ids \ step.judged)
    <3>1. i \in step.judged => i \in R
      BY <2>1, <2>4 DEF Merge
    <3> QED
      BY <2>1, <2>4, <3>1 DEF Merge
  <2>5. rows' \subseteq R \cup (Ids' \ step.judged)
    BY <2>1, <2>2, <2>4, WorldStep DEF Extended
  <2> QED
    BY <1>3, <2>1, <2>2, <2>3, <2>5 DEF Counted
<1> QED
  BY <1>1, <1>2, <1>3

LEMMA CeilingInit == FeederInit => Ceiling
<1> SUFFICES ASSUME FeederInit PROVE Ceiling
  OBVIOUS
<1>1. Ids = {} /\ judged = {} /\ rows = {} /\ net = {} /\ faults = 0 /\ step = Idle
  BY DEF FeederInit, Ids
<1>2. Expected = {}
  BY <1>1 DEF Expected
<1>3. Intended = 0 /\ step.phase = "idle"
  BY <1>1, IdleTyped DEF Intended, Submitting
<1>4. Budget
  BY <1>1, <1>2, <1>3, FS_EmptySet, FeederAssumption DEF Budget
<1> QED
  BY <1>1, <1>3, <1>4 DEF Ceiling, Classified, Counted

\* The dataset never gets more than a row per fault beyond MaxSamples: what is promised
\* when a plan is made was counted, or is in the network at the cost of a fault.
THEOREM NoOverrun == FeederSpec => []CeilingKept
<1>1. Typing /\ Ceiling => CeilingKept
  <2> SUFFICES ASSUME Typing, Ceiling PROVE CeilingKept
    OBVIOUS
  <2>1. Cardinality(Expected) <= MaxSamples + faults
    BY ExpectedCounted DEF Ceiling, Budget
  <2> QED
    BY <2>1 DEF CeilingKept, Expected
<1>2. FeederInit => Typing /\ Ceiling
  BY TypingInit, CeilingInit
<1>3. Typing /\ Ceiling /\ [FeederNext]_feederVars => (Typing /\ Ceiling)'
  BY TypingStep, BudgetStep, ClassifiedStep, CountedStep DEF Ceiling
<1> QED
  BY <1>1, <1>2, <1>3, PTL DEF FeederSpec

-----------------------------------------------------------------------------
(* What a candidate simulated twice goes back to                             *)

LEMMA SentTyped ==
  ASSUME Typing
  PROVE  /\ \A r \in Sent : r \in Item /\ r.serial \in Nat /\ r.cand \in Nat
                             /\ r.gen \in Generations
         /\ ledger.serial \in Nat /\ \A g \in Generations : ledger.cursor[g] \in Nat
         /\ step.gen \in Generations /\ step.st.serial \in Nat
         /\ \A g \in Generations : step.st.cursor[g] \in Nat
<1>1. \A r \in Sent : r \in Item
  BY TasksTyped DEF Sent, Typing, FeederTypeOK, Task
<1> QED
  BY <1>1 DEF Item, Typing, FeederTypeOK, State

LEMMA StaysDisplaced ==
  ASSUME Extended, NEW r, Displaced(r)
  PROVE  Displaced(r)'
BY DEF Extended, Displaced

\* What the scheduler makes of a request.
LEMMA ReceivedSent ==
  ASSUME Typing, Distinct, NEW r \in Item, tasks' = Received(r)
  PROVE  /\ Extended /\ Distinct'
         /\ {tasks'[i].item : i \in Ids'} \subseteq {tasks[i].item : i \in Ids} \cup {r}
         /\ \E i \in Ids' : tasks'[i].item = r
<1>1. CASE Holding(r) # {}
  <2>1. tasks' = tasks /\ Ids' = Ids
    BY <1>1 DEF Received, Ids
  <2> QED
    BY <1>1, <2>1 DEF Holding, Distinct, Extended
<1>2. CASE Holding(r) = {}
  <2>1. /\ Extended /\ \A i \in Ids : tasks'[i] = tasks[i]
        /\ \A i \in Ids' \ Ids : tasks'[i].item = r
    BY ReceivedTask DEF Typing
  <2>2. PICK n \in Nat : n = Len(tasks) /\ Ids = 1 .. n
    BY TasksTyped DEF Typing
  <2>3. tasks' = Append(tasks, [item |-> r, state |-> "live"])
    BY <1>2 DEF Received
  <2>4. Ids' = 1 .. n + 1
    BY <2>2, <2>3, TasksTyped DEF Ids, Typing
  <2>5. \A i \in Ids : tasks[i].item # r
    BY <1>2 DEF Holding
  <2>6. Ids' = Ids \cup {n + 1} /\ n + 1 \notin Ids
    BY <2>2, <2>4
  <2> QED
    BY <2>1, <2>5, <2>6 DEF Distinct
<1> QED
  BY <1>1, <1>2

\* No candidate is submitted that was not submitted before.
LEMMA NothingSent ==
  ASSUME Extended, ledger' = ledger, Sent' \subseteq Sent, Numbered, Paired
  PROVE  Numbered' /\ Paired'
<1>1. \A r : Displaced(r) => Displaced(r)'
  BY StaysDisplaced
<1>2. Numbered'
  BY <1>1, Zenon DEF Numbered
<1>3. Paired'
  BY <1>1, Zenon DEF Paired
<1> QED
  BY <1>2, <1>3

\* The candidate of the cycle is.
LEMMA ChosenSent ==
  ASSUME Typing, Extended, Memory, Numbered, Paired, step.phase \in Submitting,
         ledger' = ledger, Sent' \subseteq Sent \cup {Chosen}
  PROVE  Numbered' /\ Paired'
<1>1. \A r : Displaced(r) => Displaced(r)'
  BY StaysDisplaced
<1>2. /\ Chosen.serial = ledger.serial + 1 /\ Chosen.cand = ledger.cursor[Chosen.gen] + 1
      /\ Chosen.gen = step.gen /\ Chosen.gen \in Generations
  BY SentTyped DEF Memory, Chosen
<1>3. ASSUME NEW r \in Sent'
      PROVE  /\ r.serial <= ledger.serial + 1
             /\ r.serial = ledger.serial + 1 => r.cand = ledger.cursor[r.gen] + 1
             /\ r.serial <= ledger.serial => r.cand <= ledger.cursor[r.gen] \/ Displaced(r)'
  <2>1. CASE r \in Sent
    BY <1>1, <2>1 DEF Numbered
  <2>2. CASE r = Chosen
    BY <1>2, <2>2, SentTyped
  <2> QED
    BY <2>1, <2>2
<1>4. Numbered'
  BY <1>3 DEF Numbered
<1>5. ASSUME NEW r \in Sent', NEW q \in Sent', Sample(r) = Sample(q), r.serial < q.serial
      PROVE  Displaced(r)'
  <2>1. r.gen = q.gen /\ r.cand = q.cand
    BY <1>5 DEF Sample
  <2>2. CASE r \in Sent /\ q \in Sent
    BY <1>1, <1>5, <2>2 DEF Paired
  <2>3. CASE r \in Sent /\ q = Chosen
    <3>1. r.serial <= ledger.serial /\ ~ r.cand <= ledger.cursor[r.gen]
      BY <1>2, <1>5, <2>1, <2>3, SentTyped
    <3> QED
      BY <1>1, <2>3, <3>1 DEF Numbered
  <2>4. CASE r = Chosen
    <3>1. q.serial <= ledger.serial + 1
      BY <1>3
    <3> QED
      BY <1>2, <1>5, <2>4, <3>1, <2>2, SentTyped
  <2> QED
    BY <2>2, <2>3, <2>4
<1> QED
  BY <1>4, <1>5 DEF Paired

LEMMA ChooseMemory ==
  ASSUME Typing, Memory, Choose
  PROVE  Memory'
<1>1. /\ ledger' = ledger /\ tasks' = tasks
      /\ step.st.serial = ledger.serial /\ step.st.cursor = ledger.cursor
  BY DEF Choose, world, Memory
<1> QED
  BY <1>1, ChooseStep DEF Memory, Submitting

\* The task that is about to be saved exists.
LEMMA AcceptMemory ==
  ASSUME Typing, Memory, step.phase \in Submitting, ledger' = ledger,
         NEW ids \in SUBSET Nat, Accept(ids), ids \subseteq Ids',
         \A i \in ids : tasks'[i].item = Chosen
  PROVE  Memory'
<1>1. PICK i \in ids :
           /\ step'.phase = "save" /\ step'.gen = step.gen
           /\ step'.st.serial = step.st.serial /\ step'.st.cursor = step.st.cursor
  BY AcceptStep
<1>2. Chosen' = Chosen
  BY <1>1 DEF Chosen
<1> QED
  BY <1>1, <1>2 DEF Memory, Submitting

\* The cycle goes on with what it has in memory, or has ended.
LEMMA SameMemory ==
  ASSUME Typing, Memory, Extended, ledger' = ledger,
         \/ step'.phase = "idle"
         \/ /\ step'.st = step.st /\ step'.gen = step.gen
            /\ \/ step'.phase = step.phase
               \/ {step.phase, step'.phase} \subseteq {"count", "dataset", "inventory", "choose"}
               \/ {step.phase, step'.phase} \subseteq Submitting
  PROVE  Memory'
<1>1. CASE step'.phase = "idle"
  BY <1>1 DEF Memory, Submitting
<1>2. CASE step'.st = step.st /\ step'.gen = step.gen
  <2>1. Chosen' = Chosen
    BY <1>2 DEF Chosen
  <2>2. step.phase = "save" => \E i \in Ids' : tasks'[i].item = Chosen'
    BY <2>1 DEF Memory, Extended
  <2> QED
    BY <1>1, <1>2, <2>2 DEF Memory, Submitting
<1> QED
  BY <1>1, <1>2

\* Once saved, the name and the candidate are used up.
LEMMA SaveReplays ==
  ASSUME Typing, Memory, Numbered, Paired, Save
  PROVE  Memory' /\ Numbered' /\ Paired'
<1>1. /\ step.phase = "save" /\ ledger' = step.st /\ UNCHANGED <<tasks, net>>
      /\ \/ step' = Idle
         \/ step' = [step EXCEPT !.phase = "choose", !.left = @ - 1]
  BY DEF Save, world
<1>2. /\ ledger'.serial = ledger.serial + 1
      /\ ledger'.cursor[step.gen] = ledger.cursor[step.gen] + 1
      /\ \A g \in Generations \ {step.gen} : ledger'.cursor[g] = ledger.cursor[g]
  BY <1>1 DEF Memory
<1>3. /\ Ids' = Ids /\ Sent' = Sent
      /\ \A r : Displaced(r)' <=> Displaced(r)
  BY <1>1 DEF Ids, Sent, Displaced
<1>4. PICK k \in Ids : tasks[k].item.serial = ledger.serial + 1 /\ tasks[k].item.gen = step.gen
  BY <1>1 DEF Memory, Chosen
<1>5. \A g \in Generations : ledger.cursor[g] <= ledger'.cursor[g]
  BY <1>2, SentTyped
<1>6. ASSUME NEW r \in Sent
      PROVE  /\ r.serial <= ledger'.serial
             /\ r.cand <= ledger'.cursor[r.gen] \/ Displaced(r)
  <2>1. /\ r.serial \in Nat /\ r.cand \in Nat /\ r.gen \in Generations
        /\ ledger.serial \in Nat
        /\ ledger.cursor[r.gen] \in Nat /\ ledger'.cursor[r.gen] \in Nat
    BY <1>1, SentTyped
  <2>2. r.serial <= ledger.serial + 1
    BY DEF Numbered
  <2>3. CASE r.serial <= ledger.serial
    <3>1. r.cand <= ledger.cursor[r.gen] \/ Displaced(r)
      BY <2>3 DEF Numbered
    <3> QED
      BY <1>2, <1>5, <2>1, <2>2, <3>1
  <2>4. CASE r.serial = ledger.serial + 1
    <3>1. r.cand = ledger.cursor[r.gen] + 1
      BY <2>4 DEF Numbered
    <3>2. r.gen # step.gen => Displaced(r)
      BY <1>4, <2>4 DEF Displaced
    <3> QED
      BY <1>2, <2>1, <2>4, <3>1, <3>2
  <2> QED
    BY <2>1, <2>2, <2>3, <2>4
<1>7. Numbered'
  <2>1. ASSUME NEW r \in Sent
        PROVE  /\ r.serial <= ledger'.serial + 1 /\ r.serial # ledger'.serial + 1
    BY <1>1, <1>6, SentTyped
  <2> QED
    BY <1>3, <1>6, <2>1 DEF Numbered
<1>8. Paired'
  BY <1>3 DEF Paired
<1>9. Memory'
  <2>1. CASE step' = Idle
    BY <2>1, IdleTyped DEF Memory, Submitting
  <2>2. CASE step' = [step EXCEPT !.phase = "choose", !.left = @ - 1]
    <3>1. step'.phase = "choose" /\ step'.st = step.st
      BY <2>2 DEF Typing, FeederTypeOK
    <3> QED
      BY <1>1, <3>1 DEF Memory, Submitting
  <2> QED
    BY <1>1, <2>1, <2>2
<1> QED
  BY <1>7, <1>8, <1>9

LEMMA PostReplays ==
  ASSUME Typing, Distinct, Post
  PROVE  Distinct' /\ (Memory /\ Numbered /\ Paired => Memory' /\ Numbered' /\ Paired')
<1>1. /\ step.phase \in Submitting /\ tasks' = Received(Chosen)
      /\ ledger' = ledger /\ net' = net /\ Chosen \in Item
  BY ChosenTyped DEF Post, Submitting, Typing
<1>2. Extended /\ Distinct' /\ Sent' \subseteq Sent \cup {Chosen}
  BY <1>1, ReceivedSent DEF Sent
<1>3. PICK ids : ids = {i \in Ids' : tasks'[i].item = Chosen}
  OBVIOUS
<1>4. Accept(ids) /\ ids \subseteq Ids' /\ \A i \in ids : tasks'[i].item = Chosen
  BY <1>3 DEF Post, Ids
<1>5. ids \in SUBSET Nat
  <2>1. Typing'
    BY PostTyped
  <2>2. FeederTypeOK'
    BY <2>1 DEF Typing
  <2>3. Ids' \subseteq Nat
    BY <2>2 DEF FeederTypeOK, Ids
  <2> QED
    BY <1>4, <2>3
<1> QED
  BY <1>1, <1>2, <1>4, <1>5, ChosenSent, AcceptMemory

LEMMA PostLostReplays ==
  ASSUME Typing, Distinct, PostLost
  PROVE  Distinct' /\ (Memory /\ Numbered /\ Paired => Memory' /\ Numbered' /\ Paired')
<1>1. /\ step.phase \in Submitting /\ ledger' = ledger /\ Chosen \in Item
      /\ step'.st = step.st /\ step'.gen = step.gen /\ step'.phase \in Submitting
  BY ChosenTyped DEF PostLost, Goes, Submitting, Typing, FeederTypeOK
<1>2. Extended /\ Distinct' /\ Sent' \subseteq Sent \cup {Chosen}
  <2>1. CASE tasks' = Received(Chosen) /\ net' = net
    BY <1>1, <2>1, ReceivedSent DEF Sent
  <2>2. CASE tasks' = tasks /\ net' = net \cup {Chosen}
    BY <2>2 DEF Sent, Extended, Ids, Distinct
  <2> QED
    BY <2>1, <2>2 DEF PostLost
<1>3. {step.phase, step'.phase} \subseteq Submitting
  BY <1>1
<1> QED
  BY <1>1, <1>2, <1>3, ChosenSent, SameMemory

\* Everything else leaves what was sent, and the state file, as they are.
LEMMA QuietReplays ==
  ASSUME Typing, Distinct,
         \/ \E g \in Generations : Enter(g)
         \/ Count \/ ReadDataset \/ ReadInventory \/ Choose
         \/ Lookup \/ CheckRoom \/ Reconcile \/ Abort \/ UNCHANGED feederVars
         \/ \E r \in net : Land(r)
         \/ \E i \in Ids : Collected(i) \/ \E s \in {"done", "dud"} : End(i, s)
  PROVE  Distinct' /\ (Memory /\ Numbered /\ Paired => Memory' /\ Numbered' /\ Paired')
<1>1. Extended /\ Distinct' /\ Sent' \subseteq Sent /\ ledger' = ledger
  <2>1. CASE UNCHANGED <<tasks, net, ledger>>
    BY <2>1 DEF Extended, Distinct, Sent, Ids
  <2>2. ASSUME NEW r \in net, Land(r)
        PROVE  Extended /\ Distinct' /\ Sent' \subseteq Sent /\ ledger' = ledger
    <3>1. /\ r \in Item /\ tasks' = Received(r) /\ net' \subseteq net /\ r \in Sent
          /\ ledger' = ledger
      BY <2>2 DEF Land, Typing, FeederTypeOK, Sent
    <3> QED
      BY <3>1, ReceivedSent DEF Sent
  <2>3. ASSUME NEW i \in Ids, NEW s \in {"done", "dud"}, End(i, s)
        PROVE  Extended /\ Distinct' /\ Sent' \subseteq Sent /\ ledger' = ledger
    <3>1. Extended /\ Ids' = Ids /\ net' = net /\ ledger' = ledger
      BY <2>3, EndedTask DEF End, Typing
    <3> QED
      BY <3>1 DEF Extended, Distinct, Sent
  <2>4. \/ UNCHANGED <<tasks, net, ledger>>
        \/ \E r \in net : Land(r)
        \/ \E i \in Ids, s \in {"done", "dud"} : End(i, s)
    BY DEF Enter, Count, ReadDataset, ReadInventory, Choose, Lookup, CheckRoom, Reconcile,
       Abort, feederVars, world, Collected, Merge, Judge
  <2> QED
    BY <2>1, <2>2, <2>3, <2>4
<1>2. ASSUME Memory PROVE Memory'
  <2>1. ASSUME NEW g \in Generations, Enter(g) PROVE Memory'
    <3>1. step'.phase = "count" /\ step'.st = ledger /\ ledger' = ledger
      BY <2>1, IdleTyped DEF Enter, Cycle
    <3> QED
      BY <3>1 DEF Memory, Submitting
  <2>2. CASE Count \/ ReadDataset
    <3>1. /\ step'.st = step.st /\ step'.gen = step.gen
          /\ {step.phase, step'.phase} \subseteq {"count", "dataset", "inventory", "choose"}
      BY <2>2 DEF Count, ReadDataset, Typing, FeederTypeOK
    <3> QED
      BY <1>1, <1>2, <3>1, SameMemory
  <2>3. CASE ReadInventory
    <3>1. \/ step'.phase = "idle"
          \/ /\ step'.st = step.st /\ step'.gen = step.gen
             /\ {step.phase, step'.phase} \subseteq {"count", "dataset", "inventory", "choose"}
      BY <2>3, InventoryStep, IdleTyped DEF ReadInventory, Typing, FeederTypeOK
    <3> QED
      BY <1>1, <1>2, <3>1, SameMemory
  <2>4. CASE Choose
    BY <1>2, <2>4, ChooseMemory
  <2>5. CASE Lookup \/ CheckRoom \/ Reconcile
    <3>1. step.phase \in Submitting /\ tasks' = tasks /\ Ids' = Ids
      BY <2>5 DEF Lookup, CheckRoom, Reconcile, Submitting, world, Ids
    <3>2. CASE Accept(Holding(Chosen))
      <4>1. /\ Holding(Chosen) \in SUBSET Nat /\ Holding(Chosen) \subseteq Ids'
            /\ \A i \in Holding(Chosen) : tasks'[i].item = Chosen
        BY <3>1, TasksTyped DEF Holding, Typing
      <4> QED
        BY <1>1, <1>2, <3>1, <3>2, <4>1, AcceptMemory
    <3>3. ASSUME NEW phase \in Submitting, Goes(phase) PROVE Memory'
      <4>1. /\ step'.st = step.st /\ step'.gen = step.gen
            /\ {step.phase, step'.phase} \subseteq Submitting
        BY <3>1, <3>3 DEF Goes, Typing, FeederTypeOK
      <4> QED
        BY <1>1, <1>2, <4>1, SameMemory
    <3>4. step' = Idle => Memory'
      BY <1>1, <1>2, SameMemory, IdleTyped
    <3> QED
      BY <2>5, <3>2, <3>3, <3>4 DEF Lookup, CheckRoom, Reconcile, Submitting
  <2>6. CASE Abort
    BY <1>1, <1>2, <2>6, SameMemory, IdleTyped DEF Abort
  <2>7. CASE step' = step
    BY <1>1, <1>2, <2>7, SameMemory
  <2>8. \/ \E g \in Generations : Enter(g)
        \/ Count \/ ReadDataset \/ ReadInventory \/ Choose
        \/ Lookup \/ CheckRoom \/ Reconcile \/ Abort \/ step' = step
    BY DEF Land, Collected, Merge, Judge, End, feederVars
  <2> QED
    BY <2>1, <2>2, <2>3, <2>4, <2>5, <2>6, <2>7, <2>8
<1> QED
  BY <1>1, <1>2, NothingSent

LEMMA ReplaysStep ==
  ASSUME Typing, Replays, [FeederNext]_feederVars
  PROVE  Replays'
<1>1. CASE Save
  <2>1. lost' = lost /\ tasks' = tasks
    BY <1>1 DEF Save, world
  <2> QED
    BY <1>1, <2>1, SaveReplays DEF Replays, Distinct, Ids
<1>2. CASE Lose
  <2>1. lost' = TRUE /\ tasks' = tasks
    BY <1>2 DEF Lose, world
  <2> QED
    BY <2>1 DEF Replays, Distinct, Ids
<1>3. CASE Post
  BY <1>3, PostReplays DEF Replays, Post
<1>4. CASE PostLost
  BY <1>4, PostLostReplays DEF Replays, PostLost
<1>5. CASE \/ \E g \in Generations : Enter(g)
           \/ Count \/ ReadDataset \/ ReadInventory \/ Choose
           \/ Lookup \/ CheckRoom \/ Reconcile \/ Abort \/ UNCHANGED feederVars
           \/ \E r \in net : Land(r)
           \/ \E i \in Ids : Collected(i) \/ \E s \in {"done", "dud"} : End(i, s)
  <2>1. lost' = lost
    BY <1>5 DEF Enter, Count, ReadDataset, ReadInventory, Choose, Lookup, CheckRoom,
       Reconcile, Abort, feederVars, Land, Collected, Merge, Judge, End
  <2> QED
    BY <1>5, <2>1, QuietReplays DEF Replays
<1> QED
  BY <1>1, <1>2, <1>3, <1>4, <1>5 DEF FeederNext, FeederStep

LEMMA ReplaysInit == FeederInit => Replays
<1> SUFFICES ASSUME FeederInit PROVE Replays
  OBVIOUS
<1>1. Ids = {} /\ net = {} /\ step.phase = "idle"
  BY IdleTyped DEF FeederInit, Ids
<1> QED
  BY <1>1 DEF Replays, Distinct, Memory, Numbered, Paired, Sent, Submitting

\* Without the loss of the state file, a candidate is simulated under two names only
\* when a submission that was not recorded lost its serial to another generation: the
\* file is advanced by one name and one candidate at a time, and only for a task.
THEOREM ReplaysExplained == FeederSpec => []ReplayExplained
<1>1. Typing /\ Replays => ReplayExplained
  <2> SUFFICES ASSUME Typing, Distinct, Paired,
                      NEW i \in Ids, NEW j \in Ids, i # j,
                      Sample(tasks[i].item) = Sample(tasks[j].item),
                      tasks[i].item.serial <= tasks[j].item.serial
               PROVE  Displaced(tasks[i].item)
    BY DEF Replays, ReplayExplained, Displaced
  <2>1. /\ tasks[i].item \in Item /\ tasks[j].item \in Item
        /\ tasks[i].item \in Sent /\ tasks[j].item \in Sent
    BY SentTyped DEF Sent
  <2>2. tasks[i].item # tasks[j].item
    BY DEF Distinct
  <2>3. tasks[i].item.serial # tasks[j].item.serial
    BY <2>1, <2>2 DEF Sample, Item
  <2>4. tasks[i].item.serial < tasks[j].item.serial
    BY <2>1, <2>3 DEF Item
  <2> QED
    BY <2>1, <2>4 DEF Paired
<1>2. FeederInit => Typing /\ Replays
  BY TypingInit, ReplaysInit
<1>3. Typing /\ Replays /\ [FeederNext]_feederVars => (Typing /\ Replays)'
  BY TypingStep, ReplaysStep
<1> QED
  BY <1>1, <1>2, <1>3, PTL DEF FeederSpec
=============================================================================
