---------------------------- MODULE CampaignFeeder ----------------------------
(***************************************************************************)
(* The feeder of the simulation campaign (campaign/feeder.py) and the      *)
(* submission of one task it relies on (verify/scheduler_client.py): a     *)
(* cycle counts what is active, what the dataset holds and what is still   *)
(* to come, and tops the campaign up with the next candidates, until the   *)
(* dataset has its rows.                                                   *)
(*                                                                         *)
(* Every cycle of every feeder on the host runs under one mutation lock;   *)
(* only one of them is a loop, others are single cycles, or the loop of    *)
(* an earlier or later launch.  They share the state file and differ in    *)
(* their candidate generation (both revisions and the seed).  A cycle may  *)
(* end anywhere, the answer to a POST may be lost while the request is     *)
(* still on its way, and a power loss may leave an empty state file.       *)
(*                                                                         *)
(* Simplifications: the project has no other tasks; the project policy     *)
(* and the deployed revisions do not change; a task yields one row or      *)
(* none.  The batch mode of the sealed controllers and the migration of a  *)
(* state without cursors are left out.                                     *)
(***************************************************************************)
EXTENDS Naturals, Sequences, FiniteSets

CONSTANTS Generations,   \* candidate generations
          Looping,       \* the one the loop runs with; the others run single cycles
          MaxSamples,    \* --max-samples
          Target,        \* --target plus --buffer, also the hard cap of a pooled feeder
          Mishaps        \* bound: faults, and tasks that end without a result

ASSUME FeederAssumption ==
    /\ Looping \in Generations
    /\ MaxSamples \in Nat \ {0} /\ Target \in Nat \ {0}
    /\ Mishaps \in Nat

VARIABLES ledger,   \* the state file
          step,     \* the cycle that holds the mutation lock, and its memory
          over,     \* the loop has ended
          tasks,    \* the scheduler's campaign tasks, in the order of their ids
          net,      \* requests whose sender gave up, and which may still arrive
          rows,     \* tasks with a row in the dataset
          judged,   \* tasks the collector has classified
          faults,   \* cycles cut short, answers lost, the file lost
          lost      \* the state file was lost

world      == <<tasks, net, rows, judged>>
feederVars == <<ledger, step, over, world, faults, lost>>

Ids == DOMAIN tasks

\* What is submitted: a name (the serial) and the parameters of a candidate, both
\* in the dedupe key.
Item      == [gen : Generations, serial : Nat, cand : Nat]
Sample(r) == <<r.gen, r.cand>>

\* candidate_cursors, 0 after the candidates reserved for the pilot.
State == [serial : Nat, cursor : [Generations -> Nat], outstanding : SUBSET Nat]
Fresh == [serial |-> 0, cursor |-> [g \in Generations |-> 0], outstanding |-> {}]

Phases == {"idle", "count", "dataset", "inventory", "choose", "lookup", "room", "post",
           "reconcile", "save"}

\* left: the deficit, then the tasks still to be submitted in this cycle.
Idle == [phase |-> "idle", gen |-> Looping, st |-> Fresh, left |-> 0, rows |-> 0, judged |-> {}]

FeederTypeOK ==
    /\ ledger \in State
    /\ step \in [phase : Phases, gen : Generations, st : State, left : Nat,
                 rows : Nat, judged : SUBSET Nat]
    /\ tasks \in Seq([item : Item, state : {"live", "done", "dud"}])
    /\ net \subseteq Item
    /\ rows \subseteq Ids /\ judged \subseteq Ids
    /\ faults \in 0 .. Mishaps
    /\ over \in BOOLEAN /\ lost \in BOOLEAN

FeederInit ==
    /\ ledger = Fresh /\ step = Idle /\ over = FALSE
    /\ tasks = <<>> /\ net = {} /\ rows = {} /\ judged = {}
    /\ faults = 0 /\ lost = FALSE

Goes(phase) == step' = [step EXCEPT !.phase = phase]

InState(s) == {i \in Ids : tasks[i].state = s}

\* Something may still go wrong.
Mishap == faults + Cardinality(InState("dud")) < Mishaps
Fault  == Mishap /\ faults' = faults + 1

----------------------------------------------------------------------------
(* What a cycle reads                                                      *)

\* guarded_step and step take the lock; _step_locked loads the state.
Enter(g) ==
    /\ step.phase = "idle"
    /\ g = Looping => ~ over
    /\ step' = [Idle EXCEPT !.phase = "count", !.gen = g, !.st = ledger]
    /\ UNCHANGED <<ledger, over, world, faults, lost>>

\* scheduler_snapshot: room under the target; none while the queue is blocked.
Count ==
    /\ step.phase = "count"
    /\ LET active == Cardinality(InState("live"))
           room   == IF active < Target THEN Target - active ELSE 0
       IN \/ step' = [step EXCEPT !.phase = "dataset", !.left = room] /\ UNCHANGED faults
          \/ step' = [step EXCEPT !.phase = "dataset", !.left = 0] /\ Fault
    /\ UNCHANGED <<ledger, over, world, lost>>

\* dataset_collection_snapshot: rows and judgements, both under the dataset lock.
ReadDataset ==
    /\ step.phase = "dataset"
    /\ step' = [step EXCEPT !.phase = "inventory", !.rows = Cardinality(rows), !.judged = judged]
    /\ UNCHANGED <<ledger, over, world, faults, lost>>

\* Mutant of Reserved: only tasks that are active are still expected to yield.
ReservedByActive == InState("live") \ step.judged

\* Mutant of Reserved: what the ledger lists stays reserved.
ReservedForGood == step.st.outstanding \cup (Ids \ step.judged)

\* reserved_unjudged_rows: every task the ledger or the scheduler knows, until the
\* collector has classified it.
Reserved == (step.st.outstanding \cup Ids) \ step.judged

\* campaign_inventory, and the decisions that follow.
ReadInventory ==
    /\ step.phase = "inventory"
    /\ LET projected == step.rows + Cardinality(Reserved)
           new       == IF step.left < MaxSamples - projected THEN step.left
                        ELSE MaxSamples - projected
       IN /\ step' = IF projected >= MaxSamples \/ step.left = 0 THEN Idle
                     ELSE [step EXCEPT !.phase = "choose", !.left = new,
                                       !.rows = 0, !.judged = {}]
          /\ over' = (over \/ (step.rows >= MaxSamples /\ step.gen = Looping))
    /\ UNCHANGED <<ledger, world, faults, lost>>

----------------------------------------------------------------------------
(* The submission of one task                                              *)

\* Mutant of Choose: a name is never given twice, the serial is saved at once.
ChooseForGood ==
    /\ step.phase = "choose"
    /\ step' = [step EXCEPT !.phase = "lookup", !.st.serial = @ + 1,
                            !.st.cursor[step.gen] = @ + 1]
    /\ ledger' = [ledger EXCEPT !.serial = @ + 1]
    /\ UNCHANGED <<over, world, faults, lost>>

\* The next name, and the next candidate of this generation.
Choose ==
    /\ step.phase = "choose"
    /\ step' = [step EXCEPT !.phase = "lookup", !.st.serial = @ + 1,
                            !.st.cursor[step.gen] = @ + 1]
    /\ UNCHANGED <<ledger, over, world, faults, lost>>

Chosen == [gen |-> step.gen, serial |-> step.st.serial, cand |-> step.st.cursor[step.gen]]

Holding(r) == {i \in Ids : tasks[i].item = r}

\* The scheduler deduplicates by the key.
Received(r) == IF Holding(r) # {} THEN tasks
               ELSE Append(tasks, [item |-> r, state |-> "live"])

\* The task id comes back, and joins the ledger in memory.
Accept(ids) ==
    \E i \in ids : step' = [step EXCEPT !.phase = "save",
                                        !.st.outstanding = @ \cup {i}]

\* reconcile_task_id before the POST: a task of this identity, in whatever state.
Lookup ==
    /\ step.phase = "lookup"
    /\ IF Holding(Chosen) # {} THEN Accept(Holding(Chosen)) ELSE Goes("room")
    /\ UNCHANGED <<ledger, over, world, faults, lost>>

\* live_project_submission_snapshot: ProjectCapacityError ends the cycle.
CheckRoom ==
    /\ step.phase = "room"
    /\ IF Cardinality(InState("live")) < Target THEN Goes("post") ELSE step' = Idle
    /\ UNCHANGED <<ledger, over, world, faults, lost>>

Post ==
    /\ step.phase = "post"
    /\ tasks' = Received(Chosen)
    /\ Accept({i \in DOMAIN tasks' : tasks'[i].item = Chosen})
    /\ UNCHANGED <<ledger, over, net, rows, judged, faults, lost>>

\* The POST raises, or is answered by an error: the request may have been served,
\* or arrive later, or never.
PostLost ==
    /\ step.phase = "post" /\ Fault
    /\ \/ tasks' = Received(Chosen) /\ UNCHANGED net
       \/ net' = net \cup {Chosen} /\ UNCHANGED tasks
    /\ Goes("reconcile")
    /\ UNCHANGED <<ledger, over, rows, judged, lost>>

\* reconcile_task_id once more; without a task the cycle raises, and what it has
\* not saved is forgotten.
Reconcile ==
    /\ step.phase = "reconcile"
    /\ IF Holding(Chosen) # {} THEN Accept(Holding(Chosen)) ELSE step' = Idle
    /\ UNCHANGED <<ledger, over, world, faults, lost>>

\* Mutant of Save: the cursor is not part of what is saved.
SaveWithoutCursor ==
    /\ step.phase = "save"
    /\ ledger' = [step.st EXCEPT !.cursor = ledger.cursor]
    /\ step' = IF step.left = 1 THEN Idle ELSE [step EXCEPT !.phase = "choose", !.left = @ - 1]
    /\ UNCHANGED <<over, world, faults, lost>>

\* save_state after every task: os.replace.
Save ==
    /\ step.phase = "save"
    /\ ledger' = step.st
    /\ step' = IF step.left = 1 THEN Idle ELSE [step EXCEPT !.phase = "choose", !.left = @ - 1]
    /\ UNCHANGED <<over, world, faults, lost>>

----------------------------------------------------------------------------
(* What goes wrong, and what goes on around the feeder                     *)

\* The process dies, which frees the lock, or a request fails and the cycle raises.
Abort ==
    /\ step.phase # "idle" /\ Fault
    /\ step' = Idle
    /\ UNCHANGED <<ledger, over, world, lost>>

\* Power is lost before the replaced file has its bytes: load_state starts fresh.
Lose ==
    /\ ~ lost /\ Fault
    /\ ledger' = Fresh /\ step' = Idle /\ lost' = TRUE
    /\ UNCHANGED <<over, world>>

\* A late request arrives.
Land(r) ==
    /\ r \in net
    /\ tasks' = Received(r) /\ net' = net \ {r}
    /\ UNCHANGED <<ledger, step, over, rows, judged, faults, lost>>

End(i, s) ==
    /\ tasks[i].state = "live"
    /\ s = "dud" => Mishap
    /\ tasks' = [tasks EXCEPT ![i].state = s]
    /\ UNCHANGED <<ledger, step, over, net, rows, judged, faults, lost>>

\* The collector merges the row a task has streamed or returned: once, by its identity
\* (project_name and saved_at), which no other task shares ...
Merge(i) ==
    /\ tasks[i].state \in {"live", "done"}
    /\ rows' = rows \cup {i}
    /\ UNCHANGED <<ledger, step, over, tasks, net, judged, faults, lost>>

\* ... and classifies the task once it has read its final output: harvested or nodata.
Judge(i) ==
    /\ \/ tasks[i].state = "dud"
       \/ tasks[i].state = "done" /\ i \in rows
    /\ judged' = judged \cup {i}
    /\ UNCHANGED <<ledger, step, over, tasks, net, rows, faults, lost>>

FeederStep ==
    \/ Count \/ ReadDataset \/ ReadInventory \/ Choose \/ Lookup \/ CheckRoom
    \/ Post \/ PostLost \/ Reconcile \/ Save

Collected(i) == Merge(i) \/ Judge(i)

FeederNext ==
    \/ \E g \in Generations : Enter(g)
    \/ FeederStep \/ Abort \/ Lose
    \/ \E r \in net : Land(r)
    \/ \E i \in Ids : Collected(i) \/ \E s \in {"done", "dud"} : End(i, s)

FeederSpec == FeederInit /\ [][FeederNext]_feederVars

----------------------------------------------------------------------------
(* Properties                                                              *)

\* The dataset never gets more rows than it was to have, however many tasks are
\* under way, ended but not collected, or collected but not yet counted, and even
\* without the ledger: only a fault can cost a row more.
CeilingKept == Cardinality(rows \cup (Ids \ judged)) <= MaxSamples + faults

\* Through switches of generation, retries and a lost ledger, no candidate is
\* recorded twice.
ConsumedOnce ==
    \A i, j \in ledger.outstanding :
        Sample(tasks[i].item) = Sample(tasks[j].item) => i = j

\* As long as the ledger is not lost, a candidate is simulated twice only if, after a
\* submission that was not recorded, another generation took its serial.
ReplayExplained ==
    ~ lost => \A i, j \in Ids :
        /\ i # j /\ Sample(tasks[i].item) = Sample(tasks[j].item)
        /\ tasks[i].item.serial <= tasks[j].item.serial
        => \E k \in Ids : /\ tasks[k].item.serial = tasks[i].item.serial
                          /\ tasks[k].item.gen # tasks[i].item.gen

\* Fairness: a cycle that has the lock goes on, the loop takes it again, tasks end
\* and are collected.
FeederFairness ==
    /\ WF_feederVars(FeederStep) /\ WF_feederVars(Enter(Looping))
    /\ WF_feederVars(\E i \in Ids : End(i, "done"))
    /\ WF_feederVars(\E i \in Ids : Collected(i))

FairFeederSpec == FeederSpec /\ FeederFairness

\* Whatever went wrong before, the campaign gets its rows.
CampaignFills == <>(Cardinality(rows) >= MaxSamples)
=============================================================================
