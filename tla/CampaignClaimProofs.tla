------------------------ MODULE CampaignClaimProofs ------------------------
(***************************************************************************)
(* Proofs about CampaignClaim, for any number of attempts and plans and    *)
(* any set of attempts that may crash.                                     *)
(*                                                                         *)
(* The argument: what an attempt may do at a step is bounded by what is    *)
(* already durable.  Only the maker of the pending file gets past its      *)
(* creation to the POST, so every task is the owner's; so all evidence     *)
(* ever read back names the owner's task, which stays listed; so the       *)
(* finalized record, whoever seals it, names that task too.                *)
(***************************************************************************)
EXTENDS CampaignClaim, TLAPS

\* What the pending file is at each step of an attempt.
PendingAtStep ==
    \A a \in Attempts :
        /\ attempt[a].step = "create" => pending.dir
        /\ attempt[a].step = "write" => pending.file = "partial" /\ pending.by = a
        /\ attempt[a].step \in {"guard", "post", "answer", "reconcile"} =>
               pending.file = "full" /\ pending.by = a
        /\ attempt[a].step \in {"recover", "confirm", "finalize", "seal", "receipt"} =>
               PendingValid(a)

\* Evidence an attempt holds is of the owner's task.
SeenIsOwners ==
    \A a \in Attempts :
        /\ attempt[a].seen \in Evidence =>
               attempt[a].seen.id = pending.by /\ task[pending.by] \in Listed
        /\ attempt[a].step \in {"finalize", "seal"} => attempt[a].seen \in Evidence

\* So is the evidence in the finalized file.
FinalizedIsOwners ==
    finalized.file # "none" =>
        /\ pending.file = "full"
        /\ finalized.seen.id = pending.by /\ task[pending.by] \in Listed

\* What the finalized file is at each step of an attempt; one attempt writes it.
FinalizedAtStep ==
    /\ \A a \in Attempts :
        /\ attempt[a].step = "seal" =>
               finalized = [file |-> "partial", seen |-> attempt[a].seen]
        /\ attempt[a].step = "confirm" => finalized.file = "full"
        /\ attempt[a].step = "receipt" =>
               finalized = [file |-> "full", seen |-> attempt[a].seen]
    /\ \A a, b \in Attempts :
        attempt[a].step = "seal" /\ attempt[b].step = "seal" => a = b

Inv == /\ ClaimTypeOK /\ PendingAtStep /\ OnePost
       /\ SeenIsOwners /\ FinalizedIsOwners /\ FinalizedAtStep

\* Initially there is no file, no task and no evidence.
LEMMA InitInv == Init => Inv
<1> USE PlanAssumption
<1> SUFFICES ASSUME Init PROVE Inv
    OBVIOUS
<1>1. ClaimTypeOK
    BY DEF Init, ClaimTypeOK, FileStates, MaybeEvidence, NoEvidence, Attempt, Steps,
           TaskStates, Listed
<1>2. PendingAtStep /\ OnePost /\ FinalizedIsOwners /\ FinalizedAtStep
    BY DEF Init, PendingAtStep, OnePost, FinalizedIsOwners, FinalizedAtStep
<1>3. SeenIsOwners
    BY DEF Init, SeenIsOwners, Evidence, NoEvidence
<1> QED
    BY <1>1, <1>2, <1>3 DEF Inv

\* One step of an attempt moves nobody else.
LEMMA Moves ==
    ASSUME ClaimTypeOK, NEW a \in Attempts, NEW step \in Steps, Goes(a, step)
    PROVE  /\ attempt' \in [Attempts -> Attempt]
           /\ attempt'[a].step = step
           /\ \A b \in Attempts : attempt'[b].seen = attempt[b].seen
           /\ \A b \in Attempts \ {a} : attempt'[b] = attempt[b]
    BY DEF ClaimTypeOK, Goes, Attempt

LEMMA SeesMoves ==
    ASSUME ClaimTypeOK, NEW a \in Attempts, NEW step \in Steps, NEW e \in MaybeEvidence,
           Sees(a, e, step)
    PROVE  /\ attempt' \in [Attempts -> Attempt]
           /\ attempt'[a].step = step /\ attempt'[a].seen = e
           /\ \A b \in Attempts \ {a} : attempt'[b] = attempt[b]
    BY DEF ClaimTypeOK, Sees, Attempt

\* A readback shows nothing, or the one task, which is the claim owner's.
LEMMA ReadbackIsOwners ==
    ASSUME OnePost, NEW e \in Readbacks
    PROVE  /\ e \in MaybeEvidence
           /\ e \in Evidence => e.id = pending.by /\ task[pending.by] \in Listed
<1>1. NoEvidence \notin Evidence
    BY PlanAssumption DEF NoEvidence, Evidence
<1>2. ASSUME e \in Evidence PROVE e.id \in Siblings /\ e.id \in Attempts
    BY <1>1, <1>2 DEF Readbacks, Evidence
<1>3. ASSUME NEW b \in Siblings PROVE b = pending.by /\ task[b] \in Listed
    BY <1>3 DEF Siblings, OnePost, Listed
<1> QED
    BY <1>2, <1>3 DEF Readbacks, MaybeEvidence

----------------------------------------------------------------------------
(* Steps that change nothing but the attempt: the files and tasks stay, so *)
(* only the attempt's own step has to be looked at.                        *)

LEMMA GoesKeeps ==
    ASSUME Inv, NEW a \in Attempts, NEW step \in Steps, Goes(a, step),
           UNCHANGED <<pending, finalized, task>>,
           step = "create" => pending.dir,
           step = "write" => pending.file = "partial" /\ pending.by = a,
           step \in {"guard", "post", "answer", "reconcile"} =>
               pending.file = "full" /\ pending.by = a,
           step \in {"recover", "confirm", "finalize", "receipt"} => PendingValid(a),
           step = "finalize" => attempt[a].seen \in Evidence,
           step = "confirm" => finalized.file = "full",
           step = "receipt" => finalized = [file |-> "full", seen |-> attempt[a].seen],
           step # "seal"
    PROVE  Inv'
<1>1. /\ attempt' \in [Attempts -> Attempt]
      /\ attempt'[a].step = step
      /\ \A b \in Attempts : attempt'[b].seen = attempt[b].seen
      /\ \A b \in Attempts \ {a} : attempt'[b] = attempt[b]
    BY Moves DEF Inv
<1>2. ClaimTypeOK'
    BY <1>1 DEF Inv, ClaimTypeOK
<1>3. PendingAtStep'
    BY <1>1 DEF Inv, PendingAtStep, PendingValid
<1>4. OnePost' /\ FinalizedIsOwners'
    BY DEF Inv, OnePost, FinalizedIsOwners
<1>5. SeenIsOwners'
    BY <1>1 DEF Inv, SeenIsOwners
<1>6. FinalizedAtStep'
    BY <1>1 DEF Inv, FinalizedAtStep
<1> QED
    BY <1>2, <1>3, <1>4, <1>5, <1>6 DEF Inv

LEMMA SeesKeeps ==
    ASSUME Inv, NEW a \in Attempts, NEW step \in {"acquire", "finalize", "receipt"},
           NEW e \in MaybeEvidence, Sees(a, e, step),
           UNCHANGED <<pending, finalized, task>>,
           e \in Evidence => e.id = pending.by /\ task[pending.by] \in Listed,
           step \in {"finalize", "receipt"} => PendingValid(a),
           step = "finalize" => e \in Evidence,
           step = "receipt" => finalized = [file |-> "full", seen |-> e]
    PROVE  Inv'
<1>1. /\ attempt' \in [Attempts -> Attempt]
      /\ attempt'[a].step = step /\ attempt'[a].seen = e
      /\ \A b \in Attempts \ {a} : attempt'[b] = attempt[b]
    BY SeesMoves DEF Inv, Steps
<1>2. ClaimTypeOK'
    BY <1>1 DEF Inv, ClaimTypeOK
<1>3. PendingAtStep'
    BY <1>1 DEF Inv, PendingAtStep, PendingValid
<1>4. OnePost' /\ FinalizedIsOwners'
    BY DEF Inv, OnePost, FinalizedIsOwners
<1>5. SeenIsOwners'
    BY <1>1 DEF Inv, SeenIsOwners
<1>6. FinalizedAtStep'
    BY <1>1 DEF Inv, FinalizedAtStep
<1> QED
    BY <1>2, <1>3, <1>4, <1>5, <1>6 DEF Inv

LEMMA ReadBeforeInv == ASSUME Inv, NEW a \in Attempts, ReadBefore(a) PROVE Inv'
<1>1. PICK e \in Readbacks : Sees(a, e, "acquire")
    BY DEF ReadBefore
<1> QED
    BY <1>1, SeesKeeps, ReadbackIsOwners DEF ReadBefore, Inv

LEMMA ReconcileInv == ASSUME Inv, NEW a \in Attempts, Reconcile(a) PROVE Inv'
<1>1. PICK e \in Readbacks \cap Evidence : Sees(a, e, "finalize")
    BY DEF Reconcile
<1>2. PendingValid(a)
    BY DEF Inv, PendingAtStep, PendingValid, Reconcile
<1> QED
    BY <1>1, <1>2, SeesKeeps, ReadbackIsOwners DEF Reconcile, Inv

LEMMA ConfirmInv == ASSUME Inv, NEW a \in Attempts, Confirm(a) PROVE Inv'
<1>1. /\ finalized.file = "full" /\ PendingValid(a)
      /\ finalized.seen \in Evidence
      /\ finalized.seen.id = pending.by /\ task[pending.by] \in Listed
      /\ finalized = [file |-> "full", seen |-> finalized.seen]
    BY DEF Inv, Confirm, FinalizedAtStep, PendingAtStep, ClaimTypeOK, FinalizedIsOwners
<1>2. CASE Sees(a, finalized.seen, "receipt")
    BY <1>1, <1>2, SeesKeeps DEF Confirm, MaybeEvidence
<1>3. CASE Stops(a)
    BY <1>3, GoesKeeps DEF Confirm, Stops, Steps
<1> QED
    BY <1>2, <1>3 DEF Confirm

LEMMA InspectInv == ASSUME Inv, NEW a \in Attempts, Inspect(a) PROVE Inv'
<1>1. CASE Goes(a, "confirm") /\ FinalizedValid(a)
    BY <1>1, GoesKeeps DEF Inspect, FinalizedValid, Steps
<1>2. CASE Goes(a, "recover") /\ PendingValid(a)
    BY <1>2, GoesKeeps DEF Inspect, Steps
<1>3. CASE Stops(a)
    BY <1>3, GoesKeeps DEF Inspect, Stops, Steps
<1> QED
    BY <1>1, <1>2, <1>3 DEF Inspect

LEMMA GuardInv == ASSUME Inv, NEW a \in Attempts, Guard(a) PROVE Inv'
<1>1. pending.file = "full" /\ pending.by = a
    BY DEF Inv, PendingAtStep, Guard
<1> QED
    BY <1>1, GoesKeeps DEF Guard, Stops, Steps

LEMMA AnswerInv == ASSUME Inv, NEW a \in Attempts, Answer(a) PROVE Inv'
<1>1. pending.file = "full" /\ pending.by = a
    BY DEF Inv, PendingAtStep, Answer
<1> QED
    BY <1>1, GoesKeeps DEF Answer, Steps

LEMMA RecoverInv == ASSUME Inv, NEW a \in Attempts, Recover(a) PROVE Inv'
<1>1. PendingValid(a)
    BY DEF Inv, PendingAtStep, Recover
<1> QED
    BY <1>1, GoesKeeps DEF Recover, Stops, Steps

LEMMA DiesInv == ASSUME Inv, NEW a \in Attempts, Dies(a) PROVE Inv'
    BY GoesKeeps DEF Dies, Stops, Steps

----------------------------------------------------------------------------
(* Steps that change a file or a task                                      *)

LEMMA MkdirInv == ASSUME Inv, NEW a \in Attempts, Mkdir(a) PROVE Inv'
<1>1. /\ attempt' \in [Attempts -> Attempt]
      /\ attempt'[a].step = "create"
      /\ \A b \in Attempts : attempt'[b].seen = attempt[b].seen
      /\ \A b \in Attempts \ {a} : attempt'[b] = attempt[b]
    BY Moves DEF Inv, Mkdir, Steps
<1>2. /\ pending' \in [dir : BOOLEAN, file : FileStates, by : Attempts \cup {Nobody}]
      /\ pending'.dir /\ pending'.file = pending.file /\ pending'.by = pending.by
    BY DEF Mkdir, Inv, ClaimTypeOK
<1>3. ClaimTypeOK'
    BY <1>1, <1>2 DEF Inv, ClaimTypeOK, Mkdir
<1>4. PendingAtStep'
    BY <1>1, <1>2 DEF Inv, PendingAtStep, PendingValid
<1>5. OnePost' /\ FinalizedIsOwners'
    BY <1>2 DEF Inv, OnePost, FinalizedIsOwners, Mkdir
<1>6. SeenIsOwners' /\ FinalizedAtStep'
    BY <1>1, <1>2 DEF Inv, SeenIsOwners, FinalizedAtStep, Mkdir
<1> QED
    BY <1>3, <1>4, <1>5, <1>6 DEF Inv

LEMMA CreatePendingInv == ASSUME Inv, NEW a \in Attempts, CreatePending(a) PROVE Inv'
<1>1. /\ attempt' \in [Attempts -> Attempt]
      /\ attempt'[a].step = "write"
      /\ \A b \in Attempts : attempt'[b].seen = attempt[b].seen
      /\ \A b \in Attempts \ {a} : attempt'[b] = attempt[b]
    BY Moves DEF Inv, CreatePending, Steps
<1>2. /\ pending' \in [dir : BOOLEAN, file : FileStates, by : Attempts \cup {Nobody}]
      /\ pending'.dir /\ pending'.file = "partial" /\ pending'.by = a
    BY DEF CreatePending, Inv, ClaimTypeOK, PendingAtStep, FileStates
<1>3. ASSUME NEW b \in Attempts PROVE task[b] = "none"
    BY DEF Inv, OnePost, CreatePending
<1>4. ASSUME NEW b \in Attempts
      PROVE attempt[b].seen \notin Evidence /\ attempt[b].seen = NoEvidence
    <2>1. attempt[b].seen \in Evidence => pending.by \in Attempts
        BY DEF Inv, SeenIsOwners, Evidence
    <2> QED
        BY <1>3, <2>1 DEF Inv, SeenIsOwners, Listed, ClaimTypeOK, Attempt, MaybeEvidence
<1>5. finalized.file = "none"
    BY DEF Inv, FinalizedIsOwners, CreatePending
<1>6. ClaimTypeOK'
    BY <1>1, <1>2 DEF Inv, ClaimTypeOK, CreatePending
<1>7. PendingAtStep'
    BY <1>1, <1>2 DEF Inv, PendingAtStep, PendingValid, CreatePending
<1>8. OnePost' /\ FinalizedIsOwners' /\ SeenIsOwners'
    BY <1>1, <1>3, <1>4, <1>5 DEF Inv, OnePost, FinalizedIsOwners, SeenIsOwners, CreatePending
<1>9. FinalizedAtStep'
    BY <1>1, <1>5 DEF Inv, FinalizedAtStep, CreatePending
<1> QED
    BY <1>6, <1>7, <1>8, <1>9 DEF Inv

LEMMA WritePendingInv == ASSUME Inv, NEW a \in Attempts, WritePending(a) PROVE Inv'
<1>1. /\ attempt' \in [Attempts -> Attempt]
      /\ attempt'[a].step = "guard"
      /\ \A b \in Attempts : attempt'[b].seen = attempt[b].seen
      /\ \A b \in Attempts \ {a} : attempt'[b] = attempt[b]
    BY Moves DEF Inv, WritePending, Steps
<1>2. pending.file = "partial" /\ pending.by = a
    BY DEF Inv, PendingAtStep, WritePending
<1>3. /\ pending' \in [dir : BOOLEAN, file : FileStates, by : Attempts \cup {Nobody}]
      /\ pending'.dir = pending.dir /\ pending'.file = "full" /\ pending'.by = pending.by
    BY DEF WritePending, Inv, ClaimTypeOK, FileStates
<1>4. ClaimTypeOK'
    BY <1>1, <1>2, <1>3 DEF Inv, ClaimTypeOK, WritePending
<1>5. PendingAtStep'
    BY <1>1, <1>2, <1>3 DEF Inv, PendingAtStep, PendingValid
<1>6. OnePost' /\ FinalizedIsOwners'
    BY <1>2, <1>3 DEF Inv, OnePost, FinalizedIsOwners, WritePending
<1>7. SeenIsOwners' /\ FinalizedAtStep'
    BY <1>1, <1>3 DEF Inv, SeenIsOwners, FinalizedAtStep, WritePending
<1> QED
    BY <1>4, <1>5, <1>6, <1>7 DEF Inv

LEMMA PostInv == ASSUME Inv, NEW a \in Attempts, Post(a) PROVE Inv'
<1>1. pending.file = "full" /\ pending.by = a
    BY DEF Inv, PendingAtStep, Post
<1>2. CASE Siblings # {}
    BY <1>1, <1>2, GoesKeeps DEF Post, Steps
<1>3. CASE Siblings = {}
    <2>1. /\ attempt' \in [Attempts -> Attempt]
          /\ attempt'[a].step = "answer"
          /\ \A b \in Attempts : attempt'[b].seen = attempt[b].seen
          /\ \A b \in Attempts \ {a} : attempt'[b] = attempt[b]
        BY <1>3, Moves DEF Inv, Post, Steps
    <2>2. task' = [task EXCEPT ![a] = "inflight"] /\ task' \in [Attempts -> TaskStates]
        BY <1>3 DEF Post, Inv, ClaimTypeOK, TaskStates
    <2>3. ASSUME NEW b \in Attempts PROVE task[b] \notin Listed
        BY <1>3 DEF Siblings
    <2>4. finalized.file = "none"
        BY <1>1, <2>3 DEF Inv, FinalizedIsOwners
    <2>5. ASSUME NEW b \in Attempts PROVE attempt[b].seen \notin Evidence
        BY <1>1, <2>3 DEF Inv, SeenIsOwners
    <2>6. ClaimTypeOK'
        BY <2>1, <2>2 DEF Inv, ClaimTypeOK, Post
    <2>7. PendingAtStep'
        BY <1>1, <2>1 DEF Inv, PendingAtStep, PendingValid, Post
    <2>8. OnePost' /\ FinalizedIsOwners'
        BY <1>1, <2>2, <2>4 DEF Inv, OnePost, FinalizedIsOwners, Post, ClaimTypeOK
    <2>9. SeenIsOwners' /\ FinalizedAtStep'
        BY <2>1, <2>5, <2>4 DEF Inv, SeenIsOwners, FinalizedAtStep, Post
    <2> QED
        BY <2>6, <2>7, <2>8, <2>9 DEF Inv
<1> QED
    BY <1>2, <1>3

LEMMA FinalizeInv == ASSUME Inv, NEW a \in Attempts, Finalize(a) PROVE Inv'
<1>1. /\ PendingValid(a) /\ attempt[a].seen \in Evidence
      /\ attempt[a].seen.id = pending.by /\ task[pending.by] \in Listed
    BY DEF Inv, PendingAtStep, SeenIsOwners, Finalize
<1>2. CASE finalized.file # "none"
    <2>1. CASE Goes(a, "receipt") /\ finalized.file = "full" /\ finalized.seen = attempt[a].seen
        <3>1. finalized = [file |-> "full", seen |-> attempt[a].seen]
            BY <2>1 DEF Inv, ClaimTypeOK
        <3> QED
            BY <1>1, <1>2, <2>1, <3>1, GoesKeeps DEF Finalize, Steps
    <2>2. CASE Stops(a)
        BY <1>2, <2>2, GoesKeeps DEF Finalize, Stops, Steps
    <2> QED
        BY <1>2, <2>1, <2>2 DEF Finalize
<1>3. CASE finalized.file = "none"
    <2>1. /\ attempt' \in [Attempts -> Attempt]
          /\ attempt'[a].step = "seal"
          /\ \A b \in Attempts : attempt'[b].seen = attempt[b].seen
          /\ \A b \in Attempts \ {a} : attempt'[b] = attempt[b]
        BY <1>3, Moves DEF Inv, Finalize, Steps
    <2>2. finalized' = [file |-> "partial", seen |-> attempt[a].seen]
        BY <1>3 DEF Finalize
    <2>3. \A b \in Attempts : attempt[b].step \notin {"seal", "confirm", "receipt"}
        BY <1>3 DEF Inv, FinalizedAtStep
    <2>4. ClaimTypeOK'
        BY <1>1, <2>1, <2>2 DEF Inv, ClaimTypeOK, Finalize, FileStates, MaybeEvidence
    <2>5. PendingAtStep'
        BY <1>1, <2>1 DEF Inv, PendingAtStep, PendingValid, Finalize
    <2>6. OnePost' /\ FinalizedIsOwners'
        BY <1>1, <2>2 DEF Inv, OnePost, FinalizedIsOwners, Finalize, PendingValid
    <2>7. SeenIsOwners'
        BY <1>1, <2>1 DEF Inv, SeenIsOwners, Finalize
    <2>8. FinalizedAtStep'
        BY <2>1, <2>2, <2>3 DEF FinalizedAtStep
    <2> QED
        BY <2>4, <2>5, <2>6, <2>7, <2>8 DEF Inv
<1> QED
    BY <1>2, <1>3

LEMMA SealInv == ASSUME Inv, NEW a \in Attempts, Seal(a) PROVE Inv'
<1>1. /\ PendingValid(a)
      /\ finalized = [file |-> "partial", seen |-> attempt[a].seen]
      /\ \A b \in Attempts \ {a} : attempt[b].step \notin {"seal", "confirm", "receipt"}
    BY DEF Inv, PendingAtStep, FinalizedAtStep, Seal
<1>2. /\ attempt' \in [Attempts -> Attempt]
      /\ attempt'[a].step = "receipt"
      /\ \A b \in Attempts : attempt'[b].seen = attempt[b].seen
      /\ \A b \in Attempts \ {a} : attempt'[b] = attempt[b]
    BY Moves DEF Inv, Seal, Steps
<1>3. finalized' = [file |-> "full", seen |-> attempt[a].seen]
    BY <1>1 DEF Seal
<1>4. ClaimTypeOK'
    BY <1>1, <1>2, <1>3 DEF Inv, ClaimTypeOK, Seal, FileStates
<1>5. PendingAtStep'
    BY <1>1, <1>2 DEF Inv, PendingAtStep, PendingValid, Seal
<1>6. OnePost' /\ FinalizedIsOwners'
    BY <1>1, <1>3 DEF Inv, OnePost, FinalizedIsOwners, Seal
<1>7. SeenIsOwners'
    BY <1>2 DEF Inv, SeenIsOwners, Seal
<1>8. FinalizedAtStep'
    BY <1>1, <1>2, <1>3 DEF FinalizedAtStep
<1> QED
    BY <1>4, <1>5, <1>6, <1>7, <1>8 DEF Inv

\* The scheduler's steps change one task, and never take a listed one away.
LEMMA SchedulerInv ==
    ASSUME Inv, NEW a \in Attempts, NEW s \in TaskStates \ {"none"},
           task[a] # "none", task[a] \in Listed => s \in Listed,
           task' = [task EXCEPT ![a] = s], UNCHANGED <<pending, finalized, attempt>>
    PROVE  Inv'
<1>1. ClaimTypeOK' /\ PendingAtStep' /\ FinalizedAtStep'
    BY DEF Inv, ClaimTypeOK, PendingAtStep, PendingValid, FinalizedAtStep
<1>2. OnePost'
    BY DEF Inv, OnePost, ClaimTypeOK
<1>3. ASSUME task[pending.by] \in Listed, pending.by \in Attempts
      PROVE task'[pending.by] \in Listed
    BY <1>3 DEF Inv, ClaimTypeOK
<1>4. SeenIsOwners'
    BY <1>3 DEF Inv, SeenIsOwners, Evidence
<1>5. FinalizedIsOwners'
    BY <1>3 DEF Inv, FinalizedIsOwners, ClaimTypeOK
<1> QED
    BY <1>1, <1>2, <1>4, <1>5 DEF Inv

----------------------------------------------------------------------------

LEMMA StepInv == Inv /\ [Next]_vars => Inv'
<1> SUFFICES ASSUME Inv, [Next]_vars PROVE Inv'
    OBVIOUS
<1>1. ASSUME NEW a \in Attempts, AttemptStep(a) PROVE Inv'
    BY <1>1, ReadBeforeInv, MkdirInv, CreatePendingInv, WritePendingInv, InspectInv,
       GuardInv, PostInv, AnswerInv, ReconcileInv, RecoverInv, ConfirmInv, FinalizeInv,
       SealInv
       DEF AttemptStep
<1>2. ASSUME NEW a \in Attempts, Land(a) PROVE Inv'
    BY <1>2, SchedulerInv DEF Land, TaskStates, Listed
<1>3. ASSUME NEW a \in Attempts, Run(a) PROVE Inv'
    BY <1>3, SchedulerInv DEF Run, TaskStates, Listed
<1>4. CASE UNCHANGED vars
    BY <1>4 DEF vars, Inv, ClaimTypeOK, PendingAtStep, PendingValid, OnePost, SeenIsOwners,
           FinalizedIsOwners, FinalizedAtStep
<1> QED
    BY <1>1, <1>2, <1>3, <1>4, DiesInv DEF Next

LEMMA Invariance == Spec => []Inv
    BY InitInv, StepInv, PTL DEF Spec

\* Files, tasks and attempts are well formed; a file that exists has an author,
\* and a finalized one evidence.
THEOREM TypeCorrect == Spec => []ClaimTypeOK
<1>1. Inv => ClaimTypeOK
    BY DEF Inv
<1> QED
    BY <1>1, Invariance, PTL

\* One slot never gets a second POST: only the attempt that made the durable claim
\* submits, whatever crashes, overlaps and delays there are.
THEOREM ExactlyOnce == Spec => []OnePost
<1>1. Inv => OnePost
    BY DEF Inv
<1> QED
    BY <1>1, Invariance, PTL

\* All receipts of a slot carry the same durable evidence of the owner's task.
THEOREM Receipts == Spec => []ReceiptsAgree
<1>1. Inv => ReceiptsAgree
    <2> SUFFICES ASSUME Inv, NEW a \in Attempts, attempt[a].step = "receipt"
                 PROVE /\ finalized = [file |-> "full", seen |-> attempt[a].seen]
                       /\ finalized.seen.id = pending.by /\ task[pending.by] \in Listed
                       /\ PlanOf[pending.by] = PlanOf[a]
        BY DEF ReceiptsAgree
    <2>1. finalized = [file |-> "full", seen |-> attempt[a].seen]
        BY DEF Inv, FinalizedAtStep
    <2>2. finalized.file # "none"
        BY <2>1
    <2> QED
        BY <2>1, <2>2 DEF Inv, FinalizedIsOwners, PendingAtStep, PendingValid
<1> QED
    BY <1>1, Invariance, PTL

-----------------------------------------------------------------------------
(* Refinement of RetrySlot                                                 *)

\* A run has no task before its POST.
NotYet == \A a \in Attempts :
              attempt[a].step \in {"new", "acquire", "create", "write", "guard", "post"}
                  => task[a] = "none"

\* All evidence, in memory or in a file, is true of the task it names.
SeenIsTrue == /\ \A a \in Attempts :
                    attempt[a].seen \in Evidence => Slot!True(attempt[a].seen)
              /\ finalized.file # "none" => Slot!True(finalized.seen)

SlotInv == Inv /\ NotYet /\ SeenIsTrue

LEMMA SlotInvInit == Init => SlotInv
<1> SUFFICES ASSUME Init PROVE SlotInv
    OBVIOUS
<1>1. NoEvidence \notin Evidence
    BY PlanAssumption DEF NoEvidence, Evidence
<1> QED
    BY <1>1, InitInv DEF Init, SlotInv, NotYet, SeenIsTrue

\* What one step does to the tasks: a run asks for its own, or one goes on.
LEMMA TaskMoves ==
    ASSUME Inv, [Next]_vars
    PROVE  \/ task' = task
           \/ \E a \in Attempts : /\ attempt[a].step = "post" /\ Siblings = {}
                                 /\ task' = [task EXCEPT ![a] = "inflight"]
                                 /\ Goes(a, "answer") /\ UNCHANGED <<pending, finalized>>
           \/ \E a \in Attempts : (Land(a) \/ Run(a)) /\ Slot!Proceed(a)
<1>1. ASSUME NEW a \in Attempts, Land(a) \/ Run(a) PROVE Slot!Proceed(a)
    BY <1>1 DEF Land, Run, Slot!Proceed
<1>2. ASSUME NEW a \in Attempts, Post(a)
      PROVE  \/ task' = task
             \/ /\ attempt[a].step = "post" /\ Siblings = {}
                /\ task' = [task EXCEPT ![a] = "inflight"]
                /\ Goes(a, "answer") /\ UNCHANGED <<pending, finalized>>
    BY <1>2 DEF Post
<1>3. ASSUME NEW a \in Attempts, AttemptStep(a) \/ Dies(a), ~ Post(a) PROVE task' = task
    BY <1>3 DEF AttemptStep, Dies, ReadBefore, Mkdir, CreatePending, WritePending, Inspect, Guard,
           Answer, Reconcile, Recover, Confirm, Finalize, Seal
<1>4. CASE UNCHANGED vars
    BY <1>4 DEF vars
<1> QED
    BY <1>1, <1>2, <1>3, <1>4, Zenon DEF Next

\* What is true of a task stays true.
LEMMA TrueStays ==
    ASSUME Inv, [Next]_vars, NEW e, Slot!True(e)
    PROVE  Slot!True(e)'
<1>1. PICK r \in Attempts : \/ e = Slot!Queued(r) /\ task[r] \in {"queued", "running"}
                            \/ e = Slot!Running(r) /\ task[r] = "running"
    BY DEF Slot!True
<1>2. task[r] \in Listed
    BY <1>1 DEF Listed
<1>3. /\ task'[r] \in {"queued", "running"} /\ (task[r] = "running" => task'[r] = "running")
    <2>1. CASE task' = task
        BY <1>1, <2>1
    <2>2. ASSUME NEW a \in Attempts, Siblings = {} PROVE FALSE
        BY <1>2, <2>2 DEF Siblings
    <2>3. ASSUME NEW a \in Attempts, Slot!Proceed(a)
          PROVE  /\ task'[r] \in {"queued", "running"}
                 /\ task[r] = "running" => task'[r] = "running"
        BY <1>1, <2>3 DEF Slot!Proceed, Inv, ClaimTypeOK
    <2> QED
        BY <2>1, <2>2, <2>3, TaskMoves
<1> QED
    BY <1>1, <1>3 DEF Slot!True, Slot!Queued, Slot!Running

LEMMA ReadbackTrue ==
    ASSUME NEW e \in Readbacks, e \in Evidence
    PROVE  Slot!True(e)
<1>1. NoEvidence \notin Evidence
    BY PlanAssumption DEF NoEvidence, Evidence
<1>2. Siblings = {e.id} /\ e.status = task[e.id] /\ e.id \in Attempts /\ e.status \in Listed
      /\ e = [id |-> e.id, status |-> e.status]
    BY <1>1 DEF Readbacks, Evidence
<1> QED
    BY <1>2 DEF Slot!True, Slot!Queued, Slot!Running, Listed

\* Evidence is read, copied, or kept.
LEMMA SeenMoves ==
    ASSUME Inv, [Next]_vars
    PROVE  /\ \A a \in Attempts : \/ attempt'[a].seen = attempt[a].seen
                                \/ attempt'[a].seen \in Readbacks
                                \/ /\ attempt'[a].seen = finalized.seen
                                   /\ finalized.file # "none"
           /\ \/ /\ finalized'.seen = finalized.seen
                 /\ finalized'.file # "none" => finalized.file # "none"
              \/ \E a \in Attempts : /\ finalized'.seen = attempt[a].seen
                                    /\ attempt[a].seen \in Evidence
<1> DEFINE Seen == \A a \in Attempts : \/ attempt'[a].seen = attempt[a].seen
                                       \/ attempt'[a].seen \in Readbacks
                                       \/ /\ attempt'[a].seen = finalized.seen
                                          /\ finalized.file # "none"
<1>1. ASSUME NEW a \in Attempts, NEW step \in Steps, Goes(a, step) PROVE Seen
    BY <1>1, Moves DEF Inv
<1>2. ASSUME NEW a \in Attempts, NEW step \in Steps, NEW e \in MaybeEvidence, Sees(a, e, step),
             e \in Readbacks \/ (e = finalized.seen /\ finalized.file # "none")
      PROVE  Seen
    BY <1>2, SeesMoves DEF Inv
<1>3. ASSUME attempt' = attempt PROVE Seen
    BY <1>3
<1>4. \A e \in Readbacks : e \in MaybeEvidence
    BY ReadbackIsOwners DEF Inv
<1>5. finalized.seen \in MaybeEvidence
    BY DEF Inv, ClaimTypeOK
<1> HIDE DEF Seen
<1>6. ASSUME UNCHANGED vars PROVE Seen
    BY <1>3, <1>6 DEF vars
<1>7. ASSUME NEW a \in Attempts, Land(a) \/ Run(a) PROVE UNCHANGED <<finalized, attempt>>
    BY <1>7 DEF Land, Run
<1>8. ASSUME NEW a \in Attempts, ReadBefore(a) \/ Reconcile(a) \/ Confirm(a)
      PROVE  Seen /\ finalized' = finalized
    <2>1. CASE ReadBefore(a)
        BY <1>2, <1>4, <2>1 DEF ReadBefore, Steps
    <2>2. CASE Reconcile(a)
        BY <1>2, <1>4, <2>2 DEF Reconcile, Steps
    <2>3. CASE Confirm(a)
        <3>1. finalized.file = "full"
            BY <2>3 DEF Inv, FinalizedAtStep, Confirm
        <3> QED
            BY <1>1, <1>2, <1>5, <2>3, <3>1 DEF Confirm, Stops, Steps
    <2> QED
        BY <1>8, <2>1, <2>2, <2>3
<1>9. ASSUME NEW a \in Attempts,
             \/ Mkdir(a) \/ CreatePending(a) \/ WritePending(a) \/ Inspect(a) \/ Guard(a)
             \/ Post(a) \/ Answer(a) \/ Recover(a) \/ Dies(a)
      PROVE  Seen /\ finalized' = finalized
    <2>1. finalized' = finalized
        BY <1>9 DEF Mkdir, CreatePending, WritePending, Inspect, Guard, Post, Answer, Recover, Dies
    <2>2. \E step \in Steps : Goes(a, step)
        BY <1>9 DEF Mkdir, CreatePending, WritePending, Inspect, Guard, Post, Answer, Recover, Dies,
               Stops, Steps
    <2> QED
        BY <1>1, <2>1, <2>2
<1>10. ASSUME NEW a \in Attempts, Seal(a)
       PROVE  Seen /\ finalized'.seen = finalized.seen /\ finalized.file # "none"
    <2>1. finalized = [file |-> "partial", seen |-> attempt[a].seen]
        BY <1>10 DEF Inv, FinalizedAtStep, Seal
    <2>2. finalized' = [finalized EXCEPT !.file = "full"] /\ Goes(a, "receipt")
        BY <1>10 DEF Seal
    <2> QED
        BY <1>1, <2>1, <2>2 DEF Steps
<1>11. ASSUME NEW a \in Attempts, Finalize(a)
       PROVE  /\ Seen
              /\ \/ finalized' = finalized
                 \/ finalized'.seen = attempt[a].seen /\ attempt[a].seen \in Evidence
    <2>1. attempt[a].seen \in Evidence
        BY <1>11 DEF Inv, SeenIsOwners, Finalize
    <2>2. \E step \in Steps : Goes(a, step)
        BY <1>11 DEF Finalize, Stops, Steps
    <2>3. \/ finalized' = finalized
          \/ finalized' = [file |-> "partial", seen |-> attempt[a].seen]
        BY <1>11 DEF Finalize
    <2> QED
        BY <1>1, <2>1, <2>2, <2>3
<1>12. /\ Seen
       /\ \/ /\ finalized'.seen = finalized.seen
             /\ finalized'.file # "none" => finalized.file # "none"
          \/ \E a \in Attempts : /\ finalized'.seen = attempt[a].seen
                                /\ attempt[a].seen \in Evidence
    <2>1. CASE Next
        BY <1>3, <1>7, <1>8, <1>9, <1>10, <1>11, <2>1 DEF Next, AttemptStep
    <2>2. CASE UNCHANGED vars
        <3>1. Seen
            BY <1>6, <2>2
        <3>2. finalized' = finalized
            BY <2>2 DEF vars
        <3> QED
            BY <3>1, <3>2
    <2> QED
        BY <2>1, <2>2
<1> QED
    BY <1>12 DEF Seen

LEMMA SeenIsTrueStep ==
    ASSUME SlotInv, [Next]_vars
    PROVE  SeenIsTrue'
<1>1. Inv /\ Inv' /\ SeenIsTrue
    BY StepInv DEF SlotInv
<1>2. ASSUME NEW a \in Attempts, NEW e \in Evidence, e = attempt'[a].seen
      PROVE  Slot!True(e)'
    <2>1. Slot!True(e)
        BY <1>1, <1>2, SeenMoves, ReadbackTrue DEF SeenIsTrue
    <2> QED
        BY <1>1, <2>1, TrueStays
<1>3. ASSUME finalized'.file # "none", NEW e, e = finalized'.seen PROVE Slot!True(e)'
    <2>1. Slot!True(e)
        BY <1>1, <1>3, SeenMoves DEF SeenIsTrue
    <2> QED
        BY <1>1, <2>1, TrueStays
<1> QED
    BY <1>2, <1>3 DEF SeenIsTrue

LEMMA NotYetStep ==
    ASSUME Inv, NotYet, [Next]_vars
    PROVE  NotYet'
<1> DEFINE Before == {"new", "acquire", "create", "write", "guard", "post"}
<1>1. ASSUME NEW a \in Attempts, attempt'[a].step \in Before PROVE attempt[a].step \in Before
    <2>1. ASSUME NEW b \in Attempts, NEW step \in Steps, Goes(b, step),
                 step \in Before => attempt[b].step \in Before
          PROVE  attempt[a].step \in Before
        BY <1>1, <2>1, Moves DEF Inv
    <2>2. ASSUME NEW b \in Attempts, NEW step \in Steps, NEW e \in MaybeEvidence,
                 Sees(b, e, step), step \in Before => attempt[b].step \in Before
          PROVE  attempt[a].step \in Before
        BY <1>1, <2>2, SeesMoves DEF Inv
    <2>3. CASE attempt' = attempt
        BY <1>1, <2>3
    <2>4. \A e \in Readbacks : e \in MaybeEvidence
        BY ReadbackIsOwners DEF Inv
    <2>5. finalized.seen \in MaybeEvidence
        BY DEF Inv, ClaimTypeOK
    <2>6. CASE UNCHANGED vars
        BY <2>3, <2>6 DEF vars
    <2>7. ASSUME NEW b \in Attempts, ReadBefore(b) \/ Reconcile(b) \/ Confirm(b)
          PROVE  attempt[a].step \in Before
        BY <2>1, <2>2, <2>4, <2>5, <2>7 DEF ReadBefore, Reconcile, Confirm, Stops, Steps
    <2>8. ASSUME NEW b \in Attempts, Land(b) \/ Run(b) PROVE attempt' = attempt
        BY <2>8 DEF Land, Run
    <2>9. ASSUME NEW b \in Attempts,
                 \/ Mkdir(b) \/ CreatePending(b) \/ WritePending(b) \/ Inspect(b) \/ Guard(b)
                 \/ Post(b) \/ Answer(b) \/ Recover(b) \/ Dies(b) \/ Finalize(b) \/ Seal(b)
          PROVE  attempt[a].step \in Before
        <3>1. \E step \in Steps : Goes(b, step) /\ (step \in Before => attempt[b].step \in Before)
            BY <2>9 DEF Mkdir, CreatePending, WritePending, Inspect, Guard, Post, Answer, Recover,
                   Dies, Finalize, Seal, Stops, Steps
        <3> QED
            BY <2>1, <3>1
    <2> HIDE DEF Before
    <2> QED
        BY <2>3, <2>6, <2>7, <2>8, <2>9 DEF Next, AttemptStep
<1>2. ASSUME NEW a \in Attempts, attempt'[a].step \in Before PROVE task'[a] = "none"
    <2>1. task[a] = "none"
        BY <1>1, <1>2 DEF NotYet
    <2>2. CASE task' = task
        BY <2>1, <2>2
    <2>3. ASSUME NEW b \in Attempts, task' = [task EXCEPT ![b] = "inflight"], Goes(b, "answer")
          PROVE  task'[a] = "none"
        <3>1. a # b
            BY <1>2, <2>3, Moves DEF Inv, Steps
        <3> QED
            BY <2>1, <2>3, <3>1 DEF Inv, ClaimTypeOK
    <2>4. ASSUME NEW b \in Attempts, Slot!Proceed(b) PROVE task'[a] = "none"
        BY <2>1, <2>4 DEF Slot!Proceed, Inv, ClaimTypeOK
    <2> QED
        BY <2>2, <2>3, <2>4, TaskMoves
<1> QED
    BY <1>2 DEF NotYet

LEMMA SlotInvStep == SlotInv /\ [Next]_vars => SlotInv'
    BY StepInv, NotYetStep, SeenIsTrueStep DEF SlotInv

RecordOf   == IF finalized.file = "full" THEN finalized.seen ELSE NoEvidence
ReceiptsOf == [a \in Attempts |-> IF attempt[a].step = "receipt" THEN attempt[a].seen
                                 ELSE NoEvidence]
SlotView   == <<task, RecordOf, ReceiptsOf>>

\* A run that moves to a step other than "receipt" leaves the receipts alone.
LEMMA NoReceipt ==
    ASSUME Inv, NEW a \in Attempts, attempt[a].step # "receipt",
           \/ \E step \in Steps \ {"receipt"} : Goes(a, step)
           \/ \E step \in Steps \ {"receipt"}, e \in MaybeEvidence : Sees(a, e, step)
    PROVE  ReceiptsOf' = ReceiptsOf
<1>1. /\ attempt'[a].step # "receipt"
      /\ \A b \in Attempts \ {a} : attempt'[b] = attempt[b]
    BY Moves, SeesMoves DEF Inv
<1> QED
    BY <1>1 DEF ReceiptsOf

\* One that gets to it has a receipt of what it has seen.
LEMMA NewReceipt ==
    ASSUME Inv, NEW a \in Attempts, NEW e \in MaybeEvidence, attempt[a].step # "receipt",
           (Goes(a, "receipt") /\ e = attempt[a].seen) \/ Sees(a, e, "receipt")
    PROVE  ReceiptsOf' = [ReceiptsOf EXCEPT ![a] = e]
<1>1. /\ attempt'[a].step = "receipt" /\ attempt'[a].seen = e
      /\ \A b \in Attempts \ {a} : attempt'[b] = attempt[b]
    BY Moves, SeesMoves DEF Inv, Steps
<1> QED
    BY <1>1 DEF ReceiptsOf

LEMMA AskStep ==
    ASSUME SlotInv, NEW a \in Attempts, attempt[a].step = "post",
           task' = [task EXCEPT ![a] = "inflight"], UNCHANGED <<RecordOf, ReceiptsOf>>
    PROVE  Slot!Ask(a)
<1>1. \A q \in Attempts : task[q] = "none"
    <2>1. pending.by = a /\ task[a] = "none"
        BY DEF SlotInv, Inv, PendingAtStep, NotYet
    <2> QED
        BY <2>1 DEF SlotInv, Inv, OnePost
<1> QED
    BY <1>1 DEF Slot!Ask, RecordOf, ReceiptsOf

\* The file becomes durable, and its maker has the first receipt.
LEMMA RecordStep ==
    ASSUME SlotInv, NEW a \in Attempts, Seal(a)
    PROVE  Slot!Record(a)
<1>1. /\ finalized = [file |-> "partial", seen |-> attempt[a].seen]
      /\ attempt[a].seen \in Evidence /\ PlanOf[pending.by] = PlanOf[a]
      /\ attempt[a].seen.id = pending.by /\ attempt[a].step = "seal"
    BY DEF SlotInv, Inv, FinalizedAtStep, SeenIsOwners, PendingAtStep, PendingValid, Seal
<1>2. NoEvidence \notin Evidence
    BY PlanAssumption DEF NoEvidence, Evidence
<1>3. RecordOf = NoEvidence /\ RecordOf' = attempt[a].seen /\ task' = task
    BY <1>1 DEF RecordOf, Seal
<1>4. Slot!True(attempt[a].seen)
    BY <1>1 DEF SlotInv, SeenIsTrue
<1>5. ReceiptsOf' = [ReceiptsOf EXCEPT ![a] = attempt[a].seen]
    BY <1>1, NewReceipt DEF SlotInv, Seal, MaybeEvidence
<1> QED
    BY <1>1, <1>2, <1>3, <1>4, <1>5 DEF Slot!Record, Slot!Receipt, RecordOf, ReceiptsOf

LEMMA ConfirmStep ==
    ASSUME SlotInv, NEW a \in Attempts, attempt[a].step \in {"confirm", "finalize"},
           finalized.file = "full", UNCHANGED <<finalized, task>>,
           \/ Sees(a, finalized.seen, "receipt")
           \/ Goes(a, "receipt") /\ finalized.seen = attempt[a].seen
    PROVE  Slot!Confirm(a)
<1>1. /\ finalized.seen \in Evidence /\ finalized.seen.id = pending.by
      /\ PlanOf[pending.by] = PlanOf[a]
    BY DEF SlotInv, Inv, ClaimTypeOK, FinalizedIsOwners, PendingAtStep, PendingValid
<1>2. NoEvidence \notin Evidence
    BY PlanAssumption DEF NoEvidence, Evidence
<1>3. RecordOf = finalized.seen /\ RecordOf' = RecordOf /\ ReceiptsOf[a] = NoEvidence
    BY DEF RecordOf, ReceiptsOf
<1>4. ReceiptsOf' = [ReceiptsOf EXCEPT ![a] = finalized.seen]
    BY <1>1, NewReceipt DEF SlotInv, MaybeEvidence
<1> QED
    BY <1>1, <1>2, <1>3, <1>4 DEF Slot!Confirm, Slot!Receipt, RecordOf, ReceiptsOf

\* Every step of an attempt or of the scheduler is one of the slot's, or a stutter.
LEMMA SlotStep ==
    ASSUME SlotInv, [Next]_vars
    PROVE  (\E r \in Attempts : Slot!Ask(r) \/ Slot!Proceed(r) \/ Slot!Record(r)
                                  \/ Slot!Confirm(r))
           \/ UNCHANGED SlotView
<1>1. Inv
    BY DEF SlotInv
<1>2. CASE UNCHANGED vars
    BY <1>2 DEF vars, SlotView, RecordOf, ReceiptsOf
<1>3. ASSUME NEW a \in Attempts, Land(a) \/ Run(a) PROVE Slot!Proceed(a)
    BY <1>3 DEF Land, Run, Slot!Proceed
<1>4. ASSUME NEW a \in Attempts,
             \/ Mkdir(a) \/ CreatePending(a) \/ WritePending(a) \/ Inspect(a) \/ Guard(a)
             \/ Answer(a) \/ Recover(a) \/ Dies(a)
      PROVE  UNCHANGED SlotView
    <2>1. UNCHANGED <<finalized, task>> /\ attempt[a].step # "receipt"
        BY <1>4 DEF Mkdir, CreatePending, WritePending, Inspect, Guard, Answer, Recover, Dies
    <2>2. \E step \in Steps \ {"receipt"} : Goes(a, step)
        BY <1>4 DEF Mkdir, CreatePending, WritePending, Inspect, Guard, Answer, Recover, Dies,
               Stops, Steps
    <2>3. ReceiptsOf' = ReceiptsOf
        BY <1>1, <2>1, <2>2, NoReceipt
    <2> QED
        BY <2>1, <2>3 DEF SlotView, RecordOf
<1>5. ASSUME NEW a \in Attempts, ReadBefore(a) \/ Reconcile(a)
      PROVE  UNCHANGED SlotView
    <2>1. UNCHANGED <<finalized, task>> /\ attempt[a].step # "receipt"
        BY <1>5 DEF ReadBefore, Reconcile
    <2>2. \E step \in Steps \ {"receipt"}, e \in MaybeEvidence : Sees(a, e, step)
        BY <1>1, <1>5, ReadbackIsOwners DEF ReadBefore, Reconcile, Steps, Inv
    <2>3. ReceiptsOf' = ReceiptsOf
        BY <1>1, <2>1, <2>2, NoReceipt
    <2> QED
        BY <2>1, <2>3 DEF SlotView, RecordOf
<1>6. ASSUME NEW a \in Attempts, Post(a)
      PROVE  Slot!Ask(a) \/ UNCHANGED SlotView
    <2>1. finalized' = finalized /\ attempt[a].step = "post"
        BY <1>6 DEF Post
    <2>2. \E step \in Steps \ {"receipt"} : Goes(a, step)
        BY <1>6 DEF Post, Steps
    <2>3. UNCHANGED <<RecordOf, ReceiptsOf>>
        BY <1>1, <2>1, <2>2, NoReceipt DEF RecordOf
    <2>4. task' = task \/ task' = [task EXCEPT ![a] = "inflight"]
        BY <1>6 DEF Post
    <2> QED
        BY <2>1, <2>3, <2>4, AskStep DEF SlotView
<1>7. ASSUME NEW a \in Attempts, Confirm(a)
      PROVE  Slot!Confirm(a) \/ UNCHANGED SlotView
    <2>1. UNCHANGED <<finalized, task>> /\ attempt[a].step = "confirm" /\ finalized.file = "full"
        BY <1>7 DEF Confirm, SlotInv, Inv, FinalizedAtStep
    <2>2. CASE Stops(a)
        BY <1>1, <2>1, <2>2, NoReceipt DEF Stops, Steps, SlotView, RecordOf
    <2> QED
        BY <1>7, <2>1, <2>2, ConfirmStep DEF Confirm
<1>8. ASSUME NEW a \in Attempts, Finalize(a)
      PROVE  Slot!Confirm(a) \/ UNCHANGED SlotView
    <2>1. task' = task /\ attempt[a].step = "finalize"
        BY <1>8 DEF Finalize
    <2>2. CASE finalized.file = "none"
        <3>1. finalized'.file = "partial" /\ Goes(a, "seal")
            BY <1>8, <2>2 DEF Finalize
        <3>2. RecordOf' = RecordOf
            BY <2>2, <3>1 DEF RecordOf
        <3>3. ReceiptsOf' = ReceiptsOf
            BY <1>1, <2>1, <3>1, NoReceipt DEF Steps
        <3> QED
            BY <2>1, <3>2, <3>3 DEF SlotView
    <2>3. CASE finalized.file # "none" /\ Stops(a)
        <3>1. finalized' = finalized
            BY <1>8, <2>3 DEF Finalize
        <3>2. ReceiptsOf' = ReceiptsOf
            BY <1>1, <2>1, <2>3, NoReceipt DEF Stops, Steps
        <3> QED
            BY <2>1, <3>1, <3>2 DEF SlotView, RecordOf
    <2>4. CASE /\ finalized' = finalized /\ finalized.file = "full"
               /\ finalized.seen = attempt[a].seen /\ Goes(a, "receipt")
        BY <2>1, <2>4, ConfirmStep
    <2> QED
        BY <1>8, <2>2, <2>3, <2>4 DEF Finalize
<1> QED
    BY <1>2, <1>3, <1>4, <1>5, <1>6, <1>7, <1>8, RecordStep, Zenon DEF Next, AttemptStep

\* The protocol of the claim directory amounts to a slot that is asked for once, recorded
\* once and never overwritten: every step of a submitting program, of a recovery or of
\* the scheduler is a step of RetrySlot, or changes nothing that lasts.
THEOREM SlotRefinement == Spec => ImplementsSlot
<1>1. Init => Slot!Init
    BY DEF Init, Slot!Init
<1>2. SlotInv /\ [Next]_vars => [Slot!Next]_(Slot!slotVars)
    BY SlotStep DEF Slot!Next, Slot!slotVars, SlotView, RecordOf, ReceiptsOf
<1> QED
    BY <1>1, <1>2, SlotInvInit, SlotInvStep, PTL DEF Spec, ImplementsSlot, Slot!Spec
=============================================================================
