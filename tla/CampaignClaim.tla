--------------------------- MODULE CampaignClaim ---------------------------
(***************************************************************************)
(* One retry slot of a frozen campaign: the exactly-once protocol of       *)
(* tools/mft_campaign_atomic_claim.py together with the submission it      *)
(* protects, as in tools/mft_goal_timeout12h_retry.py, and the POST of     *)
(* verify/scheduler_client.py.                                             *)
(*                                                                         *)
(* An attempt is one run of the submitting program; re-running it after a  *)
(* crash is another attempt with the same plan, and attempts overlap       *)
(* freely.  The claim lives in a directory made with one mkdir; its two    *)
(* files are created with O_EXCL and never removed, so a crash may leave   *)
(* either of them partial for ever.  A POST may be lost, or arrive long    *)
(* after its sender gave up.                                               *)
(*                                                                         *)
(* Left out: seals and hashes of the JSON records (a full file is          *)
(* authentic), the campaign-wide mutation lock (it only orders POSTs), and *)
(* the authentication of plans and live launchers before the claim.        *)
(***************************************************************************)
EXTENDS FiniteSets

CONSTANTS Attempts,   \* runs of the submitting program
          Plans,      \* immutable plans that compete for the slot
          PlanOf,     \* [Attempts -> Plans]
          Fragile,    \* attempts that may crash, or see any call of theirs fail
          Nobody      \* no attempt

ASSUME PlanAssumption == PlanOf \in [Attempts -> Plans] /\ Nobody \notin Attempts
ASSUME FragileAssumption == Fragile \subseteq Attempts

VARIABLES pending,     \* pending.json and the directory that holds it
          finalized,   \* finalized.json
          task,        \* [Attempts -> state of the task its POST asks for]
          attempt      \* [Attempts -> Attempt]

vars == <<pending, finalized, task, attempt>>

\* A task that has landed is listed under the plan's name and dedupe key.
Listed     == {"queued", "running"}
TaskStates == Listed \cup {"none", "inflight", "lost"}

\* What a readback of the task list showed: the task and its status.
Evidence    == [id : Attempts, status : Listed]
NoEvidence  == [id |-> Nobody, status |-> "none"]
MaybeEvidence == Evidence \cup {NoEvidence}

FileStates == {"none", "partial", "full"}

Steps == {"new", "acquire", "create", "write", "guard", "post", "answer", "reconcile",
          "recover", "confirm", "finalize", "seal", "receipt", "dead"}

Attempt == [step : Steps, seen : MaybeEvidence]

ClaimTypeOK ==
    /\ pending \in [dir : BOOLEAN, file : FileStates, by : Attempts \cup {Nobody}]
    /\ finalized \in [file : FileStates, seen : MaybeEvidence]
    /\ task \in [Attempts -> TaskStates]
    /\ attempt \in [Attempts -> Attempt]
    /\ pending.file # "none" => pending.dir /\ pending.by \in Attempts
    /\ finalized.file # "none" => finalized.seen \in Evidence

Init ==
    /\ pending = [dir |-> FALSE, file |-> "none", by |-> Nobody]
    /\ finalized = [file |-> "none", seen |-> NoEvidence]
    /\ task = [a \in Attempts |-> "none"]
    /\ attempt = [a \in Attempts |-> [step |-> "new", seen |-> NoEvidence]]

----------------------------------------------------------------------------

Siblings == {a \in Attempts : task[a] \in Listed}

\* The sibling guard: what a list of tasks shows, more than one being an error.
Readbacks == IF Siblings = {} THEN {NoEvidence}
             ELSE {e \in Evidence : Siblings = {e.id} /\ e.status = task[e.id]}

Goes(a, step) == attempt' = [attempt EXCEPT ![a].step = step]
Stops(a) == Goes(a, "dead")
Sees(a, e, step) == attempt' = [attempt EXCEPT ![a] = [step |-> step, seen |-> e]]

\* A pending record is accepted when it is complete and of the same ancestry.
PendingValid(a) == pending.file = "full" /\ PlanOf[pending.by] = PlanOf[a]
FinalizedValid(a) == PendingValid(a) /\ finalized.file = "full"

\* The first list of siblings is read before the claim is asked for.
ReadBefore(a) ==
    /\ attempt[a].step = "new"
    /\ \E e \in Readbacks : Sees(a, e, "acquire")
    /\ UNCHANGED <<pending, finalized, task>>

\* acquire_claim: one mkdir decides who is fresh.
Mkdir(a) ==
    /\ attempt[a].step = "acquire" /\ ~ pending.dir
    /\ pending' = [pending EXCEPT !.dir = TRUE]
    /\ Goes(a, "create")
    /\ UNCHANGED <<finalized, task>>

\* pending.json comes into being empty, and is durable only when written and synced.
CreatePending(a) ==
    /\ attempt[a].step = "create" /\ pending.file = "none"
    /\ pending' = [pending EXCEPT !.file = "partial", !.by = a]
    /\ Goes(a, "write")
    /\ UNCHANGED <<finalized, task>>

WritePending(a) ==
    /\ attempt[a].step = "write"
    /\ pending' = [pending EXCEPT !.file = "full"]
    /\ Goes(a, "guard")
    /\ UNCHANGED <<finalized, task>>

\* Mutant of Inspect: a pending claim without a visible task is submitted again.
InspectReposting(a) ==
    /\ attempt[a].step = "acquire" /\ pending.dir
    /\ CASE finalized.file # "none" ->
              IF FinalizedValid(a) THEN Goes(a, "confirm") ELSE Stops(a)
         [] finalized.file = "none" /\ PendingValid(a) ->
              Goes(a, IF attempt[a].seen = NoEvidence THEN "guard" ELSE "recover")
         [] finalized.file = "none" /\ ~ PendingValid(a) -> Stops(a)
    /\ UNCHANGED <<pending, finalized, task>>

\* Mutant of Inspect: a pending claim is left to the attempt that made it.
InspectRefusing(a) ==
    /\ attempt[a].step = "acquire" /\ pending.dir
    /\ IF FinalizedValid(a) THEN Goes(a, "confirm") ELSE Stops(a)
    /\ UNCHANGED <<pending, finalized, task>>

\* acquire_claim on a directory that exists: a finalized claim is confirmed, a
\* pending one recovered, and one without a durable pending file, or with that of
\* another plan, is refused.
Inspect(a) ==
    /\ attempt[a].step = "acquire" /\ pending.dir
    /\ CASE finalized.file # "none" ->
              IF FinalizedValid(a) THEN Goes(a, "confirm") ELSE Stops(a)
         [] finalized.file = "none" /\ PendingValid(a) -> Goes(a, "recover")
         [] finalized.file = "none" /\ ~ PendingValid(a) -> Stops(a)
    /\ UNCHANGED <<pending, finalized, task>>

----------------------------------------------------------------------------
(* The fresh attempt submits, once                                         *)

\* The slot must have been empty before the claim and must be empty now.
Guard(a) ==
    /\ attempt[a].step = "guard"
    /\ IF attempt[a].seen = NoEvidence /\ Siblings = {} THEN Goes(a, "post") ELSE Stops(a)
    /\ UNCHANGED <<pending, finalized, task>>

\* The client looks for the task itself before it sends the POST.
Post(a) ==
    /\ attempt[a].step = "post"
    /\ IF Siblings = {} THEN /\ task' = [task EXCEPT ![a] = "inflight"]
                             /\ Goes(a, "answer")
       ELSE UNCHANGED task /\ Goes(a, "reconcile")
    /\ UNCHANGED <<pending, finalized>>

\* The scheduler answers; without an answer the attempt raises, see Dies.
Answer(a) ==
    /\ attempt[a].step = "answer" /\ task[a] \in Listed
    /\ Goes(a, "reconcile")
    /\ UNCHANGED <<pending, finalized, task>>

\* The list is read until it shows exactly one sibling.
Reconcile(a) ==
    /\ attempt[a].step = "reconcile"
    /\ \E e \in Readbacks \cap Evidence : Sees(a, e, "finalize")
    /\ UNCHANGED <<pending, finalized, task>>

----------------------------------------------------------------------------
(* Recovery and finalization                                               *)

\* Recovery takes exactly one sibling, and never submits.
Recover(a) ==
    /\ attempt[a].step = "recover"
    /\ IF attempt[a].seen \in Evidence THEN Goes(a, "finalize") ELSE Stops(a)
    /\ UNCHANGED <<pending, finalized, task>>

\* A finalized claim must name the one sibling that was seen.
Confirm(a) ==
    /\ attempt[a].step = "confirm"
    /\ IF attempt[a].seen.id = finalized.seen.id THEN Sees(a, finalized.seen, "receipt")
       ELSE Stops(a)
    /\ UNCHANGED <<pending, finalized, task>>

\* Mutant of Finalize: finalized.json is opened without O_EXCL.
FinalizeOverwriting(a) ==
    /\ attempt[a].step = "finalize"
    /\ finalized' = [file |-> "partial", seen |-> attempt[a].seen]
    /\ Goes(a, "seal")
    /\ UNCHANGED <<pending, task>>

\* Mutant of Finalize: a finalized file is not compared with the evidence at hand.
FinalizeUncompared(a) ==
    /\ attempt[a].step = "finalize"
    /\ IF finalized.file = "none" THEN /\ finalized' = [file |-> "partial",
                                                        seen |-> attempt[a].seen]
                                       /\ Goes(a, "seal")
       ELSE Goes(a, "receipt") /\ UNCHANGED finalized
    /\ UNCHANGED <<pending, task>>

\* finalize_claim: whoever creates the file writes it, and everyone else must
\* have read back the very same evidence.
Finalize(a) ==
    /\ attempt[a].step = "finalize"
    /\ IF finalized.file = "none" THEN /\ finalized' = [file |-> "partial",
                                                        seen |-> attempt[a].seen]
                                       /\ Goes(a, "seal")
       ELSE /\ UNCHANGED finalized
            /\ IF finalized.file = "full" /\ finalized.seen = attempt[a].seen
               THEN Goes(a, "receipt") ELSE Stops(a)
    /\ UNCHANGED <<pending, task>>

Seal(a) ==
    /\ attempt[a].step = "seal"
    /\ finalized' = [finalized EXCEPT !.file = "full"]
    /\ Goes(a, "receipt")
    /\ UNCHANGED <<pending, task>>

----------------------------------------------------------------------------
(* Crashes, and the scheduler                                              *)

\* The process crashes, or a read, a write or the POST raises.
Dies(a) ==
    /\ a \in Fragile /\ attempt[a].step \notin {"receipt", "dead"}
    /\ Stops(a)
    /\ UNCHANGED <<pending, finalized, task>>

\* The POST arrives, whatever became of its sender; or it is lost.
Land(a) ==
    /\ task[a] = "inflight"
    /\ \E s \in {"queued", "lost"} : task' = [task EXCEPT ![a] = s]
    /\ UNCHANGED <<pending, finalized, attempt>>

Run(a) ==
    /\ task[a] = "queued"
    /\ task' = [task EXCEPT ![a] = "running"]
    /\ UNCHANGED <<pending, finalized, attempt>>

AttemptStep(a) ==
    \/ ReadBefore(a) \/ Mkdir(a) \/ CreatePending(a) \/ WritePending(a) \/ Inspect(a)
    \/ Guard(a) \/ Post(a) \/ Answer(a) \/ Reconcile(a)
    \/ Recover(a) \/ Confirm(a) \/ Finalize(a) \/ Seal(a)

Next == \E a \in Attempts : AttemptStep(a) \/ Dies(a) \/ Land(a) \/ Run(a)

Spec == Init /\ [][Next]_vars

----------------------------------------------------------------------------
(* Properties                                                              *)

\* Nothing is submitted before its claim is durable, and only by the attempt
\* that made the claim: one slot never gets two POSTs, whatever attempts
\* overlap, crash, are run again or belong to other plans, and however late the
\* first POST arrives.
OnePost ==
    \A a \in Attempts : task[a] # "none" => pending.file = "full" /\ pending.by = a

\* Every receipt that is ever written carries the durable evidence, of a task
\* that exists and that the claim's owner submitted.
ReceiptsAgree ==
    \A a \in Attempts : attempt[a].step = "receipt" =>
        /\ finalized = [file |-> "full", seen |-> attempt[a].seen]
        /\ finalized.seen.id = pending.by /\ task[pending.by] \in Listed
        /\ PlanOf[pending.by] = PlanOf[a]

\* Refinement: what lasts is the task, a finalized file that is complete, and receipts.
Slot == INSTANCE RetrySlot
            WITH Runs <- Attempts, Nothing <- NoEvidence,
                 record <- IF finalized.file = "full" THEN finalized.seen ELSE NoEvidence,
                 receipts <- [a \in Attempts |-> IF attempt[a].step = "receipt"
                                                THEN attempt[a].seen ELSE NoEvidence]

\* Attempts of whatever plans, overlapping and cut off anywhere, amount to a slot with
\* one task, one record of it that is never replaced, and receipts that copy the record.
ImplementsSlot == Slot!Spec

\* Fairness: an attempt that cannot fail is started, and takes its next step; a process
\* that was started goes on or dies.
Fairness ==
    /\ \A a \in Attempts \ Fragile : WF_vars(AttemptStep(a))
    /\ \A a \in Attempts : WF_vars(attempt[a].step # "new" /\ (AttemptStep(a) \/ Dies(a)))

FairSpec == Spec /\ Fairness

\* The author of finalized.json died between its creation and the end of the write: the
\* file stays partial, nobody accepts it, and only a person can settle the slot.
Torn == finalized.file = "partial" /\ ~ \E a \in Attempts : attempt[a].step = "seal"

\* A crash after the POST is recovered from: once the task is listed, one more run of the
\* same plan that does not fail itself gets the claim finalized, whoever writes the file,
\* unless a run dies in the middle of that very write.
LandedIsFinalized ==
    \A a, b \in Attempts :
        (/\ task[a] \in Listed /\ PlanOf[a] = PlanOf[b]
         /\ b \notin Fragile /\ attempt[b].step = "new")
        ~> (finalized.file = "full" \/ Torn)
=============================================================================
