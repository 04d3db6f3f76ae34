----------------------------- MODULE RetrySlot -----------------------------
(***************************************************************************)
(* What a campaign may count on about one of its retry slots, without      *)
(* directories, files and readbacks: however many programs are run for it, *)
(* one task is asked for; one record of that task is made, once it is      *)
(* there, and never replaced; and receipts are copies of the record, for   *)
(* programs of the plan the task belongs to.                               *)
(*                                                                         *)
(* CampaignClaim implements this module; see Slot!Spec there.              *)
(***************************************************************************)

CONSTANTS Runs,      \* runs of submitting programs
          PlanOf,    \* the plan of each
          Nothing    \* no record

VARIABLES task,      \* [Runs -> state of the task the run asked for]
          record,    \* the durable evidence
          receipts   \* [Runs -> the evidence in its receipt]

slotVars == <<task, record, receipts>>

Init ==
    /\ task = [r \in Runs |-> "none"]
    /\ record = Nothing
    /\ receipts = [r \in Runs |-> Nothing]

\* The one request.
Ask(r) ==
    /\ \A q \in Runs : task[q] = "none"
    /\ task' = [task EXCEPT ![r] = "inflight"]
    /\ UNCHANGED <<record, receipts>>

\* The scheduler gets it or not, and may start the task.
Proceed(r) ==
    /\ \/ task[r] = "inflight" /\ \E s \in {"queued", "lost"} : task' = [task EXCEPT ![r] = s]
       \/ task[r] = "queued" /\ task' = [task EXCEPT ![r] = "running"]
    /\ UNCHANGED <<record, receipts>>

\* What may be said of a task: it was queued, or it was running.
Queued(r)  == [id |-> r, status |-> "queued"]
Running(r) == [id |-> r, status |-> "running"]

True(e) == \E r \in Runs : \/ e = Queued(r) /\ task[r] \in {"queued", "running"}
                           \/ e = Running(r) /\ task[r] = "running"

Receipt(r, e) == PlanOf[r] = PlanOf[e.id] /\ receipts' = [receipts EXCEPT ![r] = e]

\* A run makes the record, and is the first to have a receipt.
Record(r) ==
    /\ record = Nothing
    /\ record' # Nothing /\ True(record') /\ Receipt(r, record')
    /\ UNCHANGED task

\* Others get theirs.
Confirm(r) ==
    /\ record # Nothing /\ receipts[r] = Nothing
    /\ Receipt(r, record)
    /\ UNCHANGED <<task, record>>

Next == \E r \in Runs : Ask(r) \/ Proceed(r) \/ Record(r) \/ Confirm(r)

Spec == Init /\ [][Next]_slotVars
=============================================================================
