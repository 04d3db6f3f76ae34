----------------------- MODULE SchedulerVerification -----------------------
(***************************************************************************)
(* Verification of one manifest of candidates by the external scheduler    *)
(* (run_scheduler_verification of pipeline/scheduler_verification.py, and  *)
(* the submission of verify/scheduler_client.py it calls).                 *)
(*                                                                         *)
(* A run is one execution of the verification command in the work          *)
(* directory of its job.  A command outlives a worker that crashes, so a   *)
(* later attempt of the job may overlap with the orphan of an earlier one: *)
(* all of them share scheduler_state.json, which each reads once, keeps in *)
(* memory and overwrites as a whole.                                       *)
(*                                                                         *)
(* A candidate has at most two tasks, whose name and dedupe key, here the  *)
(* pair of candidate and attempt, are sealed in the state file before the  *)
(* POST.  Any call may raise, which ends the run like a crash.             *)
(*                                                                         *)
(* Left out: what the tasks compute, the capacity of the project, the      *)
(* cohort guard of experimental runs, and records of statuses and errors   *)
(* nobody reads.  The order in which candidates are taken is left open.    *)
(***************************************************************************)
EXTENDS Integers, FiniteSets

CONSTANTS Candidates,   \* candidates of the manifest
          Runs,         \* executions of the command
          Fragile,      \* runs that may crash, or see a call of theirs fail
          Nobody,       \* no run, no candidate
          MaxTasks,     \* bound: tasks of the scheduler
          Schedulers    \* what the scheduler may be like: any of these

ASSUME NobodyAssumption == Nobody \notin Runs /\ Nobody \notin Candidates
ASSUME BoundAssumption == MaxTasks \in Nat /\ Fragile \subseteq Runs

\* Whether the scheduler answers 200 for a dedupe key it knows, and whether a POST may
\* arrive after its sender gave up, which only the former makes harmless.
ASSUME SchedulerAssumption ==
    /\ Schedulers \subseteq [dedupes : BOOLEAN, late : BOOLEAN]
    /\ \A s \in Schedulers : s.late => s.dedupes

VARIABLES file,        \* scheduler_state.json
          run,         \* [Runs -> Run]
          lock,        \* holder of the campaign mutation lock
          task,        \* [Ids -> Task], the scheduler's tasks
          inflight,    \* POSTs that have not arrived
          documents,   \* every verification_results.json ever written (history)
          scheduler    \* what the scheduler is like, which the program cannot know

vars == <<file, run, lock, task, inflight, documents, scheduler>>

Ids == 1 .. MaxTasks
Attempts == {0, 1}

\* A task is free (not created), active, or over: with a valid result that meets
\* the physical limits, one that does not, or none.
Over   == {"good", "bad", "nothing"}
Task   == [cand : Candidates, attempt : Attempts, state : {"active"} \cup Over]
NoTask == [cand |-> Nobody, attempt |-> 0, state |-> "free"]

Unsubmitted == {"new", "submitting", "retry_submitting"}

Record == [outcome : Unsubmitted \cup {"pending", "terminal"},
           attempt : Attempts,
           active  : Ids \cup {0},
           valid   : BOOLEAN]

NewRecord == [outcome |-> "new", attempt |-> 0, active |-> 0, valid |-> FALSE]
Fresh == [c \in Candidates |-> NewRecord]

Steps == {"off", "create", "main", "lookup", "post", "confirm", "accept", "done", "dead"}

Run == [step : Steps,
        cand : Candidates \cup {Nobody},    \* candidate being submitted
        found : Ids \cup {0},               \* task id the client returned
        records : [Candidates -> Record]]

Entry == [attempt : Attempts, active : Ids \cup {0}, valid : BOOLEAN]

VerifyTypeOK ==
    /\ file \in [there : BOOLEAN, records : [Candidates -> Record]]
    /\ run \in [Runs -> Run]
    /\ lock \in Runs \cup {Nobody}
    /\ task \in [Ids -> Task \cup {NoTask}]
    /\ inflight \subseteq Candidates \X Attempts
    /\ documents \subseteq [Candidates -> Entry] /\ scheduler \in Schedulers
    /\ \A r \in Runs : run[r].step \in {"lookup", "post", "confirm", "accept"} =>
           run[r].cand \in Candidates /\ run[r].records[run[r].cand].outcome \in Unsubmitted

Init ==
    /\ file = [there |-> FALSE, records |-> Fresh]
    /\ run = [r \in Runs |-> [step |-> "off", cand |-> Nobody, found |-> 0,
                              records |-> Fresh]]
    /\ lock = Nobody
    /\ task = [i \in Ids |-> NoTask]
    /\ inflight = {} /\ documents = {} /\ scheduler \in Schedulers

----------------------------------------------------------------------------

Existing == {i \in Ids : task[i].state # "free"}
Matching(c, n) == {i \in Existing : task[i].cand = c /\ task[i].attempt = n}
Newest(S) == CHOOSE i \in S : \A j \in S : j <= i

\* The identity a run is submitting.
Attempt(r) == run[r].records[run[r].cand].attempt
Known(r) == Matching(run[r].cand, Attempt(r))

Goes(r, step) == run' = [run EXCEPT ![r].step = step]

\* The record of c becomes rec, in memory and in the file, which is replaced.
Writes(r, c, rec, step) ==
    LET records == [run[r].records EXCEPT ![c] = rec]
    IN /\ run' = [run EXCEPT ![r] = [step |-> step, cand |-> c, found |-> 0,
                                     records |-> records]]
       /\ file' = [there |-> TRUE, records |-> records]

\* What the scheduler does with a POST: a task, unless it knows the key.
Arrives(c, n) ==
    IF scheduler.dedupes /\ Matching(c, n) # {} THEN UNCHANGED task
    ELSE \E i \in Ids \ Existing :
            /\ \A j \in Ids : j < i => j \in Existing
            /\ task' = [task EXCEPT ![i] = [cand |-> c, attempt |-> n, state |-> "active"]]

----------------------------------------------------------------------------
(* A run                                                                   *)

\* _load_state: the file is read, once.
Open(r) ==
    /\ run[r].step = "off"
    /\ IF file.there
       THEN run' = [run EXCEPT ![r].step = "main", ![r].records = file.records]
       ELSE Goes(r, "create")
    /\ UNCHANGED <<file, lock, task, inflight, documents, scheduler>>

\* It was not there: it is now, with or without another run's progress.
Create(r) ==
    /\ run[r].step = "create"
    /\ run' = [run EXCEPT ![r].step = "main", ![r].records = Fresh]
    /\ file' = [there |-> TRUE, records |-> Fresh]
    /\ UNCHANGED <<lock, task, inflight, documents, scheduler>>

\* Mutant of Seal: a submission that was interrupted is not taken up again.
SealOnce(r, c) ==
    /\ run[r].step = "main" /\ run[r].records[c].outcome = "new"
    /\ Writes(r, c, [NewRecord EXCEPT !.outcome = "submitting"], "lookup")
    /\ UNCHANGED <<lock, task, inflight, documents, scheduler>>

\* submit_record: the identity is sealed in the file, unless it already is.
Seal(r, c) ==
    /\ run[r].step = "main" /\ run[r].records[c].outcome \in Unsubmitted
    /\ IF run[r].records[c].outcome = "new"
       THEN Writes(r, c, [NewRecord EXCEPT !.outcome = "submitting"], "lookup")
       ELSE /\ run' = [run EXCEPT ![r].step = "lookup", ![r].cand = c]
            /\ UNCHANGED file
    /\ UNCHANGED <<lock, task, inflight, documents, scheduler>>

\* Mutant of Lookup: the campaign lock is not taken.
LookupUnlocked(r) ==
    /\ run[r].step = "lookup"
    /\ IF Known(r) = {} THEN Goes(r, "post")
       ELSE run' = [run EXCEPT ![r].step = "accept", ![r].found = Newest(Known(r))]
    /\ UNCHANGED <<file, lock, task, inflight, documents, scheduler>>

\* Under the campaign lock the client looks for a task of this identity.
Lookup(r) ==
    /\ run[r].step = "lookup" /\ lock = Nobody
    /\ IF Known(r) = {} THEN Goes(r, "post") /\ lock' = r
       ELSE /\ run' = [run EXCEPT ![r].step = "accept", ![r].found = Newest(Known(r))]
            /\ UNCHANGED lock
    /\ UNCHANGED <<file, task, inflight, documents, scheduler>>

\* The POST arrives; or is lost; or arrives later.
Post(r) ==
    /\ run[r].step = "post"
    /\ \/ Arrives(run[r].cand, Attempt(r)) /\ UNCHANGED inflight
       \/ r \in Fragile /\ UNCHANGED <<task, inflight>>
       \/ /\ scheduler.late /\ r \in Fragile
          /\ inflight' = inflight \cup {<<run[r].cand, Attempt(r)>>} /\ UNCHANGED task
    /\ Goes(r, "confirm")
    /\ UNCHANGED <<file, lock, documents, scheduler>>

\* The task id is in the answer, or else is looked up.  Without one the run raises,
\* after another write of the file if the scheduler had refused the POST.
Confirm(r) ==
    /\ run[r].step = "confirm"
    /\ \/ /\ Known(r) = {}
          /\ Goes(r, "dead")
          /\ file' \in {file, [there |-> TRUE, records |-> run[r].records]}
       \/ /\ Known(r) # {}
          /\ run' = [run EXCEPT ![r].step = "accept", ![r].found = Newest(Known(r))]
          /\ UNCHANGED file
    /\ lock' = Nobody
    /\ UNCHANGED <<task, inflight, documents, scheduler>>

Accept(r) ==
    /\ run[r].step = "accept"
    /\ LET c == run[r].cand
       IN Writes(r, c, [run[r].records[c] EXCEPT !.outcome = "pending",
                                                 !.active = run[r].found], "main")
    /\ UNCHANGED <<lock, task, inflight, documents, scheduler>>

\* Nothing is waited for before everything is submitted.
Waits(r, c) ==
    /\ run[r].step = "main" /\ run[r].records[c].outcome = "pending"
    /\ \A d \in Candidates : run[r].records[d].outcome \notin Unsubmitted

\* Mutant of Conclude: a task without a result is over, first attempt or not.
ConcludeEarly(r, c) ==
    /\ Waits(r, c)
    /\ LET rec == run[r].records[c]
           state == task[rec.active].state
       IN /\ state \in Over
          /\ Writes(r, c, [rec EXCEPT !.outcome = "terminal", !.valid = (state = "good")],
                    "main")
    /\ UNCHANGED <<lock, task, inflight, documents, scheduler>>

\* The task is over and has a result, or was the retry.
Conclude(r, c) ==
    /\ Waits(r, c)
    /\ LET rec == run[r].records[c]
           state == task[rec.active].state
       IN /\ state \in {"good", "bad"} \/ (state = "nothing" /\ rec.attempt = 1)
          /\ Writes(r, c, [rec EXCEPT !.outcome = "terminal", !.valid = (state = "good")],
                    "main")
    /\ UNCHANGED <<lock, task, inflight, documents, scheduler>>

\* Mutant of Retry: a task that is not over in time is retried like one without result.
RetryUnresolved(r, c) ==
    /\ Waits(r, c)
    /\ run[r].records[c].attempt = 0
    /\ task[run[r].records[c].active].state \in {"active", "nothing"}
    /\ Writes(r, c, [NewRecord EXCEPT !.outcome = "retry_submitting", !.attempt = 1],
              "lookup")
    /\ UNCHANGED <<lock, task, inflight, documents, scheduler>>

\* The first task is over without a valid result: the retry is sealed.
Retry(r, c) ==
    /\ Waits(r, c)
    /\ run[r].records[c].attempt = 0
    /\ task[run[r].records[c].active].state = "nothing"
    /\ Writes(r, c, [NewRecord EXCEPT !.outcome = "retry_submitting", !.attempt = 1],
              "lookup")
    /\ UNCHANGED <<lock, task, inflight, documents, scheduler>>

\* Not everything was over in time: the file is written once more, and the run raises.
Unresolved(r) ==
    /\ r \in Fragile
    /\ \E c \in Candidates : Waits(r, c)
    /\ file' = [there |-> TRUE, records |-> run[r].records]
    /\ Goes(r, "dead")
    /\ UNCHANGED <<lock, task, inflight, documents, scheduler>>

Finish(r) ==
    /\ run[r].step = "main" /\ \A c \in Candidates : run[r].records[c].outcome = "terminal"
    /\ documents' = documents \cup
           {[c \in Candidates |-> [attempt |-> run[r].records[c].attempt,
                                   active  |-> run[r].records[c].active,
                                   valid   |-> run[r].records[c].valid]]}
    /\ Goes(r, "done")
    /\ UNCHANGED <<file, lock, task, inflight, scheduler>>

\* A crash, or a call that raises; the campaign lock is released.
Dies(r) ==
    /\ r \in Fragile /\ run[r].step \notin {"off", "done", "dead"}
    /\ Goes(r, "dead")
    /\ lock' = IF lock = r THEN Nobody ELSE lock
    /\ UNCHANGED <<file, task, inflight, documents, scheduler>>

----------------------------------------------------------------------------
(* The scheduler                                                           *)

Land(c, n) ==
    /\ <<c, n>> \in inflight
    /\ inflight' = inflight \ {<<c, n>>}
    /\ Arrives(c, n) \/ UNCHANGED task
    /\ UNCHANGED <<file, run, lock, documents, scheduler>>

Ends(i) ==
    /\ task[i].state = "active"
    /\ \E s \in Over : task' = [task EXCEPT ![i].state = s]
    /\ UNCHANGED <<file, run, lock, inflight, documents, scheduler>>

RunStep(r) ==
    \/ Open(r) \/ Create(r) \/ Lookup(r) \/ Post(r) \/ Confirm(r) \/ Accept(r) \/ Finish(r)
    \/ \E c \in Candidates : Seal(r, c) \/ Conclude(r, c) \/ Retry(r, c)

Next ==
    \/ \E r \in Runs : RunStep(r) \/ Unresolved(r) \/ Dies(r)
    \/ \E c \in Candidates, n \in Attempts : Land(c, n)
    \/ \E i \in Ids : Ends(i)

Spec == Init /\ [][Next]_vars

----------------------------------------------------------------------------
(* Properties                                                              *)

\* However runs crash, overlap and overwrite each other's file, and whatever
\* becomes of POSTs, a candidate never has two tasks of the same attempt; also where the
\* scheduler knows no keys, and only the campaign lock and the lookup beneath it see to it.
OneTaskPerIdentity ==
    \A i, j \in Existing :
        task[i].cand = task[j].cand /\ task[i].attempt = task[j].attempt => i = j

\* A retry is only ever submitted after the first task is over without a valid
\* result: no candidate has two live tasks, and none with a result is solved again.
RetryAfterFailure ==
    \A i \in Existing : task[i].attempt = 1 =>
        \E j \in Matching(task[i].cand, 0) : task[j].state = "nothing"

\* Every document a run writes says what the scheduler's tasks say: the result of
\* the first task if it has one, else that of the retry; so all of them agree, also
\* those of a run whose file was overwritten with older records.
DocumentsTrue ==
    \A d \in documents : \A c \in Candidates :
        /\ d[c].active \in Matching(c, d[c].attempt)
        /\ task[d[c].active].state \in Over
        /\ d[c].valid <=> task[d[c].active].state = "good"
        /\ d[c].attempt = 0 => task[d[c].active].state # "nothing"

\* Fairness: a run that was started goes on, and tasks end; no run has to start.
Fairness == /\ \A r \in Runs : WF_vars(run[r].step # "off" /\ RunStep(r))
            /\ \A i \in Ids : WF_vars(Ends(i))

FairSpec == Spec /\ Fairness

\* Whatever crashed runs left behind, a run of which no call fails brings the
\* verification to an end.
VerificationEnds == \A r \in Runs \ Fragile : run[r].step # "off" ~> run[r].step = "done"
=============================================================================
