-------------------- MODULE SchedulerVerificationProofs --------------------
(***************************************************************************)
(* Proofs about SchedulerVerification, for any number of candidates and    *)
(* runs, with a scheduler that knows dedupe keys or, without late POSTs,   *)
(* one that does not.                                                      *)
(*                                                                         *)
(* The argument: tasks only grow, and what is over stays over.  A record   *)
(* that was once true of the tasks therefore stays true, in whichever      *)
(* run's memory or in the file it lives and however old it is; so it does  *)
(* not matter whose copy overwrites whose.                                 *)
(***************************************************************************)
EXTENDS SchedulerVerification, TLAPS

\* The predicates take the scheduler's tasks as a parameter, to compare those
\* before a step with those after it.
Has(t, c, n) == {i \in Ids : /\ t[i].state # "free"
                             /\ t[i].cand = c /\ t[i].attempt = n}
Failed(t, c) == \E j \in Has(t, c, 0) : t[j].state = "nothing"

\* What a record says of candidate c is true of tasks t.
RecordTrue(t, c, rec) ==
    /\ rec.outcome \in {"new", "submitting"} => rec.attempt = 0
    /\ rec.outcome = "retry_submitting" => rec.attempt = 1
    /\ rec.attempt = 1 => Failed(t, c)
    /\ rec.outcome \in {"pending", "terminal"} => rec.active \in Has(t, c, rec.attempt)
    /\ rec.outcome = "terminal" => /\ t[rec.active].state \in Over
                                   /\ rec.valid <=> t[rec.active].state = "good"
                                   /\ rec.attempt = 0 => t[rec.active].state # "nothing"

EntryTrue(t, c, e) ==
    /\ e.active \in Has(t, c, e.attempt)
    /\ t[e.active].state \in Over
    /\ e.valid <=> t[e.active].state = "good"
    /\ e.attempt = 0 => t[e.active].state # "nothing"

\* What holds of run r, when its record is R and the lock is held by l.
RunTrue(t, r, R, l) ==
    /\ R \in Run
    /\ \A c \in Candidates : RecordTrue(t, c, R.records[c])
    /\ R.step \in {"lookup", "post", "confirm", "accept"} =>
           R.cand \in Candidates /\ R.records[R.cand].outcome \in Unsubmitted
    /\ R.step = "accept" => R.found \in Has(t, R.cand, R.records[R.cand].attempt)
    /\ R.step \in {"post", "confirm"} => l = r
    /\ R.step = "post" /\ ~ scheduler.dedupes => Has(t, R.cand, R.records[R.cand].attempt) = {}

Unique(t) == \A i, j \in Ids : /\ t[i].state # "free" /\ t[j].state # "free"
                               /\ t[i].cand = t[j].cand /\ t[i].attempt = t[j].attempt
                               => i = j

RetriesTrue(t) == \A i \in Ids : t[i].state # "free" /\ t[i].attempt = 1
                                => Failed(t, t[i].cand)

PostsTrue(t, P) == /\ P # {} => scheduler.dedupes
                   /\ \A c \in Candidates : <<c, 1>> \in P => Failed(t, c)

\* The inductive invariant.
Inv ==
    /\ VerifyTypeOK
    /\ \A c \in Candidates : RecordTrue(task, c, file.records[c])
    /\ \A r \in Runs : RunTrue(task, r, run[r], lock)
    /\ \A d \in documents : \A c \in Candidates : EntryTrue(task, c, d[c])
    /\ Unique(task) /\ RetriesTrue(task) /\ PostsTrue(task, inflight)

----------------------------------------------------------------------------
(* Tasks grow                                                              *)

TaskTable == [Ids -> Task \cup {NoTask}]

Grows(t, u) ==
    \A i \in Ids : t[i].state # "free" =>
        /\ u[i].state # "free" /\ u[i].cand = t[i].cand /\ u[i].attempt = t[i].attempt
        /\ t[i].state \in Over => u[i].state = t[i].state

\* A candidate whose first task failed stays one.
LEMMA FailedGrows ==
    ASSUME NEW t, NEW u, Grows(t, u), NEW c, Failed(t, c) PROVE Failed(u, c)
    BY DEF Grows, Failed, Has, Over

LEMMA RecordGrows ==
    ASSUME NEW t, NEW u, Grows(t, u), NEW c, NEW rec, RecordTrue(t, c, rec)
    PROVE  RecordTrue(u, c, rec)
<1>1. \A n : Has(t, c, n) \subseteq Has(u, c, n)
    BY DEF Grows, Has
<1>2. \A n, i : i \in Has(t, c, n) /\ t[i].state \in Over => u[i].state = t[i].state
    BY DEF Grows, Has
<1>3. Failed(t, c) => Failed(u, c)
    BY FailedGrows
<1> QED
    BY <1>1, <1>2, <1>3 DEF RecordTrue

LEMMA EntryGrows ==
    ASSUME NEW t, NEW u, Grows(t, u), NEW c, NEW e, EntryTrue(t, c, e)
    PROVE  EntryTrue(u, c, e)
    BY DEF Grows, Has, EntryTrue

\* A POST that arrives keeps tasks unique, unless nobody had to look for them.
LEMMA Arrival ==
    ASSUME Inv, NEW c \in Candidates, NEW n \in Attempts, Arrives(c, n),
           ~ scheduler.dedupes => Has(task, c, n) = {}, n = 1 => Failed(task, c)
    PROVE  /\ task' \in TaskTable /\ Grows(task, task')
           /\ Unique(task') /\ RetriesTrue(task')
<1>0. Matching(c, n) = Has(task, c, n) /\ task \in TaskTable
    BY DEF Matching, Existing, Has, Inv, VerifyTypeOK, TaskTable
<1>1. CASE scheduler.dedupes /\ Matching(c, n) # {}
    BY <1>0, <1>1 DEF Arrives, Inv, Grows
<1>2. CASE Has(task, c, n) = {}
    <2>1. PICK i \in Ids \ Existing :
              task' = [task EXCEPT ![i] = [cand |-> c, attempt |-> n, state |-> "active"]]
        BY <1>0, <1>2 DEF Arrives
    <2>2. task[i].state = "free"
        BY <2>1 DEF Existing
    <2>3. /\ task'[i] = [cand |-> c, attempt |-> n, state |-> "active"]
          /\ \A j \in Ids \ {i} : task'[j] = task[j]
        BY <1>0, <2>1 DEF TaskTable
    <2>4. task' \in TaskTable
        BY <1>0, <2>1 DEF TaskTable, Task
    <2>5. Grows(task, task')
        BY <2>2, <2>3 DEF Grows
    <2>6. Unique(task')
        BY <1>2, <2>3 DEF Inv, Unique, Has
    <2>7. RetriesTrue(task')
        <3> SUFFICES ASSUME NEW j \in Ids, task'[j].state # "free", task'[j].attempt = 1
                     PROVE  Failed(task', task'[j].cand)
            BY DEF RetriesTrue
        <3>1. Failed(task, task'[j].cand)
            BY <2>3 DEF Inv, RetriesTrue
        <3> QED
            BY <3>1, <2>5, FailedGrows
    <2> QED
        BY <2>4, <2>5, <2>6, <2>7
<1> QED
    BY <1>0, <1>1, <1>2

----------------------------------------------------------------------------
(* Steps of a run                                                          *)

\* A step that changes one run, the file, the lock or the documents, but no task.
LEMMA RunKeeps ==
    ASSUME Inv, NEW r \in Runs, NEW R, RunTrue(task, r, R, lock'),
           run' = [run EXCEPT ![r] = R],
           file' \in [there : BOOLEAN, records : [Candidates -> Record]],
           \A c \in Candidates : RecordTrue(task, c, file'.records[c]),
           lock' = lock \/ (lock \in {r, Nobody} /\ lock' \in {r, Nobody}),
           documents' \subseteq [Candidates -> Entry],
           \A d \in documents' : \A c \in Candidates : EntryTrue(task, c, d[c]),
           UNCHANGED <<task, inflight, scheduler>>
    PROVE  Inv'
<1> USE NobodyAssumption
<1>1. \A b \in Runs : run'[b] = IF b = r THEN R ELSE run[b]
    BY DEF Inv, VerifyTypeOK
<1>2. \A b \in Runs : RunTrue(task, b, run'[b], lock')
    <2> SUFFICES ASSUME NEW b \in Runs, b # r PROVE RunTrue(task, b, run[b], lock')
        BY <1>1
    <2> QED
        BY DEF Inv, RunTrue
<1>3. run' \in [Runs -> Run] /\ lock' \in Runs \cup {Nobody}
    BY DEF Inv, VerifyTypeOK, RunTrue
<1>4. VerifyTypeOK'
    BY <1>2, <1>3 DEF Inv, VerifyTypeOK, RunTrue
<1> QED
    BY <1>2, <1>4 DEF Inv, RunTrue, PostsTrue

\* The same for the actions that leave lock and documents alone.
LEMMA QuietRunKeeps ==
    ASSUME Inv, NEW r \in Runs, NEW R, RunTrue(task, r, R, lock),
           run' = [run EXCEPT ![r] = R],
           file' \in [there : BOOLEAN, records : [Candidates -> Record]],
           \A c \in Candidates : RecordTrue(task, c, file'.records[c]),
           UNCHANGED <<lock, task, inflight, documents, scheduler>>
    PROVE  Inv'
<1>1. RunTrue(task, r, R, lock')
    OBVIOUS
<1>2. documents' \subseteq [Candidates -> Entry]
    BY DEF Inv, VerifyTypeOK
<1>3. \A d \in documents' : \A c \in Candidates : EntryTrue(task, c, d[c])
    BY DEF Inv
<1> QED
    BY <1>1, <1>2, <1>3, RunKeeps

LEMMA NewRecordTrue ==
    /\ NewRecord \in Record
    /\ \A c : RecordTrue(task, c, NewRecord)
    /\ Fresh \in [Candidates -> Record]
    /\ \A c \in Candidates : RecordTrue(task, c, Fresh[c])
    BY DEF NewRecord, Record, RecordTrue, Fresh, Attempts, Unsubmitted

\* Writing a true record of one candidate.
LEMMA WritesKeeps ==
    ASSUME Inv, NEW r \in Runs, NEW c \in Candidates, NEW rec \in Record,
           NEW step \in {"main", "lookup"}, Writes(r, c, rec, step),
           RecordTrue(task, c, rec), step = "lookup" => rec.outcome \in Unsubmitted,
           UNCHANGED <<lock, task, inflight, documents, scheduler>>
    PROVE  Inv'
<1> DEFINE records == [run[r].records EXCEPT ![c] = rec]
           R == [step |-> step, cand |-> c, found |-> 0, records |-> records]
<1>1. run[r] \in Run /\ \A d \in Candidates : RecordTrue(task, d, run[r].records[d])
    BY DEF Inv, RunTrue
<1>2. /\ records \in [Candidates -> Record]
      /\ records[c] = rec
      /\ \A d \in Candidates : RecordTrue(task, d, records[d])
    BY <1>1 DEF Run
<1>3. run' = [run EXCEPT ![r] = R] /\ file' = [there |-> TRUE, records |-> records]
    BY DEF Writes
<1> HIDE DEF records
<1>4. R \in Run
    BY <1>2 DEF Run, Steps
<1>5. RunTrue(task, r, R, lock)
    BY <1>2, <1>4 DEF RunTrue
<1>6. file' \in [there : BOOLEAN, records : [Candidates -> Record]]
      /\ \A d \in Candidates : RecordTrue(task, d, file'.records[d])
    BY <1>2, <1>3
<1> HIDE DEF R
<1> QED
    BY <1>3, <1>5, <1>6, QuietRunKeeps

\* The facts about one run the actions need.
LEMMA RunFacts ==
    ASSUME Inv, NEW r \in Runs
    PROVE  /\ run[r] \in Run /\ RunTrue(task, r, run[r], lock)
           /\ run \in [Runs -> Run]
           /\ file \in [there : BOOLEAN, records : [Candidates -> Record]]
           /\ \A c \in Candidates : RecordTrue(task, c, file.records[c])
           /\ documents \subseteq [Candidates -> Entry]
           /\ \A d \in documents : \A c \in Candidates : EntryTrue(task, c, d[c])
           /\ \A c, n : Matching(c, n) = Has(task, c, n)
    BY DEF Inv, VerifyTypeOK, RunTrue, Matching, Existing, Has

\* Ending a run, whoever holds the lock afterwards.
LEMMA EndKeeps ==
    ASSUME Inv, NEW r \in Runs, NEW step \in {"done", "dead"}, Goes(r, step),
           file' \in [there : BOOLEAN, records : [Candidates -> Record]],
           \A c \in Candidates : RecordTrue(task, c, file'.records[c]),
           lock' = lock \/ (lock = r /\ lock' = Nobody),
           documents' \subseteq [Candidates -> Entry],
           \A d \in documents' : \A c \in Candidates : EntryTrue(task, c, d[c]),
           UNCHANGED <<task, inflight, scheduler>>
    PROVE  Inv'
<1> DEFINE R == [run[r] EXCEPT !.step = step]
<1>1. /\ R \in Run /\ R.records = run[r].records /\ R.step = step
      /\ run' = [run EXCEPT ![r] = R]
    BY RunFacts DEF Run, Steps, Goes
<1>2. RunTrue(task, r, R, lock')
    BY <1>1, RunFacts DEF RunTrue
<1> HIDE DEF R
<1> QED
    BY <1>1, <1>2, RunKeeps

LEMMA OpenInv == ASSUME Inv, NEW r \in Runs, Open(r) PROVE Inv'
<1>1. CASE file.there
    <2> DEFINE R == [run[r] EXCEPT !.step = "main", !.records = file.records]
    <2>1. /\ R \in Run /\ R.records = file.records /\ R.step = "main"
          /\ run' = [run EXCEPT ![r] = R]
        BY <1>1, RunFacts DEF Open, Run, Steps
    <2>2. RunTrue(task, r, R, lock)
        BY <2>1, RunFacts DEF RunTrue
    <2> HIDE DEF R
    <2> QED
        BY <2>1, <2>2, RunFacts, QuietRunKeeps DEF Open
<1>2. CASE ~ file.there
    <2> DEFINE R == [run[r] EXCEPT !.step = "create"]
    <2>1. /\ R \in Run /\ R.records = run[r].records /\ R.step = "create"
          /\ run' = [run EXCEPT ![r] = R]
        BY <1>2, RunFacts DEF Open, Goes, Run, Steps
    <2>2. RunTrue(task, r, R, lock)
        BY <2>1, RunFacts DEF RunTrue
    <2> HIDE DEF R
    <2> QED
        BY <2>1, <2>2, RunFacts, QuietRunKeeps DEF Open
<1> QED
    BY <1>1, <1>2

LEMMA CreateInv == ASSUME Inv, NEW r \in Runs, Create(r) PROVE Inv'
<1> DEFINE R == [run[r] EXCEPT !.step = "main", !.records = Fresh]
<1>1. /\ R \in Run /\ R.records = Fresh /\ R.step = "main"
      /\ run' = [run EXCEPT ![r] = R]
    BY RunFacts, NewRecordTrue DEF Create, Run, Steps
<1>2. RunTrue(task, r, R, lock)
    BY <1>1, NewRecordTrue DEF RunTrue
<1>3. file' \in [there : BOOLEAN, records : [Candidates -> Record]] /\ file'.records = Fresh
    BY NewRecordTrue DEF Create
<1> HIDE DEF R
<1> QED
    BY <1>1, <1>2, <1>3, NewRecordTrue, QuietRunKeeps DEF Create

LEMMA SealInv == ASSUME Inv, NEW r \in Runs, NEW c \in Candidates, Seal(r, c) PROVE Inv'
<1>1. CASE run[r].records[c].outcome = "new"
    <2> DEFINE rec == [NewRecord EXCEPT !.outcome = "submitting"]
    <2>0. /\ rec \in Record /\ rec.outcome = "submitting" /\ rec.attempt = 0
          /\ "submitting" \in Unsubmitted
        BY DEF NewRecord, Record, Unsubmitted, Attempts
    <2>2. Writes(r, c, rec, "lookup")
        BY <1>1 DEF Seal
    <2> HIDE DEF rec
    <2>3. RecordTrue(task, c, rec)
        BY <2>0 DEF RecordTrue
    <2> QED
        BY <2>0, <2>2, <2>3, WritesKeeps DEF Seal
<1>2. CASE run[r].records[c].outcome # "new"
    <2> DEFINE R == [run[r] EXCEPT !.step = "lookup", !.cand = c]
    <2>1. /\ R \in Run /\ R.records = run[r].records /\ R.step = "lookup" /\ R.cand = c
          /\ run' = [run EXCEPT ![r] = R] /\ R.records[c].outcome \in Unsubmitted
        BY <1>2, RunFacts DEF Seal, Run, Steps
    <2>2. RunTrue(task, r, R, lock)
        BY <2>1, RunFacts DEF RunTrue
    <2> HIDE DEF R
    <2> QED
        BY <1>2, <2>1, <2>2, RunFacts, QuietRunKeeps DEF Seal
<1> QED
    BY <1>1, <1>2

\* The newest of the tasks of one identity, of which there is but one.
LEMMA NewestIsOne ==
    ASSUME Inv, NEW c, NEW n, Has(task, c, n) # {}
    PROVE  Newest(Has(task, c, n)) \in Has(task, c, n)
<1> DEFINE S == Has(task, c, n)
<1>1. PICK i \in S : TRUE
    OBVIOUS
<1>2. S \subseteq Ids /\ \A j \in S : j = i
    BY <1>1 DEF Has, Inv, Unique
<1>3. i \in S /\ \A j \in S : j <= i
    BY <1>1, <1>2, BoundAssumption DEF Ids
<1> HIDE DEF S
<1>4. Newest(S) \in S
    BY <1>3, Zenon DEF Newest
<1> QED
    BY <1>4 DEF S

LEMMA LookupInv == ASSUME Inv, NEW r \in Runs, Lookup(r) PROVE Inv'
<1>0. /\ run[r].cand \in Candidates /\ run[r].step = "lookup" /\ lock = Nobody
      /\ run[r].records[run[r].cand].outcome \in Unsubmitted
      /\ Known(r) = Has(task, run[r].cand, Attempt(r))
    BY RunFacts DEF RunTrue, Lookup, Known
<1>1. CASE Known(r) = {}
    <2> DEFINE R == [run[r] EXCEPT !.step = "post"]
    <2>1. /\ R \in Run /\ R.records = run[r].records /\ R.step = "post"
          /\ R.cand = run[r].cand /\ run' = [run EXCEPT ![r] = R] /\ lock' = r
        BY <1>1, RunFacts DEF Lookup, Goes, Run, Steps
    <2>2. RunTrue(task, r, R, lock')
        BY <1>0, <1>1, <2>1, RunFacts DEF RunTrue, Attempt
    <2> HIDE DEF R
    <2>3. lock \in {r, Nobody} /\ lock' \in {r, Nobody}
        BY <1>0, <2>1
    <2> QED
        BY <2>1, <2>2, <2>3, RunFacts, RunKeeps DEF Lookup
<1>2. CASE Known(r) # {}
    <2> DEFINE R == [run[r] EXCEPT !.step = "accept", !.found = Newest(Known(r))]
    <2>1. Newest(Known(r)) \in Has(task, run[r].cand, Attempt(r))
        BY <1>0, <1>2, NewestIsOne
    <2>2. Newest(Known(r)) \in Ids
        BY <2>1 DEF Has
    <2>3. /\ R \in Run /\ R.records = run[r].records /\ R.step = "accept"
          /\ R.cand = run[r].cand /\ R.found = Newest(Known(r))
          /\ run' = [run EXCEPT ![r] = R]
        BY <1>2, <2>2, RunFacts DEF Lookup, Run, Steps
    <2>4. RunTrue(task, r, R, lock)
        BY <1>0, <2>1, <2>3, RunFacts DEF RunTrue, Attempt
    <2> HIDE DEF R
    <2> QED
        BY <1>2, <2>3, <2>4, RunFacts, QuietRunKeeps DEF Lookup
<1> QED
    BY <1>1, <1>2

\* What holds of a run survives the growth of tasks, if no POST of its is overtaken.
LEMMA RunGrows ==
    ASSUME Inv, NEW b \in Runs, Grows(task, task'),
           \/ scheduler.dedupes \/ run[b].step # "post"
           \/ \A c, n : Has(task', c, n) = Has(task, c, n)
    PROVE  RunTrue(task', b, run[b], lock)
<1>1. \A c \in Candidates : RecordTrue(task', c, run[b].records[c])
    BY RecordGrows, RunFacts DEF RunTrue
<1>2. \A c, n : Has(task, c, n) \subseteq Has(task', c, n)
    BY DEF Grows, Has
<1>3. run[b].step = "accept" =>
          run[b].found \in Has(task', run[b].cand, run[b].records[run[b].cand].attempt)
    BY <1>2, RunFacts DEF RunTrue
<1>4. run[b].step = "post" /\ ~ scheduler.dedupes =>
          Has(task', run[b].cand, run[b].records[run[b].cand].attempt) = {}
    BY RunFacts DEF RunTrue
<1> QED
    BY <1>1, <1>3, <1>4, RunFacts DEF RunTrue

\* A step of the scheduler, or one that reaches it.
LEMMA TasksKeep ==
    ASSUME Inv, task' \in TaskTable, Grows(task, task'), Unique(task'), RetriesTrue(task'),
           inflight' \subseteq Candidates \X Attempts, inflight' # {} => scheduler.dedupes,
           \A c \in Candidates : <<c, 1>> \in inflight' => Failed(task, c),
           \A b \in Runs : RunTrue(task', b, run'[b], lock),
           run' \in [Runs -> Run], UNCHANGED <<file, lock, documents, scheduler>>
    PROVE  Inv'
<1>1. VerifyTypeOK'
    BY DEF Inv, VerifyTypeOK, RunTrue, TaskTable
<1>2. \A c \in Candidates : RecordTrue(task', c, file'.records[c])
    BY RecordGrows DEF Inv
<1>3. \A d \in documents' : \A c \in Candidates : EntryTrue(task', c, d[c])
    BY EntryGrows DEF Inv
<1>4. PostsTrue(task, inflight)'
    BY FailedGrows DEF PostsTrue
<1>5. \A b \in Runs : RunTrue(task, b, run[b], lock)'
    BY DEF RunTrue
<1> QED
    BY <1>1, <1>2, <1>3, <1>4, <1>5 DEF Inv

\* A POST, and whether it arrived.
LEMMA PostInv == ASSUME Inv, NEW r \in Runs, Post(r) PROVE Inv'
<1> DEFINE R == [run[r] EXCEPT !.step = "confirm"]
           c == run[r].cand
           n == Attempt(r)
<1>0. /\ run[r].step = "post" /\ c \in Candidates /\ n \in Attempts
      /\ run[r].records[c].outcome \in Unsubmitted /\ lock = r
      /\ ~ scheduler.dedupes => Has(task, c, n) = {}
      /\ n = 1 => Failed(task, c)
    <2>1. run[r].step = "post" /\ c \in Candidates
        BY RunFacts DEF RunTrue, Post
    <2>2. run[r].records[c] \in Record /\ RecordTrue(task, c, run[r].records[c])
        BY <2>1, RunFacts DEF RunTrue, Run
    <2> QED
        BY <2>1, <2>2, RunFacts DEF RunTrue, Attempt, Record, RecordTrue
<1>1. /\ R \in Run /\ R.records = run[r].records /\ R.step = "confirm" /\ R.cand = c
      /\ run' = [run EXCEPT ![r] = R]
    BY RunFacts DEF Post, Goes, Run, Steps
<1> HIDE DEF R
<1>2. /\ task' \in TaskTable /\ Grows(task, task')
      /\ Unique(task') /\ RetriesTrue(task')
    <2>1. CASE Arrives(c, n)
        BY <1>0, <2>1, Arrival
    <2>2. CASE UNCHANGED task
        BY <2>2 DEF Inv, VerifyTypeOK, TaskTable, Grows
    <2> QED
        BY <2>1, <2>2 DEF Post
<1>3. /\ inflight' \subseteq Candidates \X Attempts
      /\ inflight' # {} => scheduler.dedupes
      /\ \A d \in Candidates : <<d, 1>> \in inflight' => Failed(task, d)
    <2>1. \/ inflight' = inflight
          \/ scheduler.late /\ inflight' = inflight \cup {<<c, n>>}
        BY DEF Post
    <2>2. inflight' # {} => scheduler.dedupes
        BY <2>1, SchedulerAssumption DEF Inv, PostsTrue, VerifyTypeOK
    <2>3. \A d \in Candidates : <<d, 1>> \in inflight' => Failed(task, d)
        BY <2>1, <1>0 DEF Inv, PostsTrue
    <2>4. inflight' \subseteq Candidates \X Attempts
        BY <2>1, <1>0 DEF Inv, VerifyTypeOK
    <2> QED
        BY <2>2, <2>3, <2>4
<1>4. \A b \in Runs : run'[b] = IF b = r THEN R ELSE run[b]
    BY <1>1, RunFacts
<1>5. \A b \in Runs : RunTrue(task', b, run'[b], lock)
    <2>1. RunTrue(task', r, R, lock)
        <3>1. \A d \in Candidates : RecordTrue(task', d, R.records[d])
            BY <1>1, <1>2, RecordGrows, RunFacts DEF RunTrue
        <3> QED
            BY <1>0, <1>1, <3>1 DEF RunTrue
    <2>2. ASSUME NEW b \in Runs, b # r PROVE RunTrue(task', b, run[b], lock)
        <3>1. run[b].step # "post"
            BY <1>0, <2>2, RunFacts DEF RunTrue
        <3> QED
            BY <3>1, <1>2, RunGrows
    <2> QED
        BY <1>4, <2>1, <2>2
<1>6. run' \in [Runs -> Run]
    BY <1>1, RunFacts
<1>7. UNCHANGED <<file, lock, documents, scheduler>>
    BY DEF Post
<1> HIDE DEF c, n
<1> QED
    BY <1>2, <1>3, <1>5, <1>6, <1>7, TasksKeep

LEMMA ConfirmInv == ASSUME Inv, NEW r \in Runs, Confirm(r) PROVE Inv'
<1>0. /\ run[r].cand \in Candidates /\ run[r].step = "confirm" /\ lock = r
      /\ run[r].records[run[r].cand].outcome \in Unsubmitted
      /\ Known(r) = Has(task, run[r].cand, Attempt(r))
    BY RunFacts DEF RunTrue, Confirm, Known
<1>1. CASE Known(r) = {}
    <2>0. file' = file \/ file' = [there |-> TRUE, records |-> run[r].records]
        BY <1>1 DEF Confirm
    <2>1. /\ file' \in [there : BOOLEAN, records : [Candidates -> Record]]
          /\ file' = file \/ file'.records = run[r].records
        <3>1. CASE file' = file
            BY <3>1, RunFacts
        <3>2. CASE file' = [there |-> TRUE, records |-> run[r].records]
            <4>1. run[r].records \in [Candidates -> Record]
                BY RunFacts DEF Run
            <4> QED
                BY <3>2, <4>1
        <3> QED
            BY <2>0, <3>1, <3>2
    <2>2. \A c \in Candidates : RecordTrue(task, c, file'.records[c])
        BY <2>1, RunFacts DEF RunTrue
    <2> QED
        BY <1>0, <1>1, <2>1, <2>2, RunFacts, EndKeeps DEF Confirm
<1>2. CASE Known(r) # {}
    <2> DEFINE R == [run[r] EXCEPT !.step = "accept", !.found = Newest(Known(r))]
    <2>1. Newest(Known(r)) \in Has(task, run[r].cand, Attempt(r))
        BY <1>0, <1>2, NewestIsOne
    <2>2. Newest(Known(r)) \in Ids
        BY <2>1 DEF Has
    <2>3. /\ R \in Run /\ R.records = run[r].records /\ R.step = "accept"
          /\ R.cand = run[r].cand /\ R.found = Newest(Known(r))
          /\ run' = [run EXCEPT ![r] = R]
        BY <1>2, <2>2, RunFacts DEF Confirm, Run, Steps
    <2>4. RunTrue(task, r, R, lock')
        BY <1>0, <2>1, <2>3, RunFacts DEF RunTrue, Attempt
    <2> HIDE DEF R
    <2> QED
        BY <1>0, <1>2, <2>3, <2>4, RunFacts, RunKeeps DEF Confirm
<1> QED
    BY <1>1, <1>2

LEMMA AcceptInv == ASSUME Inv, NEW r \in Runs, Accept(r) PROVE Inv'
<1> DEFINE c == run[r].cand
           rec == [run[r].records[c] EXCEPT !.outcome = "pending", !.active = run[r].found]
<1>1. /\ c \in Candidates /\ run[r].records[c] \in Record
      /\ RecordTrue(task, c, run[r].records[c])
      /\ run[r].found \in Has(task, c, run[r].records[c].attempt)
      /\ run[r].found \in Ids \cup {0}
    BY RunFacts DEF Accept, RunTrue, Run
<1>2. /\ rec \in Record /\ rec.outcome = "pending" /\ rec.active = run[r].found
      /\ rec.attempt = run[r].records[c].attempt
    BY <1>1 DEF Record
<1>3. Writes(r, c, rec, "main") /\ UNCHANGED <<lock, task, inflight, documents, scheduler>>
    BY DEF Accept
<1> HIDE DEF rec, c
<1>4. RecordTrue(task, c, rec)
    BY <1>1, <1>2 DEF RecordTrue
<1> QED
    BY <1>1, <1>2, <1>3, <1>4, WritesKeeps

LEMMA ConcludeInv == ASSUME Inv, NEW r \in Runs, NEW c \in Candidates, Conclude(r, c) PROVE Inv'
<1> DEFINE old == run[r].records[c]
           state == task[old.active].state
           rec == [old EXCEPT !.outcome = "terminal", !.valid = (state = "good")]
<1>1. old \in Record /\ RecordTrue(task, c, old) /\ old.outcome = "pending"
    BY RunFacts DEF Conclude, Waits, RunTrue, Run
<1>2. /\ rec \in Record /\ rec.outcome = "terminal" /\ rec.active = old.active
      /\ rec.attempt = old.attempt /\ rec.valid = (state = "good")
    BY <1>1 DEF Record
<1>3. /\ state \in {"good", "bad"} \/ (state = "nothing" /\ old.attempt = 1)
      /\ Writes(r, c, rec, "main") /\ UNCHANGED <<lock, task, inflight, documents, scheduler>>
    BY DEF Conclude
<1> HIDE DEF rec
<1>4. RecordTrue(task, c, rec)
    <2>1. rec.attempt = 1 => Failed(task, c)
        BY <1>1, <1>2 DEF RecordTrue
    <2>2. rec.active \in Has(task, c, rec.attempt)
        BY <1>1, <1>2 DEF RecordTrue
    <2>3. state \in Over /\ (rec.attempt = 0 => state # "nothing")
        BY <1>2, <1>3 DEF Over
    <2>4. rec.valid <=> state = "good"
        BY <1>2, Zenon
    <2>5. task[rec.active].state = state
        BY <1>2
    <2> HIDE DEF old, state
    <2> QED
        BY <1>2, <2>1, <2>2, <2>3, <2>4, <2>5 DEF RecordTrue
<1> HIDE DEF old, state
<1> QED
    BY <1>2, <1>3, <1>4, WritesKeeps

LEMMA RetryInv == ASSUME Inv, NEW r \in Runs, NEW c \in Candidates, Retry(r, c) PROVE Inv'
<1> DEFINE rec == [NewRecord EXCEPT !.outcome = "retry_submitting", !.attempt = 1]
<1>1. Failed(task, c)
    BY RunFacts DEF Retry, Waits, RunTrue, RecordTrue, Failed
<1>2. rec \in Record /\ RecordTrue(task, c, rec) /\ rec.outcome \in Unsubmitted
    BY <1>1 DEF NewRecord, Record, RecordTrue, Unsubmitted, Attempts
<1>3. Writes(r, c, rec, "lookup") /\ UNCHANGED <<lock, task, inflight, documents, scheduler>>
    BY DEF Retry
<1> HIDE DEF rec
<1> QED
    BY <1>2, <1>3, WritesKeeps

LEMMA UnresolvedInv == ASSUME Inv, NEW r \in Runs, Unresolved(r) PROVE Inv'
<1>1. /\ file' \in [there : BOOLEAN, records : [Candidates -> Record]]
      /\ file'.records = run[r].records
    BY RunFacts DEF Unresolved, Run
<1>2. \A c \in Candidates : RecordTrue(task, c, file'.records[c])
    BY <1>1, RunFacts DEF RunTrue
<1> QED
    BY <1>1, <1>2, RunFacts, EndKeeps DEF Unresolved

LEMMA FinishInv == ASSUME Inv, NEW r \in Runs, Finish(r) PROVE Inv'
<1> DEFINE recs == run[r].records
           doc == [c \in Candidates |-> [attempt |-> recs[c].attempt,
                                         active  |-> recs[c].active,
                                         valid   |-> recs[c].valid]]
<1>1. \A c \in Candidates : recs[c] \in Record /\ RecordTrue(task, c, recs[c])
                            /\ recs[c].outcome = "terminal"
    BY RunFacts DEF Finish, RunTrue, Run
<1>2. doc \in [Candidates -> Entry]
    BY <1>1 DEF Record, Entry
<1>3. \A c \in Candidates : EntryTrue(task, c, doc[c])
    BY <1>1 DEF EntryTrue, RecordTrue
<1>4. documents' = documents \cup {doc}
    BY DEF Finish
<1> HIDE DEF doc
<1>5. documents' \subseteq [Candidates -> Entry]
      /\ \A d \in documents' : \A c \in Candidates : EntryTrue(task, c, d[c])
    BY <1>2, <1>3, <1>4, RunFacts
<1> QED
    BY <1>5, RunFacts, EndKeeps DEF Finish

LEMMA DiesInv == ASSUME Inv, NEW r \in Runs, Dies(r) PROVE Inv'
    BY RunFacts, EndKeeps DEF Dies

----------------------------------------------------------------------------
(* Steps of the scheduler                                                  *)

LEMMA LandInv ==
    ASSUME Inv, NEW c \in Candidates, NEW n \in Attempts, Land(c, n) PROVE Inv'
<1>1. scheduler.dedupes /\ (n = 1 => Failed(task, c))
    BY DEF Land, Inv, PostsTrue
<1>2. /\ task' \in TaskTable /\ Grows(task, task')
      /\ Unique(task') /\ RetriesTrue(task')
    <2>1. CASE Arrives(c, n)
        BY <1>1, <2>1, Arrival
    <2>2. CASE UNCHANGED task
        BY <2>2 DEF Inv, VerifyTypeOK, TaskTable, Grows
    <2> QED
        BY <2>1, <2>2 DEF Land
<1>3. \A b \in Runs : RunTrue(task', b, run'[b], lock)
    BY <1>1, <1>2, RunGrows DEF Land
<1>4. inflight' \subseteq inflight /\ inflight \subseteq Candidates \X Attempts
    BY DEF Land, Inv, VerifyTypeOK
<1>5. \A d \in Candidates : <<d, 1>> \in inflight' => Failed(task, d)
    BY <1>4 DEF Inv, PostsTrue
<1>6. run' \in [Runs -> Run]
    BY RunFacts DEF Land, Inv, VerifyTypeOK
<1>7. inflight' \subseteq Candidates \X Attempts
    BY <1>4
<1> QED
    BY <1>1, <1>2, <1>3, <1>5, <1>6, <1>7, TasksKeep DEF Land

LEMMA EndsInv == ASSUME Inv, NEW i \in Ids, Ends(i) PROVE Inv'
<1>0. task \in TaskTable
    BY DEF Inv, VerifyTypeOK, TaskTable
<1>1. PICK s \in Over : task' = [task EXCEPT ![i].state = s]
    BY DEF Ends
<1>2. /\ \A j \in Ids \ {i} : task'[j] = task[j]
      /\ task'[i].state = s /\ s # "free" /\ task[i].state = "active"
      /\ task'[i].cand = task[i].cand /\ task'[i].attempt = task[i].attempt
    BY <1>0, <1>1 DEF TaskTable, Task, NoTask, Over, Ends
<1>3. task' \in TaskTable
    BY <1>0, <1>1, <1>2 DEF TaskTable, Task, NoTask, Over
<1>4. Grows(task, task')
    BY <1>2 DEF Grows, Over
<1>5. \A c, n : Has(task', c, n) = Has(task, c, n)
    BY <1>2 DEF Has
<1>6. Unique(task')
    BY <1>2 DEF Inv, Unique
<1>7. RetriesTrue(task')
    BY <1>2, <1>4, FailedGrows DEF Inv, RetriesTrue
<1>8. \A b \in Runs : RunTrue(task', b, run'[b], lock)
    BY <1>4, <1>5, RunGrows DEF Ends
<1> QED
    BY <1>3, <1>4, <1>6, <1>7, <1>8, TasksKeep DEF Ends, Inv, VerifyTypeOK, PostsTrue

----------------------------------------------------------------------------
(* The theorems                                                            *)

LEMMA InitInv == Init => Inv
<1> SUFFICES ASSUME Init PROVE Inv
    OBVIOUS
<1> DEFINE R == [step |-> "off", cand |-> Nobody, found |-> 0, records |-> Fresh]
<1>1. \A i \in Ids : task[i] = NoTask /\ task[i].state = "free"
    BY DEF Init, NoTask
<1>2. task \in [Ids -> Task \cup {NoTask}] /\ Unique(task) /\ RetriesTrue(task)
    BY <1>1 DEF Init, Unique, RetriesTrue
<1>3. R \in Run /\ R.step = "off" /\ R.records = Fresh
    BY NewRecordTrue DEF Run, Steps
<1>4. \A r \in Runs : run[r] = R
    BY DEF Init
<1> HIDE DEF R
<1>5. \A r \in Runs : RunTrue(task, r, run[r], lock)
    BY <1>3, <1>4, NewRecordTrue DEF RunTrue
<1>6. run \in [Runs -> Run]
    BY <1>3 DEF Init, R
<1>7. file \in [there : BOOLEAN, records : [Candidates -> Record]] /\ file.records = Fresh
    BY NewRecordTrue DEF Init
<1>8. VerifyTypeOK
    BY <1>2, <1>5, <1>6, <1>7 DEF Init, VerifyTypeOK, RunTrue
<1> QED
    BY <1>2, <1>5, <1>7, <1>8, NewRecordTrue DEF Init, Inv, PostsTrue

LEMMA StutterInv == ASSUME Inv, UNCHANGED vars PROVE Inv'
    BY DEF Inv, VerifyTypeOK, RunTrue, PostsTrue, vars

LEMMA StepInv == Inv /\ [Next]_vars => Inv'
<1> SUFFICES ASSUME Inv, [Next]_vars PROVE Inv'
    OBVIOUS
<1>1. ASSUME NEW r \in Runs, RunStep(r) PROVE Inv'
    BY <1>1, OpenInv, CreateInv, LookupInv, PostInv, ConfirmInv, AcceptInv, FinishInv,
       SealInv, ConcludeInv, RetryInv DEF RunStep
<1>2. ASSUME NEW r \in Runs, Unresolved(r) \/ Dies(r) PROVE Inv'
    BY <1>2, UnresolvedInv, DiesInv
<1>3. ASSUME NEW c \in Candidates, NEW n \in Attempts, Land(c, n) PROVE Inv'
    BY <1>3, LandInv
<1>4. ASSUME NEW i \in Ids, Ends(i) PROVE Inv'
    BY <1>4, EndsInv
<1> QED
    BY <1>1, <1>2, <1>3, <1>4, StutterInv DEF Next

LEMMA Invariance == Spec => []Inv
    BY InitInv, StepInv, PTL DEF Spec

\* Every variable of the verification stays in its type.
THEOREM TypeCorrect == Spec => []VerifyTypeOK
<1>1. Inv => VerifyTypeOK
    BY DEF Inv
<1> QED
    BY <1>1, Invariance, PTL

\* However runs of the command crash, overlap and overwrite each other's state,
\* and whatever becomes of POSTs, the scheduler has one task per candidate and
\* attempt: the sealed identity does what no transaction with the scheduler could.
THEOREM OneTask == Spec => []OneTaskPerIdentity
<1>1. Inv => OneTaskPerIdentity
    BY DEF Inv, Unique, OneTaskPerIdentity, Existing
<1> QED
    BY <1>1, Invariance, PTL

\* Retries are submitted for first tasks that ended without a valid result, also
\* by a run that acts on records long overwritten.
THEOREM RetriesJustified == Spec => []RetryAfterFailure
<1>1. Inv => RetryAfterFailure
    BY DEF Inv, RetriesTrue, Failed, Has, RetryAfterFailure, Existing, Matching
<1> QED
    BY <1>1, Invariance, PTL

\* Every document any run ever writes agrees with the scheduler's tasks.
THEOREM Documents == Spec => []DocumentsTrue
<1>1. Inv => DocumentsTrue
    <2> SUFFICES ASSUME Inv, NEW d \in documents, NEW c \in Candidates
                 PROVE  /\ d[c].active \in Matching(c, d[c].attempt)
                        /\ task[d[c].active].state \in Over
                        /\ d[c].valid <=> task[d[c].active].state = "good"
                        /\ d[c].attempt = 0 => task[d[c].active].state # "nothing"
        BY DEF DocumentsTrue
    <2>1. Matching(c, d[c].attempt) = Has(task, c, d[c].attempt)
        BY DEF Matching, Existing, Has
    <2> QED
        BY <2>1 DEF Inv, EntryTrue
<1> QED
    BY <1>1, Invariance, PTL

=============================================================================
