--------------------------- MODULE PipelineProofs ---------------------------
(* Theorems about the two programs over the queue, for every instance of   *)
(* their constants: the lane workers of PipelineWorkers and the planner of *)
(* PipelinePlanner.  Every step of either is a step of DurableQueue or     *)
(* leaves it alone, so Inv of DurableQueueProofs holds throughout, and     *)
(* each program implements the queue.  The two are proved about apart:     *)
(* no lemma on one cites an assumption on the constants of the other.      *)
EXTENDS PipelineWorkers, PipelinePlanner, DurableQueueProofs, FiniteSetTheorems

(* What a transaction may do to a row, as a worker that holds it sees it.  *)

\* No attempt starts, and nothing succeeds.
NoStart(i)   == row'[i].state = "running"
                => /\ row[i].state = "running" /\ row'[i].owner = row[i].owner
                   /\ row'[i].attempt = row[i].attempt
NoSuccess(i) == row'[i].state = "succeeded"
                => /\ row[i].state = "succeeded" /\ row'[i].output = row[i].output
                   /\ row'[i].attempt = row[i].attempt

\* A live lease is not looked at.
LiveKept(i) == row[i].state = "running" /\ row[i].left >= 0 => row'[i] = row[i]

\* The lease that o has just been given for row i.
Given(i, o) == /\ row'[i].state = "running" /\ row'[i].owner = o
               /\ row'[i].attempt = row[i].attempt + 1
               /\ row'[i].left >= LeaseTicks - Lag

LEMMA ReconcileQuiet ==
    ASSUME Inv, NEW lag \in 0 .. Lag, Reconcile(lag), NEW i \in Ids
    PROVE  NoStart(i) /\ NoSuccess(i) /\ LiveKept(i)
<1>1. ReconcileMove(i, lag) /\ row' = Reconciled(lag)
  BY ReconciledRows DEF Reconcile
<1>2. lag \in Nat /\ (row[i].state = "running" => row[i].left \in Int)
  BY BoundAssumption DEF Inv, TypeOK, Row, Expired
<1>3. QED
  BY <1>1, <1>2 DEF ReconcileMove, NoStart, NoSuccess, LiveKept, Pending

LEMMA EnqueueQuiet ==
    ASSUME Inv, NEW lag \in 0 .. Lag, NEW r \in Requests, NEW deps \in SUBSET Ids,
           Enqueue(r, deps, lag), NEW i \in Ids
    PROVE  NoStart(i) /\ NoSuccess(i) /\ LiveKept(i)
<1>1. row \in [Ids -> Row] /\ "cancelled" \in States
  BY DEF Inv, TypeOK, States, Terminal, Lost
<1>2. CASE EnqueueNew(r, deps, lag)
  <2>1. PICK k \in Ids \ Existing :
            row' = LET t == [row EXCEPT ![k] = [NoRow EXCEPT !.state = "queued",
                                                            !.wait = -lag]]
                   IN IF r.cohort = NoCohort THEN t ELSE Coalesced(t, r, k)
    BY <1>2 DEF EnqueueNew
  <2> DEFINE t == [row EXCEPT ![k] = [NoRow EXCEPT !.state = "queued", !.wait = -lag]]
  <2>2. row'[i] = t[i] \/ (row'[i] = Settled(t[i], "cancelled") /\ t[i].state \in Pending)
    BY <2>1 DEF Coalesced
  <2>3. CASE i = k
    <3>1. t[i].state = "queued" /\ row[i].state = "absent"
      BY <1>1, <2>1, <2>3 DEF NoRow, Existing
    <3>2. row'[i].state \in {"queued", "cancelled"}
      <4>1. t[i] = [NoRow EXCEPT !.state = "queued", !.wait = -lag]
        BY <1>1, <2>1, <2>3
      <4> HIDE DEF t
      <4>2. Settled(t[i], "cancelled").state = "cancelled"
        BY <4>1 DEF Settled, NoRow
      <4>3. QED
        BY <2>2, <3>1, <4>2
    <3>3. QED
      BY <3>1, <3>2 DEF NoStart, NoSuccess, LiveKept
  <2>4. CASE i # k
    <3>1. t[i] = row[i]
      BY <1>1, <2>1, <2>4
    <3>2. row'[i] = row[i] \/ (row'[i].state = "cancelled" /\ row[i].state \in Pending)
      <4> HIDE DEF t
      <4>1. row[i] \in Row
        BY <1>1
      <4>2. Settled(row[i], "cancelled").state = "cancelled"
        BY <1>1, <4>1, SettledRow
      <4>3. QED
        BY <2>2, <3>1, <4>2
    <3>3. QED
      BY <3>2 DEF NoStart, NoSuccess, LiveKept, Pending
  <2>5. QED
    BY <2>3, <2>4
<1>3. CASE EnqueueAgain(r, deps)
  <2>1. row'[i] = row[i] \/ (row[i].state \in Pending /\ row'[i] = Settled(row[i], "cancelled"))
    <3>1. PICK k \in Existing : row' = Coalesced(row, r, k)
      BY <1>3 DEF EnqueueAgain
    <3>2. QED
      BY <1>1, <3>1, CoalescedRows
  <2>2. QED
    BY <1>1, <2>1, SettledRow DEF NoStart, NoSuccess, LiveKept, Pending
<1>4. QED
  BY <1>2, <1>3 DEF Enqueue

\* A claim starts one attempt, or none, and leaves live leases alone.
LEMMA ClaimOutcome ==
    ASSUME Inv, NEW lag \in 0 .. Lag, NEW o \in Owners, Claim(o, lag)
    PROVE  /\ \A i \in Ids : NoSuccess(i) /\ LiveKept(i)
           /\ \A i \in Ids : NoStart(i) \/ Given(i, o)
           /\ \A i \in Ids : row'[i].attempt = row[i].attempt + 1 => Given(i, o)
           /\ \A i, j \in Ids : ~ NoStart(i) /\ ~ NoStart(j) => i = j
           /\ \A i \in Ids : ~ NoStart(i) => row'[i].attempt = row[i].attempt + 1
<1> DEFINE t == Reconciled(lag)
<1>1. t \in [Ids -> Row] /\ \A i \in Ids : ReconcileMove(i, lag)
  BY ReconciledRows
<1>2. row \in [Ids -> Row] /\ \A i \in Ids : row[i].attempt \in Nat
  BY DEF Inv, TypeOK, Row
<1>3. \A i \in Ids : row[i].left \in Int
  BY <1>2, BoundAssumption DEF Row, Expired
<1>4. ASSUME NEW i \in Ids
      PROVE  /\ t[i].attempt = row[i].attempt
             /\ t[i].state = "running" => t[i] = row[i]
             /\ t[i].state = "succeeded" => t[i] = row[i]
             /\ row[i].state = "running" /\ row[i].left >= 0 => t[i] = row[i]
  BY <1>1, <1>3, BoundAssumption DEF ReconcileMove, Pending
<1> HIDE DEF t
<1>5. CASE row' = t
  BY <1>2, <1>4, <1>5 DEF NoStart, NoSuccess, LiveKept
<1>6. ASSUME NEW k \in Foremost(Claimable(t, o, lag)),
             row' = [t EXCEPT ![k] = Leased(t[k], o, lag)]
      PROVE  /\ \A i \in Ids : NoSuccess(i) /\ LiveKept(i)
             /\ \A i \in Ids : NoStart(i) \/ Given(i, o)
             /\ \A i \in Ids : row'[i].attempt = row[i].attempt + 1 => Given(i, o)
             /\ \A i, j \in Ids : ~ NoStart(i) /\ ~ NoStart(j) => i = j
             /\ \A i \in Ids : ~ NoStart(i) => row'[i].attempt = row[i].attempt + 1
  <2>1. k \in Ids /\ t[k].state = "queued" /\ t[k] \in Row
    BY <1>1, <1>6 DEF Foremost, Claimable
  <2>2. row'[k] = Leased(t[k], o, lag) /\ \A i \in Ids \ {k} : row'[i] = t[i]
    BY <1>1, <1>6, <2>1
  <2>3. /\ row'[k].state = "running" /\ row'[k].owner = o
        /\ row'[k].attempt = t[k].attempt + 1
    BY <2>1, <2>2, LeasedRow
  <2>4. row'[k].left >= LeaseTicks - Lag
    <3>1. Leased(t[k], o, lag).left = LeaseTicks - lag
      BY <2>1 DEF Leased, Row
    <3>2. QED
      BY <2>2, <3>1, BoundAssumption
  <2>5. Given(k, o)
    BY <1>4, <2>1, <2>3, <2>4 DEF Given
  <2>6. NoSuccess(k) /\ LiveKept(k)
    <3>1. ~ (row[k].state = "running" /\ row[k].left >= 0)
      BY <1>4, <2>1
    <3>2. QED
      BY <2>3, <3>1 DEF NoSuccess, LiveKept
  <2>7. ASSUME NEW i \in Ids, i # k
        PROVE  NoStart(i) /\ NoSuccess(i) /\ LiveKept(i) /\ row'[i].attempt = row[i].attempt
    BY <1>4, <2>2, <2>7 DEF NoStart, NoSuccess, LiveKept
  <2>8. \A i \in Ids : row'[i].attempt = row[i].attempt + 1 => i = k
    BY <1>2, <2>7
  <2>9. QED
    BY <2>5, <2>6, <2>7, <2>8 DEF Given
<1>7. QED
  BY <1>5, <1>6 DEF Claim, t

LEMMA HeartbeatQuiet ==
    ASSUME Inv, NEW lag \in 0 .. Lag, NEW o \in Owners, NEW k \in Ids, Heartbeat(o, k, lag)
    PROVE  /\ \A i \in Ids : NoStart(i) /\ NoSuccess(i)
           /\ \A i \in Ids \ {k} : row'[i] = row[i]
           /\ row'[k].state = "running" /\ row'[k].owner = o
           /\ row'[k].attempt = row[k].attempt /\ row'[k].left >= LeaseTicks - Lag
<1>1. row \in [Ids -> Row]
  BY DEF Inv, TypeOK
<1>2. /\ row' = [row EXCEPT ![k] = [row[k] EXCEPT !.left = LeaseTicks - lag]]
      /\ row[k].state = "running" /\ row[k].owner = o
  BY DEF Heartbeat, Owns
<1>3. /\ row'[k] = [row[k] EXCEPT !.left = LeaseTicks - lag] /\ row[k] \in Row
      /\ \A i \in Ids \ {k} : row'[i] = row[i]
  BY <1>1, <1>2
<1>4. /\ row'[k].state = "running" /\ row'[k].owner = o
      /\ row'[k].attempt = row[k].attempt /\ row'[k].left = LeaseTicks - lag
  BY <1>2, <1>3 DEF Row
<1>5. LeaseTicks - lag >= LeaseTicks - Lag
  BY BoundAssumption
<1>6. QED
  BY <1>2, <1>3, <1>4, <1>5 DEF NoStart, NoSuccess

LEMMA FailQuiet ==
    ASSUME Inv, NEW lag \in 0 .. Lag, NEW o \in Owners, NEW k \in Ids,
           NEW retry \in BOOLEAN, Fail(o, k, retry, lag)
    PROVE  /\ \A i \in Ids : NoStart(i) /\ NoSuccess(i)
           /\ \A i \in Ids \ {k} : row'[i] = row[i]
           /\ row[k].owner = o
<1>1. row \in [Ids -> Row] /\ {"retry_wait", "failed"} \subseteq States
  BY DEF Inv, TypeOK, States, Pending, Terminal, Lost
<1>2. row[k].owner = o
  BY DEF Fail, Owns
<1>3. \A i \in Ids \ {k} : row'[i] = row[i]
  BY <1>1 DEF Fail
<1>4. row'[k].state \in {"retry_wait", "failed"}
  <2>1. Settled(row[k], "retry_wait").state = "retry_wait"
        /\ Settled(row[k], "retry_wait") \in Row
        /\ Settled(row[k], "failed").state = "failed"
    BY <1>1, SettledRow
  <2>2. CASE row'[k] = Settled(row[k], "failed")
    BY <2>1, <2>2
  <2>3. CASE row'[k] = [Settled(row[k], "retry_wait")
                            EXCEPT !.wait = Backoff(row[k].attempt) - lag]
    BY <2>1, <2>3 DEF Row
  <2>4. QED
    BY <1>1, <2>2, <2>3 DEF Fail
<1>5. QED
  BY <1>2, <1>3, <1>4 DEF NoStart, NoSuccess

LEMMA SucceedEffect ==
    ASSUME Inv, NEW lag \in 0 .. Lag, NEW o \in Owners, NEW k \in Ids, NEW output,
           Succeed(o, k, output, lag)
    PROVE  /\ \A i \in Ids : NoStart(i)
           /\ \A i \in Ids \ {k} : row'[i] = row[i]
           /\ row[k].state = "running" /\ row[k].owner = o
           /\ row'[k].output = output /\ row'[k].attempt = row[k].attempt
<1>1. row \in [Ids -> Row] /\ "succeeded" \in States
  BY DEF Inv, TypeOK, States, Terminal
<1>2. /\ row[k].state = "running" /\ row[k].owner = o
      /\ row' = [row EXCEPT ![k] = [Settled(row[k], "succeeded") EXCEPT !.output = output]]
  BY DEF Succeed, Owns
<1>3. /\ Settled(row[k], "succeeded") \in Row
      /\ Settled(row[k], "succeeded").state = "succeeded"
      /\ Settled(row[k], "succeeded").attempt = row[k].attempt
  BY <1>1, SettledRow
<1>4. /\ row'[k] = [Settled(row[k], "succeeded") EXCEPT !.output = output]
      /\ \A i \in Ids \ {k} : row'[i] = row[i]
  BY <1>1, <1>2
<1>5. /\ row'[k].state = "succeeded" /\ row'[k].output = output
      /\ row'[k].attempt = row[k].attempt
  BY <1>3, <1>4 DEF Row
<1>6. QED
  BY <1>2, <1>4, <1>5 DEF NoStart

LEMMA TickQuiet ==
    ASSUME Inv, Tick, NEW i \in Ids
    PROVE  /\ NoStart(i) /\ NoSuccess(i)
           /\ row'[i].state = row[i].state /\ row'[i].owner = row[i].owner
           /\ row'[i].attempt = row[i].attempt
           /\ row[i].state = "running" => row'[i].left >= row[i].left - 1
<1> DEFINE u == IF row[i].state # "running" \/ row[i].left = Expired
                THEN row[i].left ELSE row[i].left - 1
           w == IF row[i].wait = Due THEN Due ELSE row[i].wait - 1
<1>1. row[i] \in Row /\ row'[i] = [row[i] EXCEPT !.left = u, !.wait = w]
  BY DEF Inv, TypeOK, Tick
<1>2. row[i].left \in Int
  BY <1>1, BoundAssumption DEF Row, Expired
<1>3. u >= row[i].left - 1
  BY <1>2
<1> HIDE DEF u, w
<1>4. /\ row'[i].state = row[i].state /\ row'[i].owner = row[i].owner
      /\ row'[i].attempt = row[i].attempt /\ row'[i].output = row[i].output
      /\ row'[i].left = u
  BY <1>1 DEF Row
<1>5. QED
  BY <1>3, <1>4 DEF NoStart, NoSuccess

----------------------------------------------------------------------------
(* Lane workers: the inductive invariant.  WorkersInv needs nothing of the *)
(* lease's length; Held is what the length of the lease adds.              *)

Busy == Steps \ {"off", "idle", "poll", "gone"}

\* A worker without a job is as it was launched; one with a job has a keeper.
AtRest == \A o \in Owners : worker[o].step \notin Busy => worker[o] = Resting(worker[o].step)
HasJob == \A o \in Owners : worker[o].step \in Busy => worker[o].job \in Ids
                                                     /\ worker[o].keeper # "off"

\* A row that still says that o holds it is in the attempt o works at.
SameTry == \A o \in Owners :
              /\ worker[o].step \in Busy
              /\ row[worker[o].job].state = "running" /\ row[worker[o].job].owner = o
              => row[worker[o].job].attempt = worker[o].try

\* A command is the one its worker looks after, or its worker is gone.
Watched == \A c \in commands :
              \/ worker[c.owner].step = "gone"
              \/ worker[c.owner].step \in {"run", "kill"} /\ c = Command(c.owner)

\* What a worker is about to accept is in the store.
Delivered == \A o \in Owners : worker[o].step = "accept"
                              => <<worker[o].job, worker[o].try>> \in published

\* A generation starts with nothing.
NotYet == \A g \in 1 .. Generations :
              supervisor[g] = "off" => \A o \in Crew(g) : worker[o].step = "off"

WorkersInv == /\ Inv /\ WorkersTypeOK
              /\ AtRest /\ HasJob /\ SameTry /\ Watched /\ Delivered /\ NotYet
              /\ OutputOfLastAttempt

\* A worker that has not noticed the loss of its lease has not lost it.
HeldBy(o) == worker[o].keeper = "on"
             => LET r == row[worker[o].job]
                IN /\ r.state = "running" /\ r.owner = o
                   /\ r.left >= LeaseTicks - Lag - worker[o].since

Held == \A o \in Owners : HeldBy(o)

\* What a step of worker o, or of its keeper, has to establish.
LEMMA LaneFrame ==
    ASSUME WorkersInv, Inv', UNCHANGED superVars,
           NEW o \in Owners, worker[o].step # "off",
           worker' \in [Owners -> Worker], \A p \in Owners \ {o} : worker'[p] = worker[p],
           worker'[o].step \notin Busy => worker'[o] = Resting(worker'[o].step),
           worker'[o].step \in Busy => worker'[o].job \in Ids /\ worker'[o].keeper # "off",
           /\ worker'[o].step \in Busy
           /\ row'[worker'[o].job].state = "running" /\ row'[worker'[o].job].owner = o
           => row'[worker'[o].job].attempt = worker'[o].try,
           worker'[o].step = "accept" => <<worker'[o].job, worker'[o].try>> \in published',
           published \subseteq published', published' \subseteq Ids \X Nat,
           commands' \subseteq [owner : Owners, job : Ids, try : Nat],
           \A c \in commands' :
              IF c.owner = o
              THEN \/ worker'[o].step = "gone"
                   \/ worker'[o].step \in {"run", "kill"} /\ c = Command(o)'
              ELSE c \in commands,
           \A i \in Ids : NoStart(i) \/ Given(i, o),
           \A i \in Ids : \/ NoSuccess(i)
                          \/ row'[i].output = row'[i].attempt
                             /\ <<i, row'[i].attempt>> \in published'
    PROVE  WorkersInv'
<1>1. WorkersTypeOK'
  BY DEF WorkersInv, WorkersTypeOK, Inv, superVars
<1>2. AtRest' /\ HasJob' /\ Delivered'
  <2>1. \A p \in Owners : p # o => worker'[p] = worker[p]
    OBVIOUS
  <2>2. AtRest'
    BY <2>1 DEF WorkersInv, AtRest, Busy, Steps, Resting
  <2>3. HasJob'
    BY <2>1 DEF WorkersInv, HasJob, Busy, Steps
  <2>4. Delivered'
    BY <2>1 DEF WorkersInv, Delivered
  <2>5. QED
    BY <2>2, <2>3, <2>4
<1>3. SameTry'
  <2>1. ASSUME NEW p \in Owners, p # o, worker'[p].step \in Busy,
               row'[worker'[p].job].state = "running", row'[worker'[p].job].owner = p
        PROVE  row'[worker'[p].job].attempt = worker'[p].try
    <3>1. worker'[p] = worker[p] /\ worker[p].job \in Ids
      BY <2>1 DEF WorkersInv, HasJob
    <3>2. NoStart(worker[p].job)
      BY <2>1, <3>1 DEF Given
    <3>3. QED
      BY <2>1, <3>1, <3>2 DEF NoStart, WorkersInv, SameTry
  <2>2. QED
    BY <2>1 DEF SameTry, Busy
<1>4. Watched'
  <2>1. ASSUME NEW c \in commands', c.owner # o
        PROVE  \/ worker'[c.owner].step = "gone"
               \/ worker'[c.owner].step \in {"run", "kill"} /\ c = Command(c.owner)'
    <3>1. c \in commands /\ c.owner \in Owners
      BY <2>1
    <3>2. worker'[c.owner] = worker[c.owner]
      BY <2>1, <3>1
    <3>3. QED
      BY <3>1, <3>2 DEF WorkersInv, Watched, Command
  <2>2. QED
    BY <2>1 DEF Watched
<1>5. NotYet'
  <2>1. UNCHANGED supervisor /\ \A g : Crew(g) \subseteq Owners
    BY DEF superVars, Crew
  <2>2. QED
    BY <2>1 DEF WorkersInv, NotYet, Crew
<1>6. OutputOfLastAttempt'
  BY DEF WorkersInv, OutputOfLastAttempt, NoSuccess
<1>7. QED
  BY <1>1, <1>2, <1>3, <1>4, <1>5, <1>6 DEF WorkersInv

\* What the type invariant says of supervisors and launcher.
SuperTypes ==
    /\ supervisor \in [1 .. Generations -> Running \cup {"off", "stopped", "failed"}]
    /\ stop \in [1 .. Generations -> BOOLEAN]
    /\ launcher \in {"none", "watching", "done", "refused"}

\* What a step that leaves the workers alone has to establish.
LEMMA WorldFrame ==
    ASSUME WorkersInv, Inv', UNCHANGED <<worker, published, forked>>,
           commands' \subseteq commands,
           SuperTypes',
           \A g \in 1 .. Generations : supervisor'[g] = "off" => supervisor[g] = "off",
           \A i \in Ids : NoStart(i) /\ NoSuccess(i)
    PROVE  WorkersInv'
<1>1. WorkersTypeOK'
  BY DEF WorkersInv, WorkersTypeOK, Inv, SuperTypes
<1>2. AtRest' /\ HasJob' /\ Delivered'
  BY DEF WorkersInv, AtRest, HasJob, Delivered
<1>3. SameTry'
  BY DEF WorkersInv, SameTry, HasJob, NoStart
<1>4. Watched'
  BY DEF WorkersInv, Watched, Command
<1>5. NotYet'
  BY DEF WorkersInv, NotYet, Crew
<1>6. OutputOfLastAttempt'
  BY DEF WorkersInv, OutputOfLastAttempt, NoSuccess
<1>7. QED
  BY <1>1, <1>2, <1>3, <1>4, <1>5, <1>6 DEF WorkersInv

LEMMA RestingType ==
    ASSUME NEW s \in Steps
    PROVE  Resting(s) \in Worker /\ Resting(s).step = s /\ Resting(s).keeper = "off"
<1>1. 0 \in 0 .. BeatInterval + Lag
  BY BeatAssumption, BoundAssumption
<1>2. QED
  BY <1>1 DEF Resting, Worker

\* The effect of the three ways in which a worker moves on.
LEMMA GoesEffect ==
    ASSUME worker \in [Owners -> Worker], NEW o \in Owners, NEW s \in Steps, Goes(o, s)
    PROVE  /\ worker' \in [Owners -> Worker] /\ \A p \in Owners \ {o} : worker'[p] = worker[p]
           /\ worker'[o] = [worker[o] EXCEPT !.step = s]
           /\ worker'[o].step = s /\ worker'[o].job = worker[o].job
           /\ worker'[o].try = worker[o].try /\ worker'[o].keeper = worker[o].keeper
           /\ worker'[o].since = worker[o].since /\ worker'[o].retry = worker[o].retry
<1>1. worker[o] \in Worker /\ worker'[o] = [worker[o] EXCEPT !.step = s]
  BY DEF Goes
<1>2. [worker[o] EXCEPT !.step = s] \in Worker
  BY <1>1 DEF Worker
<1>3. QED
  BY <1>1, <1>2 DEF Goes, Worker

LEMMA SwitchEffect ==
    ASSUME worker \in [Owners -> Worker], NEW o \in Owners, NEW s \in Steps, NEW b \in BOOLEAN,
           worker' = [worker EXCEPT ![o].step = s, ![o].retry = b]
    PROVE  /\ worker' \in [Owners -> Worker] /\ \A p \in Owners \ {o} : worker'[p] = worker[p]
           /\ worker'[o].step = s /\ worker'[o].job = worker[o].job
           /\ worker'[o].try = worker[o].try /\ worker'[o].keeper = worker[o].keeper
           /\ worker'[o].since = worker[o].since /\ worker'[o].retry = b
<1>1. worker[o] \in Worker /\ worker'[o] = [worker[o] EXCEPT !.step = s, !.retry = b]
  OBVIOUS
<1>2. [worker[o] EXCEPT !.step = s, !.retry = b] \in Worker
  BY <1>1 DEF Worker
<1>3. QED
  BY <1>1, <1>2 DEF Worker

LEMMA RestsEffect ==
    ASSUME worker \in [Owners -> Worker], NEW o \in Owners, NEW s \in Steps, Rests(o, s)
    PROVE  /\ worker' \in [Owners -> Worker] /\ \A p \in Owners \ {o} : worker'[p] = worker[p]
           /\ worker'[o] = Resting(s) /\ worker'[o].step = s
BY RestingType DEF Rests

\* A worker goes from one step of its job to another, and the queue stands still.
LEMMA Advance ==
    ASSUME WorkersInv, Inv', UNCHANGED <<vars, superVars>>,
           NEW o \in Owners, worker[o].step \in Busy, NEW s \in Busy,
           worker' \in [Owners -> Worker], \A p \in Owners \ {o} : worker'[p] = worker[p],
           worker'[o].step = s, worker'[o].job = worker[o].job,
           worker'[o].try = worker[o].try, worker'[o].keeper # "off",
           published \subseteq published', published' \subseteq Ids \X Nat,
           commands' \subseteq [owner : Owners, job : Ids, try : Nat],
           \A c \in commands' : IF c.owner = o THEN s \in {"run", "kill"} /\ c = Command(o)
                                               ELSE c \in commands,
           s = "accept" => <<worker[o].job, worker[o].try>> \in published'
    PROVE  WorkersInv'
<1>1. worker[o].step # "off" /\ UNCHANGED <<row, superVars>>
  BY DEF Busy, vars
<1>2. \A i \in Ids : NoStart(i) /\ NoSuccess(i)
  BY <1>1 DEF NoStart, NoSuccess
<1>3. worker[o].job \in Ids
  BY DEF WorkersInv, HasJob
<1>4. Command(o)' = Command(o)
  BY DEF Command
<1>5. /\ row'[worker'[o].job].state = "running" /\ row'[worker'[o].job].owner = o
      => row'[worker'[o].job].attempt = worker'[o].try
  BY <1>1 DEF WorkersInv, SameTry
<1>6. UNCHANGED superVars
  BY <1>1
<1>7. QED
  BY <1>1, <1>2, <1>3, <1>4, <1>5, <1>6, LaneFrame DEF Busy

\* A worker leaves its job.
LEMMA Release ==
    ASSUME WorkersInv, Inv', UNCHANGED <<published, superVars>>,
           NEW o \in Owners, worker[o].step # "off", NEW s \in {"idle", "gone"}, Rests(o, s),
           commands' \subseteq commands,
           s # "gone" => \A c \in commands' : c.owner # o,
           \A i \in Ids : NoStart(i),
           \A i \in Ids : \/ NoSuccess(i)
                          \/ row'[i].output = row'[i].attempt
                             /\ <<i, row'[i].attempt>> \in published
    PROVE  WorkersInv'
<1>1. s \in Steps /\ s \notin Busy /\ worker \in [Owners -> Worker]
  BY DEF Steps, Busy, WorkersInv, WorkersTypeOK
<1>2. /\ worker' \in [Owners -> Worker] /\ \A p \in Owners \ {o} : worker'[p] = worker[p]
      /\ worker'[o] = Resting(s) /\ worker'[o].step = s
  BY <1>1, RestsEffect
<1>3. published \subseteq Ids \X Nat /\ commands \subseteq [owner : Owners, job : Ids, try : Nat]
  BY DEF WorkersInv, WorkersTypeOK
<1>4. UNCHANGED superVars /\ published' = published
  OBVIOUS
<1>5. QED
  BY <1>1, <1>2, <1>3, <1>4, LaneFrame DEF Busy
----------------------------------------------------------------------------
(* Lane workers: every step is one of the queue, or leaves it alone.       *)

\* A worker that still owns its job works at its last attempt.
LEMMA OwnedTry ==
    ASSUME WorkersInv, NEW o \in Owners, worker[o].step \in Busy, NEW lag,
           OwnsItsJob(o, lag)
    PROVE  /\ worker[o].job \in Ids
           /\ row[worker[o].job].attempt = worker[o].try /\ worker[o].try \in Outputs
<1> DEFINE i == worker[o].job
<1>1. i \in Ids /\ row[i].state = "running" /\ row[i].owner = o
  BY DEF WorkersInv, HasJob, OwnsItsJob, Owns
<1>2. row[i].attempt = worker[o].try
  BY <1>1 DEF WorkersInv, SameTry
<1>3. i \in Existing /\ request[i] \in Requests
  BY <1>1 DEF WorkersInv, Inv, Recorded, Existing
<1>4. row[i].attempt > 0 /\ row[i].attempt <= request[i].max /\ row[i].attempt \in Nat
  BY <1>1, <1>3 DEF WorkersInv, Inv, Charged, AttemptBudget, TypeOK, Row
<1>5. request[i].max \in Nat
  BY <1>3, RequestAssumption
<1>6. row[i].attempt \in 1 .. request[i].max
  BY <1>4, <1>5
<1>7. QED
  BY <1>1, <1>2, <1>3, <1>6, OutputAssumption

LEMMA KeeperHasJob ==
    ASSUME WorkersInv, NEW o \in Owners, worker[o].keeper # "off"
    PROVE  worker[o].step \in Busy /\ worker[o].job \in Ids
<1>1. worker[o].step \in Steps
  BY DEF WorkersInv, WorkersTypeOK, Worker
<1>2. Resting(worker[o].step).keeper = "off"
  BY DEF Resting
<1>3. QED
  BY <1>1, <1>2 DEF WorkersInv, AtRest, HasJob

LEMMA WorkersStepOfQueue == ASSUME WorkersInv, [WorkersNext]_allVars PROVE [Next]_vars
<1>1. CASE UNCHANGED allVars
  BY <1>1 DEF allVars
<1>2. ASSUME NEW lag \in 0 .. Lag, Stats(lag) PROVE [Next]_vars
  BY <1>2 DEF Stats, Next
<1>3. ASSUME NEW lag \in 0 .. Lag, NEW r \in Requests, NEW deps \in SUBSET Ids,
             Submit(r, deps, lag)
      PROVE  [Next]_vars
  BY <1>3 DEF Submit, Next, Enqueue
<1>4. ASSUME NEW o \in Owners, NEW lag \in 0 .. Lag, ClaimJob(o, lag) PROVE [Next]_vars
  BY <1>4 DEF ClaimJob, Next
<1>5. ASSUME NEW o \in Owners, NEW lag \in 0 .. Lag, NEW retry \in BOOLEAN,
             worker[o].step \in Busy, Fail(o, worker[o].job, retry, lag)
      PROVE  [Next]_vars
  <2>1. worker[o].job \in Ids
    BY <1>5 DEF WorkersInv, HasJob
  <2>2. QED
    BY <1>5, <2>1 DEF Next, Report
<1>6. ASSUME NEW o \in Owners, NEW lag \in 0 .. Lag,
             Refuse(o, lag) \/ ReportFailure(o, lag) \/ ReportError(o, lag)
      PROVE  [Next]_vars
  <2>1. worker[o].step \in Busy /\ worker[o].retry \in BOOLEAN
    BY <1>6 DEF Refuse, ReportFailure, ReportError, Busy, Steps, WorkersInv, WorkersTypeOK,
                Worker
  <2>2. FALSE \in BOOLEAN
    OBVIOUS
  <2>3. QED
    BY <1>5, <1>6, <2>1, <2>2 DEF Refuse, ReportFailure, ReportError
<1>7. ASSUME NEW o \in Owners, NEW lag \in 0 .. Lag, Accept(o, lag) PROVE [Next]_vars
  <2>1. CASE UNCHANGED vars
    BY <2>1
  <2>2. CASE Succeed(o, worker[o].job, worker[o].try, lag)
    <3>1. worker[o].step \in Busy /\ OwnsItsJob(o, lag)
      BY <1>7, <2>2 DEF Accept, Busy, Steps, Succeed, OwnsItsJob
    <3>2. worker[o].job \in Ids /\ worker[o].try \in Outputs \cup {NoOutput}
      BY <3>1, OwnedTry
    <3>3. QED
      BY <2>2, <3>2 DEF Next, Report
  <2>3. QED
    BY <1>7, <2>1, <2>2 DEF Accept
<1>8. ASSUME NEW o \in Owners, NEW lag \in 0 .. Lag, Beat(o, lag) PROVE [Next]_vars
  <2>1. worker[o].job \in Ids
    BY <1>8, KeeperHasJob DEF Beat
  <2>2. QED
    BY <1>8, <2>1 DEF Beat, Next
<1>9. CASE Pass
  BY <1>9 DEF Pass, Next
<1>10. ASSUME NEW o \in Owners,
              \/ Poll(o) \/ Spawn(o) \/ SpawnError(o) \/ BeginKill(o) \/ Killed(o)
              \/ Publish(o) \/ CommandExit(o) \/ BeatError(o) \/ WorkerCrash(o)
       PROVE  [Next]_vars
  BY <1>10 DEF Poll, Spawn, SpawnError, BeginKill, Killed, Publish, CommandExit, BeatError,
               WorkerCrash
<1>11. ASSUME NEW c \in commands, OrphanExit(c) PROVE [Next]_vars
  BY <1>11 DEF OrphanExit
<1>12. ASSUME NEW g \in 1 .. Generations,
              \/ SupervisorStep(g) \/ RequestStop(g) \/ SupervisorCrash(g)
              \/ StartRole(g) \/ RestartRole(g)
       PROVE  [Next]_vars
  <2>1. Launch(g) => UNCHANGED vars
    BY DEF Launch
  <2>2. StartRole(g) \/ RestartRole(g) => UNCHANGED vars
    <3>1. StartRole(g) => Launch(g)
      BY DEF StartRole
    <3>2. RestartRole(g) => Launch(g) \/ UNCHANGED vars
      BY SMT DEF RestartRole
    <3>3. QED
      BY <2>1, <3>1, <3>2
  <2>3. SupervisorStep(g) \/ RequestStop(g) \/ SupervisorCrash(g) => UNCHANGED vars
    BY DEF SupervisorStep, BeginStop, FinishStop, RequestStop, SupervisorCrash
  <2>4. QED
    BY <1>12, <2>2, <2>3
<1>13. QED
  BY <1>1, <1>2, <1>3, <1>4, <1>6, <1>7, <1>8, <1>9, <1>10, <1>11, <1>12
     DEF WorkersNext, LaneStep, KeeperStep

----------------------------------------------------------------------------
(* Lane workers: the steps preserve WorkersInv.                            *)

\* What the type invariant says of one worker.
LEMMA WorkerFacts ==
    ASSUME WorkersInv, NEW o \in Owners
    PROVE  /\ worker \in [Owners -> Worker] /\ worker[o] \in Worker
           /\ worker[o].step \in Steps /\ worker[o].try \in Nat
           /\ published \subseteq Ids \X Nat
           /\ commands \subseteq [owner : Owners, job : Ids, try : Nat]
           /\ worker[o].step \in Busy => worker[o].job \in Ids /\ worker[o].keeper # "off"
BY DEF WorkersInv, WorkersTypeOK, Worker, HasJob

\* At most one command belongs to a worker that lives.
LEMMA OneCommand ==
    ASSUME WorkersInv, NEW c \in commands, worker[c.owner].step # "gone"
    PROVE  worker[c.owner].step \in {"run", "kill"} /\ c = Command(c.owner)
BY DEF WorkersInv, Watched

LEMMA PollStep == ASSUME WorkersInv, Inv', NEW o \in Owners, Poll(o) PROVE WorkersInv'
<1>1. worker[o].step = "idle" /\ UNCHANGED <<row, commands, published, superVars>>
  BY DEF Poll, vars
<1>2. \A i \in Ids : NoStart(i) /\ NoSuccess(i)
  BY <1>1 DEF NoStart, NoSuccess
<1>3. CASE Rests(o, "gone")
  BY <1>1, <1>2, <1>3, Release
<1>4. CASE Goes(o, "poll")
  <2>1. "poll" \in Steps \ Busy /\ worker[o] = Resting("idle")
    BY <1>1, WorkerFacts DEF Steps, Busy, WorkersInv, AtRest
  <2>2. /\ worker' \in [Owners -> Worker] /\ \A p \in Owners \ {o} : worker'[p] = worker[p]
        /\ worker'[o] = [worker[o] EXCEPT !.step = "poll"] /\ worker'[o].step = "poll"
    BY <1>4, <2>1, WorkerFacts, GoesEffect
  <2>3. worker'[o] = Resting("poll")
    <3>1. worker'[o] = [Resting("idle") EXCEPT !.step = "poll"]
      BY <2>1, <2>2
    <3>2. QED
      BY <3>1 DEF Resting
  <2>4. \A c \in commands : c.owner # o
    BY <1>1, OneCommand
  <2>5. UNCHANGED superVars /\ commands' = commands /\ published' = published
    BY <1>1
  <2>6. /\ published \subseteq Ids \X Nat /\ "poll" # "accept"
        /\ commands \subseteq [owner : Owners, job : Ids, try : Nat]
    BY WorkerFacts
  <2>7. QED
    BY <1>1, <1>2, <2>1, <2>2, <2>3, <2>4, <2>5, <2>6, LaneFrame
<1>5. QED
  BY <1>3, <1>4 DEF Poll

LEMMA ClaimJobStep ==
    ASSUME WorkersInv, Inv', NEW o \in Owners, NEW lag \in 0 .. Lag, ClaimJob(o, lag)
    PROVE  WorkersInv'
<1> DEFINE mine == {i \in Ids : row'[i].owner = o /\ row'[i].attempt = row[i].attempt + 1}
<1>1. worker[o].step = "poll" /\ UNCHANGED <<commands, published, superVars>> /\ Inv
  BY DEF ClaimJob, WorkersInv
<1>2. /\ \A i \in Ids : NoSuccess(i)
      /\ \A i \in Ids : NoStart(i) \/ Given(i, o)
      /\ \A i \in Ids : row'[i].attempt = row[i].attempt + 1 => Given(i, o)
  BY <1>1, ClaimOutcome DEF ClaimJob
<1>3. \A c \in commands : c.owner # o
  BY <1>1, OneCommand
<1>4. UNCHANGED superVars /\ commands' = commands /\ published' = published
  BY <1>1
<1>5. CASE Goes(o, "idle")
  <2>1. "idle" \in Steps \ Busy /\ worker[o] = Resting("poll")
    BY <1>1, WorkerFacts DEF Steps, Busy, WorkersInv, AtRest
  <2>2. /\ worker' \in [Owners -> Worker] /\ \A p \in Owners \ {o} : worker'[p] = worker[p]
        /\ worker'[o] = [worker[o] EXCEPT !.step = "idle"] /\ worker'[o].step = "idle"
    BY <1>5, <2>1, WorkerFacts, GoesEffect
  <2>3. worker'[o] = Resting("idle")
    <3>1. worker'[o] = [Resting("poll") EXCEPT !.step = "idle"]
      BY <2>1, <2>2
    <3>2. QED
      BY <3>1 DEF Resting
  <2>4. /\ published \subseteq Ids \X Nat /\ "idle" # "accept"
        /\ commands \subseteq [owner : Owners, job : Ids, try : Nat]
    BY WorkerFacts
  <2>5. QED
    BY <1>1, <1>2, <1>3, <1>4, <2>1, <2>2, <2>3, <2>4, LaneFrame
<1>6. ASSUME NEW i \in mine,
             worker' = [worker EXCEPT ![o] = [Resting("prepare") EXCEPT
                            !.job = i, !.try = row'[i].attempt, !.keeper = "on"]]
      PROVE  WorkersInv'
  <2> DEFINE w == [Resting("prepare") EXCEPT !.job = i, !.try = row'[i].attempt,
                                             !.keeper = "on"]
  <2>1. i \in Ids /\ Given(i, o) /\ row'[i].attempt \in Nat
    BY <1>2 DEF Inv, TypeOK, Row
  <2>2. Resting("prepare") \in Worker /\ "prepare" \in Steps
    BY RestingType DEF Steps
  <2>3. /\ w \in Worker /\ w.step = "prepare" /\ w.job = i /\ w.keeper = "on"
        /\ w.try = row'[i].attempt
    BY <2>1, <2>2 DEF Worker, Resting
  <2> HIDE DEF w
  <2>4. /\ worker' \in [Owners -> Worker] /\ worker'[o] = w
        /\ \A p \in Owners \ {o} : worker'[p] = worker[p]
    BY <1>6, <2>3, WorkerFacts DEF w
  <2>5. "prepare" \in Busy
    BY DEF Busy, Steps
  <2>6. QED
    BY <1>1, <1>2, <1>3, <1>4, <2>1, <2>3, <2>4, <2>5, WorkerFacts, LaneFrame
<1>7. QED
  BY <1>5, <1>6 DEF ClaimJob

LEMMA AdvanceSteps ==
    ASSUME WorkersInv, Inv', NEW o \in Owners,
           Spawn(o) \/ SpawnError(o) \/ BeginKill(o) \/ CommandExit(o)
    PROVE  WorkersInv'
<1>1. /\ worker[o].step \in Busy /\ {"run", "error", "publish", "fail", "kill"} \subseteq Busy
      /\ UNCHANGED <<vars, superVars>> /\ published' = published /\ Busy \subseteq Steps
  BY DEF Spawn, SpawnError, BeginKill, CommandExit, Busy, Steps
<1>2. /\ worker[o].job \in Ids /\ worker[o].keeper # "off" /\ worker \in [Owners -> Worker]
      /\ published \subseteq published' /\ published' \subseteq Ids \X Nat
      /\ commands \subseteq [owner : Owners, job : Ids, try : Nat]
  BY <1>1, WorkerFacts
<1>3. \A c \in commands : c.owner = o => worker[o].step \in {"run", "kill"} /\ c = Command(o)
  BY <1>1, OneCommand DEF Busy
<1>4. Command(o) \in [owner : Owners, job : Ids, try : Nat]
  BY <1>2, WorkerFacts DEF Command
<1>5. ASSUME NEW s \in Busy \ {"accept"},
             Goes(o, s) \/ \E b \in BOOLEAN : worker' = [worker EXCEPT ![o].step = s,
                                                                       ![o].retry = b],
             commands' \subseteq commands \cup {Command(o)},
             \A c \in commands' : c.owner = o => s \in {"run", "kill"}
      PROVE  WorkersInv'
  <2>0. s \in Busy /\ s \in Steps /\ s # "accept"
    BY <1>1, <1>5
  <2>1. /\ worker' \in [Owners -> Worker] /\ \A p \in Owners \ {o} : worker'[p] = worker[p]
        /\ worker'[o].step = s /\ worker'[o].job = worker[o].job
        /\ worker'[o].try = worker[o].try /\ worker'[o].keeper # "off"
    BY <2>0, <1>2, <1>5, GoesEffect, SwitchEffect
  <2>2. commands' \subseteq [owner : Owners, job : Ids, try : Nat]
    BY <1>2, <1>4, <1>5
  <2>3. \A c \in commands' : IF c.owner = o THEN s \in {"run", "kill"} /\ c = Command(o)
                                            ELSE c \in commands
    BY <1>3, <1>5 DEF Command
  <2>4. s = "accept" => <<worker[o].job, worker[o].try>> \in published'
    BY <2>0
  <2>5. UNCHANGED <<vars, superVars>> /\ published \subseteq published'
        /\ published' \subseteq Ids \X Nat /\ worker[o].step \in Busy
    BY <1>1, <1>2
  <2>6. QED
    BY <2>0, <2>1, <2>2, <2>3, <2>4, <2>5, Advance
<1>6. CASE Spawn(o)
  <2>1. commands' = commands \cup {Command(o)} /\ Goes(o, "run")
    BY <1>6 DEF Spawn
  <2>2. QED
    BY <1>1, <1>5, <2>1
<1>7. CASE SpawnError(o)
  <2>1. commands' = commands /\ worker[o].step = "prepare" /\ Goes(o, "error")
    BY <1>7 DEF SpawnError
  <2>2. \A c \in commands : c.owner # o
    BY <1>3, <2>1
  <2>3. "error" \in Busy \ {"accept"} /\ commands' \subseteq commands \cup {Command(o)}
        /\ \A c \in commands' : c.owner = o => "error" \in {"run", "kill"}
    BY <1>1, <2>1, <2>2
  <2>4. QED
    BY <1>5, <2>1, <2>3
<1>8. CASE BeginKill(o)
  <2>1. /\ \E b \in BOOLEAN : worker' = [worker EXCEPT ![o].step = "kill", ![o].retry = b]
        /\ commands' = commands
    BY <1>8 DEF BeginKill
  <2>2. QED
    BY <1>1, <1>5, <2>1
<1>9. CASE CommandExit(o)
  <2>1. /\ commands' = commands \ {Command(o)}
        /\ Goes(o, "publish") \/ \E b \in BOOLEAN : WillFail(o, b)
    BY <1>9 DEF CommandExit
  <2>2. \A c \in commands' : c.owner # o
    BY <1>3, <2>1
  <2>3. commands' \subseteq commands \cup {Command(o)} /\ {"publish", "fail"} \subseteq Busy
    BY <1>1, <2>1
  <2>4. CASE Goes(o, "publish")
    <3>1. "publish" \in Busy \ {"accept"}
          /\ \A c \in commands' : c.owner = o => "publish" \in {"run", "kill"}
      BY <2>2, <2>3
    <3>2. QED
      BY <1>5, <2>3, <2>4, <3>1
  <2>5. CASE \E b \in BOOLEAN : WillFail(o, b)
    <3>1. "fail" \in Busy \ {"accept"}
          /\ \A c \in commands' : c.owner = o => "fail" \in {"run", "kill"}
      BY <2>2, <2>3
    <3>2. QED
      BY <1>5, <2>3, <2>5, <3>1 DEF WillFail
  <2>6. QED
    BY <2>1, <2>4, <2>5
<1>10. QED
  BY <1>6, <1>7, <1>8, <1>9
\* A row that did not move neither started nor succeeded.
LEMMA StillRows == ASSUME UNCHANGED vars PROVE \A i \in Ids : NoStart(i) /\ NoSuccess(i)
BY DEF vars, NoStart, NoSuccess

\* A worker without a command on its hands lets its job go.
LEMMA LetGo ==
    ASSUME WorkersInv, Inv', NEW o \in Owners,
           worker[o].step \in Busy \ {"run", "kill"},
           UNCHANGED <<commands, published, superVars>>,
           NEW s \in {"idle", "gone"}, Rests(o, s),
           \A i \in Ids : NoStart(i) /\ NoSuccess(i)
    PROVE  WorkersInv'
<1>1. worker[o].step # "off" /\ \A c \in commands' : c.owner # o
  BY OneCommand DEF Busy
<1>2. UNCHANGED <<published, superVars>> /\ commands' \subseteq commands
  OBVIOUS
<1>3. QED
  BY <1>1, <1>2, Release

\* So does one that reports a failure.
LEMMA ReportedFailure ==
    ASSUME WorkersInv, Inv', NEW o \in Owners, NEW lag \in 0 .. Lag, NEW retry \in BOOLEAN,
           worker[o].step \in Busy \ {"run", "kill"},
           UNCHANGED <<commands, published, superVars>>,
           Rests(o, "idle"), Fail(o, worker[o].job, retry, lag)
    PROVE  WorkersInv'
<1>1. worker[o].job \in Ids /\ Inv
  BY WorkerFacts DEF WorkersInv
<1>2. \A i \in Ids : NoStart(i) /\ NoSuccess(i)
  BY <1>1, FailQuiet
<1>3. QED
  BY <1>2, LetGo

\* A worker that turns to the except clause.
LEMMA TurnsToError ==
    ASSUME WorkersInv, Inv', NEW o \in Owners,
           worker[o].step \in Busy \ {"run", "kill"},
           UNCHANGED <<vars, commands, published, superVars>>, Goes(o, "error")
    PROVE  WorkersInv'
<1>1. "error" \in Busy /\ "error" \in Steps /\ worker[o].step \in Busy
  BY DEF Busy, Steps
<1>2. /\ worker' \in [Owners -> Worker] /\ \A p \in Owners \ {o} : worker'[p] = worker[p]
      /\ worker'[o].step = "error" /\ worker'[o].job = worker[o].job
      /\ worker'[o].try = worker[o].try /\ worker'[o].keeper # "off"
  BY <1>1, WorkerFacts, GoesEffect
<1>3. \A c \in commands' : IF c.owner = o THEN "error" \in {"run", "kill"} /\ c = Command(o)
                                          ELSE c \in commands
  <2>1. \A c \in commands : c.owner # o
    BY OneCommand DEF Busy
  <2>2. QED
    BY <2>1
<1>4. /\ published \subseteq published' /\ published' \subseteq Ids \X Nat
      /\ commands' \subseteq [owner : Owners, job : Ids, try : Nat]
  BY WorkerFacts
<1>5. UNCHANGED <<vars, superVars>>
  OBVIOUS
<1>6. QED
  BY <1>1, <1>2, <1>3, <1>4, <1>5, Advance

LEMMA RefuseStep ==
    ASSUME WorkersInv, Inv', NEW o \in Owners, NEW lag \in 0 .. Lag, Refuse(o, lag)
    PROVE  WorkersInv'
<1>1. /\ worker[o].step \in Busy \ {"run", "kill"} /\ FALSE \in BOOLEAN
      /\ UNCHANGED <<commands, published, superVars>>
  BY DEF Refuse, Busy, Steps
<1>2. CASE Fail(o, worker[o].job, FALSE, lag) /\ Rests(o, "idle")
  BY <1>1, <1>2, ReportedFailure
<1>3. CASE Rests(o, "gone") /\ UNCHANGED vars
  BY <1>1, <1>3, StillRows, LetGo
<1>4. QED
  BY <1>2, <1>3 DEF Refuse

LEMMA KilledStep == ASSUME WorkersInv, Inv', NEW o \in Owners, Killed(o) PROVE WorkersInv'
<1>1. /\ worker[o].step = "kill" /\ worker[o].step \in Busy
      /\ UNCHANGED <<vars, superVars>> /\ published' = published
      /\ commands' = commands \ {Command(o)}
  BY DEF Killed, Busy, Steps
<1>2. \A c \in commands' : c.owner # o /\ c \in commands
  BY <1>1, OneCommand
<1>3. CASE Rests(o, "idle")
  BY <1>1, <1>2, <1>3, StillRows, Release
<1>4. CASE Goes(o, "fail")
  <2>1. "fail" \in Busy /\ "fail" \in Steps
    BY DEF Busy, Steps
  <2>2. /\ worker' \in [Owners -> Worker] /\ \A p \in Owners \ {o} : worker'[p] = worker[p]
        /\ worker'[o].step = "fail" /\ worker'[o].job = worker[o].job
        /\ worker'[o].try = worker[o].try /\ worker'[o].keeper # "off"
    BY <1>1, <1>4, <2>1, WorkerFacts, GoesEffect
  <2>3. \A c \in commands' : IF c.owner = o THEN "fail" \in {"run", "kill"} /\ c = Command(o)
                                            ELSE c \in commands
    BY <1>2
  <2>4. /\ published \subseteq published' /\ published' \subseteq Ids \X Nat
        /\ commands' \subseteq [owner : Owners, job : Ids, try : Nat]
    BY <1>1, WorkerFacts
  <2>5. QED
    BY <1>1, <2>1, <2>2, <2>3, <2>4, Advance
<1>5. QED
  BY <1>3, <1>4 DEF Killed

LEMMA PublishStep == ASSUME WorkersInv, Inv', NEW o \in Owners, Publish(o) PROVE WorkersInv'
<1>1. /\ worker[o].step \in Busy \ {"run", "kill"} /\ worker[o].step \in Busy
      /\ UNCHANGED <<vars, superVars>> /\ commands' = commands
  BY DEF Publish, Busy, Steps
<1>2. \A c \in commands : c.owner # o
  BY <1>1, OneCommand DEF Busy
<1>3. CASE Rests(o, "idle") /\ UNCHANGED published
  BY <1>1, <1>3, StillRows, LetGo
<1>4. CASE Goes(o, "error") /\ UNCHANGED published
  BY <1>1, <1>4, TurnsToError
<1>5. CASE Goes(o, "accept") /\ published' = published \cup {<<worker[o].job, worker[o].try>>}
  <2>1. "accept" \in Busy /\ "accept" \in Steps
    BY DEF Busy, Steps
  <2>2. /\ worker' \in [Owners -> Worker] /\ \A p \in Owners \ {o} : worker'[p] = worker[p]
        /\ worker'[o].step = "accept" /\ worker'[o].job = worker[o].job
        /\ worker'[o].try = worker[o].try /\ worker'[o].keeper # "off"
    BY <1>1, <1>5, <2>1, WorkerFacts, GoesEffect
  <2>3. \A c \in commands' : IF c.owner = o THEN "accept" \in {"run", "kill"} /\ c = Command(o)
                                            ELSE c \in commands
    BY <1>1, <1>2
  <2>4. /\ published \subseteq published' /\ published' \subseteq Ids \X Nat
        /\ commands' \subseteq [owner : Owners, job : Ids, try : Nat]
        /\ <<worker[o].job, worker[o].try>> \in published'
    BY <1>1, <1>5, WorkerFacts
  <2>5. QED
    BY <1>1, <2>1, <2>2, <2>3, <2>4, Advance
<1>6. QED
  BY <1>3, <1>4, <1>5 DEF Publish

\* The one way to succeed: at one's last attempt, with what is in the store.
LEMMA AcceptStep ==
    ASSUME WorkersInv, Inv', NEW o \in Owners, NEW lag \in 0 .. Lag, Accept(o, lag)
    PROVE  WorkersInv'
<1> DEFINE k == worker[o].job
<1>1. /\ worker[o].step = "accept" /\ worker[o].step \in Busy \ {"run", "kill"}
      /\ UNCHANGED <<commands, published, superVars>>
  BY DEF Accept, Busy, Steps
<1>2. CASE Rests(o, "idle") /\ UNCHANGED vars
  BY <1>1, <1>2, StillRows, LetGo
<1>3. CASE Goes(o, "error") /\ UNCHANGED vars
  BY <1>1, <1>3, TurnsToError
<1>4. CASE Rests(o, "idle") /\ Succeed(o, k, worker[o].try, lag)
  <2>1. k \in Ids /\ Inv /\ row[k].attempt = worker[o].try
    BY <1>1, <1>4, OwnedTry DEF WorkersInv, Succeed, OwnsItsJob
  <2>2. /\ \A i \in Ids : NoStart(i)
        /\ \A i \in Ids \ {k} : row'[i] = row[i]
        /\ row'[k].output = worker[o].try /\ row'[k].attempt = row[k].attempt
    BY <1>4, <2>1, SucceedEffect
  <2>3. <<k, worker[o].try>> \in published
    BY <1>1 DEF WorkersInv, Delivered
  <2>4. ASSUME NEW i \in Ids
        PROVE  \/ NoSuccess(i)
               \/ row'[i].output = row'[i].attempt /\ <<i, row'[i].attempt>> \in published
    BY <2>1, <2>2, <2>3 DEF NoSuccess
  <2>5. worker[o].step # "off" /\ \A c \in commands' : c.owner # o
    BY <1>1, OneCommand
  <2>6. UNCHANGED <<published, superVars>> /\ commands' \subseteq commands
    BY <1>1
  <2>7. QED
    BY <1>4, <2>2, <2>4, <2>5, <2>6, Release
<1>5. QED
  BY <1>2, <1>3, <1>4 DEF Accept

LEMMA ReportSteps ==
    ASSUME WorkersInv, Inv', NEW o \in Owners, NEW lag \in 0 .. Lag,
           ReportFailure(o, lag) \/ ReportError(o, lag)
    PROVE  WorkersInv'
<1>1. /\ worker[o].step \in Busy \ {"run", "kill"} /\ worker[o].retry \in BOOLEAN
      /\ UNCHANGED <<commands, published, superVars>>
  BY DEF ReportFailure, ReportError, Busy, Steps, WorkersInv, WorkersTypeOK, Worker
<1>2. CASE Goes(o, "error") /\ UNCHANGED vars
  BY <1>1, <1>2, TurnsToError
<1>3. CASE Rests(o, "idle") /\ UNCHANGED vars
  BY <1>1, <1>3, StillRows, LetGo
<1>4. ASSUME NEW retry \in BOOLEAN, Rests(o, "idle"), Fail(o, worker[o].job, retry, lag)
      PROVE  WorkersInv'
  BY <1>1, <1>4, ReportedFailure
<1>5. QED
  BY <1>1, <1>2, <1>3, <1>4 DEF ReportFailure, ReportError

LEMMA CrashStep == ASSUME WorkersInv, Inv', NEW o \in Owners, WorkerCrash(o) PROVE WorkersInv'
<1>1. /\ worker[o].step # "off" /\ Rests(o, "gone") /\ UNCHANGED vars
      /\ UNCHANGED <<published, superVars>> /\ commands' \subseteq commands
  BY DEF WorkerCrash
<1>2. QED
  BY <1>1, StillRows, Release

\* The keeper changes nothing but the lease and what it knows of it.
LEMMA KeeperSteps ==
    ASSUME WorkersInv, Inv', NEW o \in Owners, KeeperStep(o)
    PROVE  WorkersInv'
<1>1. /\ worker[o].keeper = "on" /\ UNCHANGED <<commands, published, superVars>>
      /\ commands' = commands /\ published' = published /\ UNCHANGED superVars
  BY DEF KeeperStep, Beat, BeatError
<1>2. worker[o].step \in Busy /\ worker[o].step # "off" /\ worker[o].job \in Ids /\ Inv
  BY <1>1, KeeperHasJob DEF Busy, WorkersInv
<1>3. /\ worker' \in [Owners -> Worker] /\ \A p \in Owners \ {o} : worker'[p] = worker[p]
      /\ worker'[o].step = worker[o].step /\ worker'[o].job = worker[o].job
      /\ worker'[o].try = worker[o].try /\ worker'[o].keeper # "off"
  <2>1. worker \in [Owners -> Worker] /\ worker[o] \in Worker /\ 0 \in 0 .. BeatInterval + Lag
    BY WorkerFacts, BeatAssumption, BoundAssumption
  <2>2. CASE worker' = [worker EXCEPT ![o].since = 0]
    <3>1. worker'[o] = [worker[o] EXCEPT !.since = 0] /\ worker'[o] \in Worker
      BY <2>1, <2>2 DEF Worker
    <3>2. QED
      BY <1>1, <2>1, <2>2, <3>1 DEF Worker
  <2>3. CASE worker' = [worker EXCEPT ![o].keeper = "lost"]
    <3>1. worker'[o] = [worker[o] EXCEPT !.keeper = "lost"] /\ worker'[o] \in Worker
      BY <2>1, <2>3 DEF Worker
    <3>2. QED
      BY <1>1, <2>1, <2>3, <3>1 DEF Worker
  <2>4. QED
    BY <2>2, <2>3 DEF KeeperStep, Beat, BeatError
<1>4. \A i \in Ids : /\ NoStart(i) /\ NoSuccess(i)
                     /\ row'[i].state = row[i].state /\ row'[i].owner = row[i].owner
                     /\ row'[i].attempt = row[i].attempt
  <2>1. CASE UNCHANGED vars
    BY <2>1, StillRows DEF vars
  <2>2. ASSUME NEW lag \in 0 .. Lag, Heartbeat(o, worker[o].job, lag)
        PROVE  \A i \in Ids : /\ NoStart(i) /\ NoSuccess(i)
                              /\ row'[i].state = row[i].state /\ row'[i].owner = row[i].owner
                              /\ row'[i].attempt = row[i].attempt
    <3>1. row[worker[o].job].state = "running" /\ row[worker[o].job].owner = o
      BY <2>2 DEF Heartbeat, Owns
    <3>2. QED
      BY <1>2, <2>2, <3>1, HeartbeatQuiet
  <2>3. QED
    BY <2>1, <2>2 DEF KeeperStep, Beat, BeatError
<1>5. \A c \in commands' : IF c.owner = o
                           THEN worker'[o].step \in {"run", "kill"} /\ c = Command(o)'
                           ELSE c \in commands
  <2>1. Command(o)' = Command(o)
    BY <1>3 DEF Command
  <2>2. QED
    BY <1>1, <1>2, <1>3, <2>1, OneCommand DEF Busy
<1>6. /\ row'[worker'[o].job].state = "running" /\ row'[worker'[o].job].owner = o
      => row'[worker'[o].job].attempt = worker'[o].try
  BY <1>2, <1>3, <1>4 DEF WorkersInv, SameTry
<1>7. worker'[o].step = "accept" => <<worker'[o].job, worker'[o].try>> \in published'
  BY <1>1, <1>3 DEF WorkersInv, Delivered
<1>8. /\ published \subseteq published' /\ published' \subseteq Ids \X Nat
      /\ commands' \subseteq [owner : Owners, job : Ids, try : Nat]
  BY <1>1, WorkerFacts
<1>9. QED
  BY <1>1, <1>2, <1>3, <1>4, <1>5, <1>6, <1>7, <1>8, LaneFrame

\* Time passes for the rows, and for the keepers.
LEMMA PassStep == ASSUME WorkersInv, Inv', Pass PROVE WorkersInv'
<1>1. /\ Tick /\ UNCHANGED <<commands, published, superVars>> /\ Inv
      /\ commands' = commands /\ published' = published
  BY DEF Pass, WorkersInv
<1>2. /\ worker' \in [Owners -> Worker]
      /\ \A o \in Owners : /\ worker'[o].step = worker[o].step /\ worker'[o].job = worker[o].job
                           /\ worker'[o].try = worker[o].try
                           /\ worker'[o].keeper = worker[o].keeper
                           /\ worker[o].keeper # "on" => worker'[o] = worker[o]
  <2>1. ASSUME NEW o \in Owners, worker[o].keeper = "on"
        PROVE  LET w == [worker[o] EXCEPT !.since = @ + 1]
               IN w \in Worker /\ w.step = worker[o].step /\ w.job = worker[o].job
                  /\ w.try = worker[o].try /\ w.keeper = worker[o].keeper
    <3>1. worker[o] \in Worker /\ worker[o].since < BeatInterval + Lag
      BY <2>1, WorkerFacts DEF Pass
    <3>2. worker[o].since + 1 \in 0 .. BeatInterval + Lag
      BY <3>1, BeatAssumption, BoundAssumption DEF Worker
    <3>3. QED
      BY <3>1, <3>2 DEF Worker
  <2>2. \A o \in Owners : worker'[o] = IF worker[o].keeper = "on"
                                       THEN [worker[o] EXCEPT !.since = @ + 1] ELSE worker[o]
    BY DEF Pass
  <2>3. worker' = [o \in Owners |-> worker'[o]]
    BY DEF Pass
  <2>4. QED
    BY <2>1, <2>2, <2>3, WorkerFacts
<1>3. \A i \in Ids : /\ NoStart(i) /\ NoSuccess(i) /\ row'[i].state = row[i].state
                     /\ row'[i].owner = row[i].owner /\ row'[i].attempt = row[i].attempt
  BY <1>1, TickQuiet
<1>4. WorkersTypeOK'
  BY <1>1, <1>2 DEF WorkersInv, WorkersTypeOK, Inv, superVars
<1>5. AtRest'
  <2>1. \A o \in Owners : worker[o].step \notin Busy => worker[o].keeper = "off"
    BY RestingType, WorkerFacts DEF WorkersInv, AtRest
  <2>2. QED
    BY <1>2, <2>1 DEF WorkersInv, AtRest, Busy, Steps
<1>6. HasJob' /\ Delivered'
  BY <1>1, <1>2 DEF WorkersInv, HasJob, Delivered, Busy, Steps
<1>7. SameTry'
  BY <1>2, <1>3 DEF WorkersInv, SameTry, HasJob, Busy, Steps
<1>8. Watched'
  <2>1. \A c \in commands : c.owner \in Owners /\ Command(c.owner)' = Command(c.owner)
    BY <1>2, WorkerFacts DEF Command, WorkersInv, WorkersTypeOK
  <2>2. QED
    BY <1>1, <1>2, <2>1 DEF WorkersInv, Watched
<1>9. NotYet'
  BY <1>1, <1>2 DEF WorkersInv, NotYet, Crew, Generation, superVars
<1>10. OutputOfLastAttempt'
  BY <1>1, <1>3 DEF WorkersInv, OutputOfLastAttempt, NoSuccess
<1>11. QED
  BY <1>4, <1>5, <1>6, <1>7, <1>8, <1>9, <1>10 DEF WorkersInv

\* A generation starts; its workers had not been launched.
LEMMA LaunchStep ==
    ASSUME WorkersInv, Inv', NEW g \in 1 .. Generations, Launch(g), supervisor[g] = "off",
           launcher' \in {"none", "watching", "done", "refused"}
    PROVE  WorkersInv'
<1>1. /\ UNCHANGED <<row, commands, published, stop, forked>> /\ supervisor[g] = "off"
      /\ supervisor' = [supervisor EXCEPT ![g] = "up"]
      /\ worker' = [o \in Owners |-> IF o \in Crew(g) THEN Resting("idle") ELSE worker[o]]
  BY DEF Launch, vars
<1>2. \A o \in Crew(g) : worker[o].step = "off" /\ o \in Owners
  BY <1>1 DEF WorkersInv, NotYet, Crew
<1>3. Resting("idle") \in Worker /\ Resting("idle").step = "idle" /\ "idle" \notin Busy
  BY RestingType DEF Steps, Busy
<1>4. /\ worker' \in [Owners -> Worker]
      /\ \A o \in Owners : IF o \in Crew(g) THEN worker'[o] = Resting("idle")
                                            ELSE worker'[o] = worker[o]
  BY <1>1, <1>3, WorkerFacts
<1>5. \A o \in Owners : worker'[o].step \in Busy => worker'[o] = worker[o]
  BY <1>3, <1>4
<1>6. WorkersTypeOK'
  BY <1>1, <1>4 DEF WorkersInv, WorkersTypeOK, Inv, Running
<1>7. AtRest' /\ HasJob'
  <2>1. Busy' = Busy
    BY DEF Busy
  <2>2. AtRest'
    BY <1>3, <1>4, <2>1 DEF WorkersInv, AtRest, Resting
  <2>3. HasJob'
    BY <1>5, <2>1 DEF WorkersInv, HasJob
  <2>4. QED
    BY <2>2, <2>3
<1>8. SameTry'
  BY <1>1, <1>5 DEF WorkersInv, SameTry, Busy, Steps
<1>9. Watched'
  <2>1. ASSUME NEW c \in commands
        PROVE  \/ worker'[c.owner].step = "gone"
               \/ worker'[c.owner].step \in {"run", "kill"} /\ c = Command(c.owner)'
    <3>1. c.owner \in Owners /\ worker[c.owner].step # "off"
      BY DEF WorkersInv, WorkersTypeOK, Watched
    <3>2. worker'[c.owner] = worker[c.owner]
      BY <1>2, <1>4, <3>1
    <3>3. QED
      BY <3>2 DEF WorkersInv, Watched, Command
  <2>2. QED
    BY <1>1, <2>1 DEF Watched
<1>10. Delivered'
  <2>1. "accept" \in Busy
    BY DEF Busy, Steps
  <2>2. QED
    BY <1>1, <1>5, <2>1 DEF WorkersInv, Delivered
<1>11. NotYet'
  <2>1. ASSUME NEW h \in 1 .. Generations, supervisor'[h] = "off", NEW o \in Crew(h)
        PROVE  worker'[o].step = "off"
    <3>1. h # g /\ supervisor[h] = "off"
      BY <1>1, <2>1 DEF WorkersInv, WorkersTypeOK
    <3>2. o \in Owners /\ o \notin Crew(g)
      BY <2>1, <3>1 DEF Crew
    <3>3. QED
      BY <1>4, <2>1, <3>1, <3>2 DEF WorkersInv, NotYet
  <2>2. QED
    BY <2>1 DEF NotYet, Crew
<1>12. OutputOfLastAttempt'
  BY <1>1 DEF WorkersInv, OutputOfLastAttempt
<1>13. QED
  BY <1>6, <1>7, <1>8, <1>9, <1>10, <1>11, <1>12 DEF WorkersInv

LEMMA SupervisorSteps ==
    ASSUME WorkersInv, Inv', NEW g \in 1 .. Generations,
           \/ SupervisorStep(g) \/ RequestStop(g) \/ SupervisorCrash(g)
           \/ StartRole(g) \/ RestartRole(g)
    PROVE  WorkersInv'
<1>1. SuperTypes
  BY DEF WorkersInv, WorkersTypeOK, SuperTypes
<1>2. CASE StartRole(g)
  <2>1. Launch(g) /\ supervisor[g] = "off"
    BY <1>2 DEF StartRole
  <2>2. launcher' \in {"none", "watching", "done", "refused"}
    BY <1>2 DEF StartRole
  <2>3. QED
    BY <2>1, <2>2, LaunchStep
<1>3. CASE RestartRole(g) /\ Launch(g) /\ UNCHANGED launcher
  <2>1. supervisor[g] = "off"
    BY <1>3 DEF RestartRole
  <2>2. launcher' \in {"none", "watching", "done", "refused"}
    BY <1>1, <1>3 DEF SuperTypes
  <2>3. QED
    BY <1>3, <2>1, <2>2, LaunchStep
<1>4. CASE RestartRole(g) /\ UNCHANGED <<vars, workerVars, supervisor, stop, forked>>
  <2>1. UNCHANGED vars /\ UNCHANGED <<worker, published, forked>> /\ commands' \subseteq commands
    BY <1>4 DEF workerVars
  <2>2. launcher' \in {"none", "watching", "done", "refused"}
    BY <1>1, <1>4 DEF RestartRole, SuperTypes
  <2>3. SuperTypes' /\ \A h \in 1 .. Generations : supervisor'[h] = "off" => supervisor[h] = "off"
    BY <1>1, <1>4, <2>2 DEF SuperTypes
  <2>4. QED
    BY <2>1, <2>3, StillRows, WorldFrame
<1>5. CASE BeginStop(g) \/ FinishStop(g) \/ RequestStop(g) \/ SupervisorCrash(g)
  <2>1. UNCHANGED vars /\ UNCHANGED <<worker, published, forked>> /\ commands' \subseteq commands
    BY <1>5 DEF BeginStop, FinishStop, RequestStop, SupervisorCrash, workerVars
  <2>2. supervisor' \in [1 .. Generations -> Running \cup {"off", "stopped", "failed"}]
    BY <1>1, <1>5 DEF SuperTypes, BeginStop, FinishStop, RequestStop, SupervisorCrash, Running
  <2>3. stop' \in [1 .. Generations -> BOOLEAN]
    BY <1>1, <1>5 DEF SuperTypes, BeginStop, FinishStop, RequestStop, SupervisorCrash
  <2>4. launcher' \in {"none", "watching", "done", "refused"}
    BY <1>1, <1>5 DEF SuperTypes, BeginStop, FinishStop, RequestStop, SupervisorCrash
  <2>5. \A h \in 1 .. Generations : supervisor'[h] = "off" => supervisor[h] = "off"
    BY <1>1, <1>5 DEF SuperTypes, BeginStop, FinishStop, RequestStop, SupervisorCrash
  <2>6. SuperTypes'
    BY <2>2, <2>3, <2>4 DEF SuperTypes
  <2>7. QED
    BY <2>1, <2>5, <2>6, StillRows, WorldFrame
<1>6. QED
  BY <1>2, <1>3, <1>4, <1>5 DEF SupervisorStep, RestartRole

LEMMA WorkersInvInit == ASSUME WorkersInit PROVE WorkersInv
<1>1. Inv
  BY InvInit DEF WorkersInit
<1>2. Resting("off") \in Worker /\ Resting("off").step = "off" /\ "off" \notin Busy
  BY RestingType DEF Steps, Busy
<1>3. worker \in [Owners -> Worker] /\ \A o \in Owners : worker[o] = Resting("off")
  BY <1>2 DEF WorkersInit
<1>4. WorkersTypeOK
  BY <1>1, <1>3 DEF WorkersInit, WorkersTypeOK, Inv
<1>5. AtRest /\ HasJob /\ SameTry /\ Delivered
  BY <1>2, <1>3 DEF AtRest, HasJob, SameTry, Delivered
<1>6. Watched /\ NotYet
  BY <1>2, <1>3 DEF WorkersInit, Watched, NotYet, Crew
<1>7. OutputOfLastAttempt
  BY DEF WorkersInit, Init, NoRow, OutputOfLastAttempt
<1>8. QED
  BY <1>1, <1>4, <1>5, <1>6, <1>7 DEF WorkersInv

LEMMA WorkersInvStep == ASSUME WorkersInv, [WorkersNext]_allVars PROVE WorkersInv'
<1>1. Inv /\ Inv'
  BY WorkersStepOfQueue, InvStep DEF WorkersInv
<1>2. SuperTypes
  BY DEF WorkersInv, WorkersTypeOK, SuperTypes
<1>3. CASE UNCHANGED allVars
  <2>1. UNCHANGED vars /\ UNCHANGED <<worker, published, forked>> /\ commands' \subseteq commands
        /\ UNCHANGED <<supervisor, stop, launcher>>
    BY <1>3 DEF allVars, workerVars, superVars
  <2>2. QED
    BY <1>1, <1>2, <2>1, StillRows, WorldFrame DEF SuperTypes
<1>4. ASSUME NEW lag \in 0 .. Lag, Stats(lag) PROVE WorkersInv'
  <2>1. UNCHANGED <<worker, published, forked>> /\ commands' \subseteq commands
        /\ UNCHANGED <<supervisor, stop, launcher>> /\ Reconcile(lag)
    BY <1>4 DEF Stats, workerVars, superVars
  <2>2. \A i \in Ids : NoStart(i) /\ NoSuccess(i)
    BY <1>1, <2>1, ReconcileQuiet
  <2>3. QED
    BY <1>1, <1>2, <2>1, <2>2, WorldFrame DEF SuperTypes
<1>5. ASSUME NEW lag \in 0 .. Lag, NEW r \in Requests, NEW deps \in SUBSET Ids,
             Submit(r, deps, lag)
      PROVE  WorkersInv'
  <2>1. UNCHANGED <<worker, published, forked>> /\ commands' \subseteq commands
        /\ UNCHANGED <<supervisor, stop, launcher>> /\ Enqueue(r, deps, lag)
    BY <1>5 DEF Submit, workerVars, superVars, Enqueue
  <2>2. \A i \in Ids : NoStart(i) /\ NoSuccess(i)
    BY <1>1, <2>1, EnqueueQuiet
  <2>3. QED
    BY <1>1, <1>2, <2>1, <2>2, WorldFrame DEF SuperTypes
<1>6. ASSUME NEW o \in Owners, LaneStep(o) \/ CommandExit(o) \/ KeeperStep(o) \/ WorkerCrash(o)
      PROVE  WorkersInv'
  BY <1>1, <1>6, PollStep, AdvanceSteps, KilledStep, PublishStep, ClaimJobStep, RefuseStep,
     AcceptStep, ReportSteps, KeeperSteps, CrashStep DEF LaneStep
<1>7. ASSUME NEW c \in commands, OrphanExit(c) PROVE WorkersInv'
  <2>1. UNCHANGED vars /\ UNCHANGED <<worker, published, forked>> /\ commands' \subseteq commands
        /\ UNCHANGED <<supervisor, stop, launcher>>
    BY <1>7 DEF OrphanExit, superVars
  <2>2. QED
    BY <1>1, <1>2, <2>1, StillRows, WorldFrame DEF SuperTypes
<1>8. ASSUME NEW g \in 1 .. Generations,
             \/ SupervisorStep(g) \/ RequestStop(g) \/ SupervisorCrash(g)
             \/ StartRole(g) \/ RestartRole(g)
      PROVE  WorkersInv'
  BY <1>1, <1>8, SupervisorSteps
<1>9. CASE Pass
  BY <1>1, <1>9, PassStep
<1>10. QED
  BY <1>3, <1>4, <1>5, <1>6, <1>7, <1>8, <1>9 DEF WorkersNext

\* The invariant holds throughout, whatever the length of the lease.
THEOREM WorkersInvariance == WorkersSpec => []WorkersInv
<1>1. WorkersInit => WorkersInv
  BY WorkersInvInit
<1>2. WorkersInv /\ [WorkersNext]_allVars => WorkersInv'
  BY WorkersInvStep
<1>3. QED
  BY <1>1, <1>2, PTL DEF WorkersSpec

\* Workers, commands and supervisors have the type the code gives them; in
\* particular a renewal is never overdue by more than the busy timeout.
THEOREM WorkersTypeCorrect == WorkersSpec => []WorkersTypeOK
<1>1. WorkersInv => WorkersTypeOK
  BY DEF WorkersInv
<1>2. QED
  BY <1>1, WorkersInvariance, PTL

\* A job that succeeded carries what its last charged attempt published, although
\* _execute_owned publishes before it asks whether the job is still its own.
THEOREM LateOutputRefused == WorkersSpec => []OutputOfLastAttempt
<1>1. WorkersInv => OutputOfLastAttempt
  BY DEF WorkersInv
<1>2. QED
  BY <1>1, WorkersInvariance, PTL

----------------------------------------------------------------------------
(* Lane workers: what the length of the lease adds.                        *)

LEMMA HeldLease ==
    ASSUME WorkersInv, Held, NEW o \in Owners, worker[o].keeper = "on"
    PROVE  /\ worker[o].job \in Ids /\ row[worker[o].job].owner = o
           /\ row[worker[o].job].state = "running" /\ row[worker[o].job].left >= 0
<1>1. worker[o].job \in Ids /\ worker[o].since \in 0 .. BeatInterval + Lag
  BY KeeperHasJob, WorkerFacts DEF Worker
<1>2. row[worker[o].job].left \in Int
  BY <1>1, BoundAssumption DEF WorkersInv, Inv, TypeOK, Row, Expired
<1>3. LeaseTicks - Lag - worker[o].since >= 0
  BY <1>1, LeaseAssumption, BoundAssumption, BeatAssumption
<1>4. /\ row[worker[o].job].owner = o /\ row[worker[o].job].state = "running"
      /\ row[worker[o].job].left >= LeaseTicks - Lag - worker[o].since
  BY DEF Held, HeldBy
<1>5. QED
  BY <1>1, <1>2, <1>3, <1>4, BoundAssumption

\* No keeper starts, and none of those that go on renews.
Keeps(p) == worker'[p].keeper = "on"
            => /\ worker[p].keeper = "on" /\ worker'[p].job = worker[p].job
               /\ worker'[p].since = worker[p].since

LEMMA HeldFrame ==
    ASSUME WorkersInv, Held, NEW p \in Owners, Keeps(p),
           \/ row'[worker[p].job] = row[worker[p].job]
           \/ \A i \in Ids : LiveKept(i)
    PROVE  HeldBy(p)'
<1>1. CASE worker[p].keeper = "on"
  <2>1. row'[worker[p].job] = row[worker[p].job]
    BY <1>1, HeldLease DEF LiveKept
  <2>2. QED
    BY <1>1, <2>1 DEF Held, HeldBy, Keeps
<1>2. CASE worker[p].keeper # "on"
  BY <1>2 DEF Keeps, HeldBy
<1>3. QED
  BY <1>1, <1>2

LEMMA MovingOn ==
    ASSUME WorkersInv, NEW o \in Owners, NEW s \in Steps,
           \/ Goes(o, s) \/ Rests(o, s)
           \/ \E b \in BOOLEAN : worker' = [worker EXCEPT ![o].step = s, ![o].retry = b],
           NEW p \in Owners
    PROVE  Keeps(p)
<1>1. worker \in [Owners -> Worker]
  BY WorkerFacts
<1>2. CASE Goes(o, s)
  BY <1>1, <1>2, GoesEffect DEF Keeps
<1>3. CASE Rests(o, s)
  BY <1>1, <1>3, RestsEffect, RestingType DEF Keeps
<1>4. CASE \E b \in BOOLEAN : worker' = [worker EXCEPT ![o].step = s, ![o].retry = b]
  BY <1>1, <1>4, SwitchEffect DEF Keeps
<1>5. QED
  BY <1>2, <1>3, <1>4

LEMMA MovingOnHeld ==
    ASSUME WorkersInv, Held, UNCHANGED vars, NEW o \in Owners, NEW s \in Steps,
           \/ Goes(o, s) \/ Rests(o, s)
           \/ \E b \in BOOLEAN : worker' = [worker EXCEPT ![o].step = s, ![o].retry = b]
    PROVE  Held'
<1>1. ASSUME NEW p \in Owners PROVE HeldBy(p)'
  BY MovingOn, HeldFrame DEF vars
<1>2. QED
  BY <1>1 DEF Held

\* A report is about a job of one's own: it touches the lease of no other worker.
LEMMA ReportHeld ==
    ASSUME WorkersInv, Held, NEW o \in Owners, NEW s \in {"idle", "gone"}, Rests(o, s),
           row[worker[o].job].owner = o,
           \A i \in Ids \ {worker[o].job} : row'[i] = row[i]
    PROVE  Held'
<1>1. s \in Steps /\ worker'[o].keeper = "off"
  BY RestsEffect, RestingType, WorkerFacts DEF Steps
<1>2. ASSUME NEW p \in Owners, worker'[p].keeper = "on" PROVE HeldBy(p)'
  <2>1. Keeps(p) /\ p # o
    BY <1>1, <1>2, MovingOn
  <2>2. row'[worker[p].job] = row[worker[p].job]
    BY <1>2, <2>1, HeldLease DEF Keeps
  <2>3. QED
    BY <2>1, <2>2, HeldFrame
<1>3. QED
  BY <1>2 DEF Held, HeldBy

LEMMA ClaimHeld ==
    ASSUME WorkersInv, Held, NEW o \in Owners, NEW lag \in 0 .. Lag, ClaimJob(o, lag)
    PROVE  Held'
<1> DEFINE mine == {i \in Ids : row'[i].owner = o /\ row'[i].attempt = row[i].attempt + 1}
<1>1. /\ \A i \in Ids : LiveKept(i)
      /\ \A i \in mine : Given(i, o)
  BY ClaimOutcome DEF ClaimJob, WorkersInv
<1>2. CASE Goes(o, "idle")
  <2>1. ASSUME NEW p \in Owners PROVE HeldBy(p)'
    BY <1>1, <1>2, MovingOn, HeldFrame DEF Steps
  <2>2. QED
    BY <2>1 DEF Held
<1>3. ASSUME NEW i \in mine,
             worker' = [worker EXCEPT ![o] = [Resting("prepare") EXCEPT
                            !.job = i, !.try = row'[i].attempt, !.keeper = "on"]]
      PROVE  Held'
  <2>1. /\ \A p \in Owners \ {o} : worker'[p] = worker[p]
        /\ worker'[o].job = i /\ worker'[o].since = 0
    BY <1>3, WorkerFacts DEF Resting
  <2>2. HeldBy(o)'
    BY <1>1, <2>1, BoundAssumption DEF HeldBy, Given
  <2>3. ASSUME NEW p \in Owners \ {o} PROVE HeldBy(p)'
    BY <1>1, <2>1, HeldFrame DEF Keeps
  <2>4. QED
    BY <2>2, <2>3 DEF Held
<1>4. QED
  BY <1>2, <1>3 DEF ClaimJob

LEMMA KeeperHeld ==
    ASSUME WorkersInv, Held, NEW o \in Owners, KeeperStep(o)
    PROVE  Held'
<1>1. worker \in [Owners -> Worker] /\ worker[o].keeper = "on" /\ worker[o].job \in Ids
  BY WorkerFacts, KeeperHasJob DEF KeeperStep, Beat, BeatError
<1>2. CASE UNCHANGED vars /\ worker' = [worker EXCEPT ![o].keeper = "lost"]
  <2>1. worker'[o].keeper = "lost" /\ \A p \in Owners \ {o} : worker'[p] = worker[p]
    BY <1>1, <1>2 DEF Worker
  <2>2. ASSUME NEW p \in Owners PROVE HeldBy(p)'
    BY <1>2, <2>1, HeldFrame DEF Keeps, vars
  <2>3. QED
    BY <2>2 DEF Held
<1>3. ASSUME NEW lag \in 0 .. Lag, Heartbeat(o, worker[o].job, lag),
             worker' = [worker EXCEPT ![o].since = 0]
      PROVE  Held'
  <2>1. /\ worker'[o].job = worker[o].job /\ worker'[o].since = 0
        /\ \A p \in Owners \ {o} : worker'[p] = worker[p]
    BY <1>1, <1>3 DEF Worker
  <2>2. /\ \A i \in Ids \ {worker[o].job} : row'[i] = row[i]
        /\ row'[worker[o].job].state = "running" /\ row'[worker[o].job].owner = o
        /\ row'[worker[o].job].left >= LeaseTicks - Lag
    BY <1>1, <1>3, HeartbeatQuiet DEF WorkersInv
  <2>3. HeldBy(o)'
    BY <2>1, <2>2, BoundAssumption DEF HeldBy
  <2>4. ASSUME NEW p \in Owners \ {o}, worker[p].keeper = "on" PROVE HeldBy(p)'
    <3>1. worker[p].job # worker[o].job /\ worker[p].job \in Ids
      BY <1>1, <2>4, HeldLease
    <3>2. QED
      BY <2>1, <2>2, <3>1, HeldFrame DEF Keeps
  <2>5. QED
    BY <2>1, <2>3, <2>4 DEF Held, HeldBy
<1>4. QED
  BY <1>2, <1>3 DEF KeeperStep, Beat, BeatError

LEMMA PassHeld == ASSUME WorkersInv, Held, Pass PROVE Held'
<1>1. ASSUME NEW p \in Owners, worker'[p].keeper = "on" PROVE HeldBy(p)'
  <2>1. worker'[p] = IF worker[p].keeper = "on" THEN [worker[p] EXCEPT !.since = @ + 1]
                                                ELSE worker[p]
    BY DEF Pass
  <2>2. worker[p].keeper = "on" /\ worker[p].since \in Nat /\ worker[p] \in Worker
    BY <1>1, <2>1, WorkerFacts, BeatAssumption, BoundAssumption DEF Worker
  <2>3. worker'[p].job = worker[p].job /\ worker'[p].since = worker[p].since + 1
    BY <2>1, <2>2 DEF Worker
  <2>4. worker[p].job \in Ids /\ row[worker[p].job].state = "running"
        /\ row[worker[p].job].owner = p
    BY <2>2, HeldLease
  <2>5. /\ row'[worker[p].job].state = "running" /\ row'[worker[p].job].owner = p
        /\ row'[worker[p].job].left >= row[worker[p].job].left - 1
    BY <2>4, TickQuiet DEF Pass, WorkersInv
  <2>6. row[worker[p].job].left >= LeaseTicks - Lag - worker[p].since
    BY <2>2 DEF Held, HeldBy
  <2>7. row[worker[p].job].left \in Int /\ row'[worker[p].job].left \in Int
    <3>1. row \in [Ids -> Row] /\ row' \in [Ids -> Row]
      BY TickStep DEF WorkersInv, Inv, TypeOK, Pass, Tick
    <3>2. QED
      BY <2>4, <3>1, BoundAssumption DEF Row, Expired
  <2>8. row'[worker[p].job].left >= LeaseTicks - Lag - (worker[p].since + 1)
    BY <2>2, <2>5, <2>6, <2>7, BoundAssumption
  <2>9. QED
    BY <2>3, <2>5, <2>8 DEF HeldBy
<1>2. QED
  BY <1>1 DEF Held, HeldBy

LEMMA LaneHeld ==
    ASSUME WorkersInv, Held, NEW o \in Owners, LaneStep(o) \/ CommandExit(o) \/ WorkerCrash(o)
    PROVE  Held'
<1>1. {"idle", "poll", "run", "error", "publish", "accept", "fail", "kill", "gone"} \subseteq Steps
      /\ FALSE \in BOOLEAN /\ worker[o].retry \in BOOLEAN
  BY DEF Steps, WorkersInv, WorkersTypeOK, Worker
<1>2. CASE \/ Poll(o) \/ Spawn(o) \/ SpawnError(o) \/ BeginKill(o) \/ Killed(o)
           \/ Publish(o) \/ CommandExit(o) \/ WorkerCrash(o)
  <2>1. /\ UNCHANGED vars
        /\ \E s \in Steps :
              \/ Goes(o, s) \/ Rests(o, s)
              \/ \E b \in BOOLEAN : worker' = [worker EXCEPT ![o].step = s, ![o].retry = b]
    BY <1>1, <1>2 DEF Poll, Spawn, SpawnError, BeginKill, Killed, Publish, CommandExit,
                      WorkerCrash, WillFail
  <2>2. QED
    BY <2>1, MovingOnHeld
<1>3. ASSUME NEW lag \in 0 .. Lag,
             Refuse(o, lag) \/ Accept(o, lag) \/ ReportFailure(o, lag) \/ ReportError(o, lag)
      PROVE  Held'
  <2>1. worker[o].job \in Ids
    BY <1>3, WorkerFacts DEF Refuse, Accept, ReportFailure, ReportError, Busy, Steps
  <2>2. \/ UNCHANGED vars /\ \E s \in {"idle", "gone"} : Rests(o, s)
        \/ UNCHANGED vars /\ Goes(o, "error")
        \/ Rests(o, "idle") /\ Succeed(o, worker[o].job, worker[o].try, lag)
        \/ Rests(o, "idle") /\ \E retry \in BOOLEAN : Fail(o, worker[o].job, retry, lag)
    BY <1>1, <1>3 DEF Refuse, Accept, ReportFailure, ReportError
  <2>3. CASE UNCHANGED vars /\ (Goes(o, "error") \/ \E s \in {"idle", "gone"} : Rests(o, s))
    BY <1>1, <2>3, MovingOnHeld
  <2>4. CASE Rests(o, "idle") /\ Succeed(o, worker[o].job, worker[o].try, lag)
    BY <2>1, <2>4, SucceedEffect, ReportHeld DEF WorkersInv
  <2>5. CASE Rests(o, "idle") /\ \E retry \in BOOLEAN : Fail(o, worker[o].job, retry, lag)
    BY <2>1, <2>5, FailQuiet, ReportHeld DEF WorkersInv
  <2>6. QED
    BY <2>2, <2>3, <2>4, <2>5
<1>4. ASSUME NEW lag \in 0 .. Lag, ClaimJob(o, lag) PROVE Held'
  BY <1>4, ClaimHeld
<1>5. QED
  BY <1>2, <1>3, <1>4 DEF LaneStep

LEMMA HeldInit == ASSUME WorkersInit PROVE Held
<1>1. ASSUME NEW o \in Owners PROVE worker[o].keeper = "off"
  BY DEF WorkersInit, Resting
<1>2. QED
  BY <1>1 DEF Held, HeldBy

LEMMA HeldStep == ASSUME WorkersInv, Held, [WorkersNext]_allVars PROVE Held'
<1>1. Inv
  BY DEF WorkersInv
<1>2. ASSUME UNCHANGED worker, UNCHANGED row \/ \A i \in Ids : LiveKept(i) PROVE Held'
  <2>1. ASSUME NEW p \in Owners PROVE HeldBy(p)'
    BY <1>2, HeldFrame DEF Keeps
  <2>2. QED
    BY <2>1 DEF Held
<1>3. CASE UNCHANGED allVars
  BY <1>2, <1>3 DEF allVars, vars, workerVars
<1>4. ASSUME NEW lag \in 0 .. Lag, Stats(lag) PROVE Held'
  BY <1>1, <1>2, <1>4, ReconcileQuiet DEF Stats, workerVars
<1>5. ASSUME NEW lag \in 0 .. Lag, NEW r \in Requests, NEW deps \in SUBSET Ids,
             Submit(r, deps, lag)
      PROVE  Held'
  BY <1>1, <1>2, <1>5, EnqueueQuiet DEF Submit, Enqueue, workerVars
<1>6. ASSUME NEW o \in Owners, LaneStep(o) \/ CommandExit(o) \/ KeeperStep(o) \/ WorkerCrash(o)
      PROVE  Held'
  BY <1>6, LaneHeld, KeeperHeld
<1>7. ASSUME NEW c \in commands, OrphanExit(c) PROVE Held'
  BY <1>2, <1>7 DEF OrphanExit, vars
<1>8. ASSUME NEW g \in 1 .. Generations,
             \/ SupervisorStep(g) \/ RequestStop(g) \/ SupervisorCrash(g)
             \/ StartRole(g) \/ RestartRole(g)
      PROVE  Held'
  <2>1. CASE Launch(g)
    <3>1. ASSUME NEW p \in Owners PROVE HeldBy(p)'
      <4>1. worker'[p] = IF p \in Crew(g) THEN Resting("idle") ELSE worker[p]
        BY <2>1 DEF Launch
      <4>2. QED
        BY <2>1, <4>1, HeldFrame DEF Keeps, Resting, Launch, vars
    <3>2. QED
      BY <3>1 DEF Held
  <2>2. CASE UNCHANGED <<vars, workerVars>>
    BY <1>2, <2>2 DEF vars, workerVars
  <2>3. QED
    BY <1>8, <2>1, <2>2
       DEF SupervisorStep, BeginStop, FinishStop, RequestStop, SupervisorCrash, StartRole,
           RestartRole
<1>9. CASE Pass
  BY <1>9, PassHeld
<1>10. QED
  BY <1>3, <1>4, <1>5, <1>6, <1>7, <1>8, <1>9 DEF WorkersNext

\* While a worker believes in its lease, the row is its own and the lease outlasts
\* every write its keeper may still make.
THEOREM HeldInvariance == WorkersSpec => [](WorkersInv /\ Held)
<1>1. WorkersInit => WorkersInv /\ Held
  BY WorkersInvInit, HeldInit
<1>2. WorkersInv /\ Held /\ [WorkersNext]_allVars => (WorkersInv /\ Held)'
  BY WorkersInvStep, HeldStep
<1>3. QED
  BY <1>1, <1>2, PTL DEF WorkersSpec

LEMMA HeldByOne == ASSUME WorkersInv, Held PROVE OneBeliever
BY HeldLease DEF OneBeliever

\* Two workers never believe at the same time that they hold one job: the lease is long
\* enough for a keeper (_LeaseKeeper) to notice before another worker can be given it.
THEOREM OneBelieverHolds == WorkersSpec => []OneBeliever
<1>1. WorkersInv /\ Held => OneBeliever
  BY HeldByOne
<1>2. QED
  BY <1>1, HeldInvariance, PTL

\* Two commands of one job run side by side only after a crash, or while a worker that
\* knows it lost its lease has not yet terminated its own.
THEOREM OverlapsExplained == WorkersSpec => []OverlapExplained
<1>1. ASSUME WorkersInv, Held PROVE OverlapExplained
  <2>1. ASSUME NEW c \in commands, NEW d \in commands, c.job = d.job,
               \A e \in {c, d} : worker[e.owner].step # "gone" /\ ~ LeaseLost(e.owner)
        PROVE  c = d
    <3>1. \A e \in {c, d} : /\ e.owner \in Owners /\ e = Command(e.owner)
                            /\ worker[e.owner].step \in {"run", "kill"}
      BY <1>1, <2>1, OneCommand DEF WorkersInv, WorkersTypeOK
    <3>2. \A e \in {c, d} : worker[e.owner].keeper \in {"off", "on", "lost"}
                            /\ worker[e.owner].keeper # "off"
      BY <1>1, <3>1, WorkerFacts DEF Worker, Busy, Steps
    <3>3. \A e \in {c, d} : worker[e.owner].keeper = "on" /\ worker[e.owner].job = e.job
      BY <2>1, <3>1, <3>2 DEF LeaseLost, Command
    <3>4. c.owner = d.owner
      BY <1>1, <2>1, <3>1, <3>3, HeldByOne DEF OneBeliever
    <3>5. QED
      BY <3>1, <3>4
  <2>2. QED
    BY <2>1 DEF OverlapExplained
<1>2. QED
  BY <1>1, HeldInvariance, PTL
----------------------------------------------------------------------------
(* The workers implement the queue.                                        *)

\* Workers, keepers and supervisors use the queue as it is meant to be used: beneath
\* them it still is DurableQueue, so what is proved of that holds for the program.
THEOREM WorkersUseQueue == WorkersSpec => Spec
<1>1. WorkersInit => Init
  BY DEF WorkersInit
<1>2. WorkersInv /\ [WorkersNext]_allVars => [Next]_vars
  BY WorkersStepOfQueue
<1>3. QED
  BY <1>1, <1>2, WorkersInvariance, PTL DEF WorkersSpec, Spec

\* Job by job, the lanes and everything they do to the database are JobLedger.
THEOREM WorkersImplementLedger == WorkersSpec => ImplementsLedger
BY WorkersUseQueue, Refinement, PTL

----------------------------------------------------------------------------
(* The planner: numbers, settings and jobs.                                *)

\* A bounded set of naturals has a largest and a least element.
LEMMA Extremes ==
    ASSUME NEW n \in Nat, NEW S \in SUBSET (0 .. n), S # {}
    PROVE  /\ Max(S) \in S /\ \A x \in S : x <= Max(S)
           /\ Min(S) \in S /\ \A x \in S : Min(S) <= x
<1> DEFINE R == StrictSubsetOrdering(0 .. n)
<1>1. IsWellFoundedOn(R, SUBSET (0 .. n))
  <2>1. IsFiniteSet(0 .. n)
    BY FS_Interval
  <2>2. QED
    BY <2>1, FS_FiniteSubsetsOfFinite, FS_StrictSubsetOrderingWellFounded
<1>2. \E m \in S : \A x \in S : x <= m
  <2> DEFINE T == {x .. n : x \in S}
  <2>1. T \subseteq SUBSET (0 .. n) /\ T # {}
    <3>1. \A x \in S : x .. n \in SUBSET (0 .. n)
      OBVIOUS
    <3>2. QED
      BY <3>1, Zenon
  <2>2. PICK t \in T : \A u \in T : <<u, t>> \notin R
    <3> HIDE DEF T, R
    <3>1. QED
      BY <1>1, <2>1, WFMin
  <2>3. PICK m \in S : t = m .. n
    BY <2>2
  <2>4. ASSUME NEW x \in S, x > m PROVE FALSE
    <3>1. x .. n \subseteq m .. n /\ m \in m .. n /\ m \notin x .. n
      BY <2>4
    <3>2. <<x .. n, m .. n>> \in R
      BY <3>1 DEF StrictSubsetOrdering
    <3>3. QED
      BY <2>2, <2>3, <3>2
  <2>5. QED
    BY <2>4
<1>3. \E m \in S : \A x \in S : m <= x
  <2> DEFINE T == {0 .. x : x \in S}
  <2>1. T \subseteq SUBSET (0 .. n) /\ T # {}
    <3>1. \A x \in S : 0 .. x \in SUBSET (0 .. n)
      OBVIOUS
    <3>2. QED
      BY <3>1, Zenon
  <2>2. PICK t \in T : \A u \in T : <<u, t>> \notin R
    <3> HIDE DEF T, R
    <3>1. QED
      BY <1>1, <2>1, WFMin
  <2>3. PICK m \in S : t = 0 .. m
    BY <2>2
  <2>4. ASSUME NEW x \in S, x < m PROVE FALSE
    <3>1. 0 .. x \subseteq 0 .. m /\ m \in 0 .. m /\ m \notin 0 .. x
      BY <2>4
    <3>2. <<0 .. x, 0 .. m>> \in R
      BY <3>1 DEF StrictSubsetOrdering
    <3>3. QED
      BY <2>2, <2>3, <3>2
  <2>5. QED
    BY <2>4
<1>4. Max(S) \in S /\ \A x \in S : Max(S) >= x
  <2>1. \E m \in S : \A x \in S : m >= x
    BY <1>2
  <2>2. QED
    BY <2>1, Zenon DEF Max
<1>5. Min(S) \in S /\ \A x \in S : Min(S) <= x
  BY <1>3, Zenon DEF Min
<1>6. QED
  BY <1>4, <1>5

LEMMA LargestOf ==
    ASSUME NEW n \in Nat, NEW S \in SUBSET (0 .. n)
    PROVE  /\ Largest(S) \in S \cup {0} /\ Largest(S) \in 0 .. n
           /\ S # {} => Largest(S) \in S
           /\ \A x \in S : x <= Largest(S)
<1>1. CASE S = {}
  BY <1>1 DEF Largest
<1>2. CASE S # {}
  <2>1. Largest(S) = Max(S)
    BY <1>2 DEF Largest
  <2>2. Max(S) \in S /\ \A x \in S : x <= Max(S)
    BY <1>2, Extremes
  <2>3. QED
    BY <1>2, <2>1, <2>2
<1>3. QED
  BY <1>1, <1>2

LEMMA ThresholdsBounded ==
    /\ Thresholds \subseteq 0 .. MaxRows /\ MaxRows \in Nat
    /\ 0 \notin Thresholds /\ 500 \in Thresholds
BY DEF Thresholds, MaxRows

LEMMA NextIsThreshold ==
    ASSUME NEW rows \in 0 .. MaxRows, NEW n
    PROVE  NextCheckpoint(rows, n) \in {0} \cup {k \in Thresholds : k <= rows}
<1> DEFINE due == {k \in Checkpoints(rows) : k > n}
<1>1. due \subseteq {k \in Thresholds : k <= rows}
  BY DEF Checkpoints
<1>2. NextCheckpoint(rows, n) = IF due = {} THEN 0 ELSE Min(due)
  BY DEF NextCheckpoint
<1> HIDE DEF due
<1>3. due \in SUBSET (0 .. MaxRows) /\ MaxRows \in Nat
  BY <1>1, ThresholdsBounded
<1>4. CASE due = {}
  BY <1>2, <1>4
<1>5. CASE due # {}
  <2>1. Min(due) \in due
    <3>1. \A b \in Nat : due \in SUBSET (0 .. b) => Min(due) \in due
      BY <1>5, Extremes
    <3>2. QED
      BY <1>3, <3>1
  <2>2. QED
    BY <1>1, <1>2, <1>5, <2>1
<1>6. QED
  BY <1>4, <1>5

LEMMA SettingFacts ==
    ASSUME setting \in Settings
    PROVE  /\ Len(Rows) \in Nat /\ Datasets = 1 .. Len(Rows) /\ 1 \in Datasets
           /\ Rows \in [Datasets -> 0 .. MaxRows]
           /\ \A d, e \in Datasets : d <= e => Rows[d] <= Rows[e]
           /\ Len(Launches) \in Nat /\ DOMAIN Launches = 1 .. Len(Launches)
           /\ 1 \in DOMAIN Launches
           /\ \A n \in DOMAIN Launches : Launches[n] \in DeploymentsOf(setting)
           /\ \A at \in DeploymentsOf(setting) : at = [root |-> at.root, script |-> at.script]
           /\ setting.done \subseteq Thresholds /\ setting.active \in Models \cup {NoModel}
           /\ NoModel \notin Models
           /\ \A m \in Models : /\ m.data \in Datasets /\ m.checkpoint \in Thresholds
                                /\ m.checkpoint >= 3000 /\ m.checkpoint <= Rows[m.data]
<1> DEFINE At     == DeploymentsOf(setting)
           Counts == 0 .. MaxRows
<1>1. /\ Rows \in Seq(Counts) /\ Len(Rows) > 0
      /\ Launches \in Seq(At) /\ Len(Launches) > 0
      /\ \A d, e \in DOMAIN Rows : d <= e => Rows[d] <= Rows[e]
  BY PlannerAssumption DEF Rows, Launches
<1>2. /\ \A at \in At : at = [root |-> at.root, script |-> at.script]
      /\ setting.done \subseteq Thresholds /\ setting.active \in Models \cup {NoModel}
      /\ NoModel \notin Models
  BY PlannerAssumption DEF Models
<1>3. \A m \in Models : /\ m.data \in Datasets /\ m.checkpoint \in Thresholds
                        /\ m.checkpoint >= 3000 /\ m.checkpoint <= Rows[m.data]
  BY DEF Models, ModelsOf, Datasets, Rows
<1> HIDE DEF At, Counts
<1>4. Len(Rows) \in Nat /\ DOMAIN Rows = 1 .. Len(Rows) /\ Rows \in [1 .. Len(Rows) -> Counts]
  BY <1>1
<1>5. Len(Launches) \in Nat /\ DOMAIN Launches = 1 .. Len(Launches)
      /\ Launches \in [1 .. Len(Launches) -> At]
  BY <1>1
<1>6. Datasets = 1 .. Len(Rows) /\ 1 \in 1 .. Len(Rows) /\ 1 \in 1 .. Len(Launches)
  BY <1>1, <1>4, <1>5 DEF Datasets
<1>7. \A n \in DOMAIN Launches : Launches[n] \in At
  BY <1>5
<1>8. Rows \in [Datasets -> 0 .. MaxRows] /\ \A d, e \in Datasets : d <= e => Rows[d] <= Rows[e]
  <2>1. Datasets = DOMAIN Rows
    BY <1>4, <1>6
  <2>2. Rows \in [Datasets -> Counts]
    BY <1>4, <1>6
  <2>3. QED
    BY <1>1, <2>1, <2>2 DEF Counts
<1>9. Datasets = 1 .. Len(Rows) /\ 1 \in Datasets /\ 1 \in DOMAIN Launches
  BY <1>5, <1>6
<1>10. QED
  BY <1>2, <1>3, <1>4, <1>5, <1>7, <1>8, <1>9 DEF At

\* A job is determined by its type, its key and what its payload counts beyond the key.
LEMMA JobsAre ==
    ASSUME setting \in Settings, NEW r \in RequestsOf(setting)
    PROVE  /\ r.type \in JobTypes
           /\ r.type \in {"tune", "train"} => r.cohort = "revision"
           /\ r.type = "collect"
              => r = CollectJob(r.key[2], [root |-> r.key[1], script |-> 0])
           /\ r.type = "tune"
              => r = TuneJob(r.body.data, [root |-> r.body.root, script |-> r.body.script])
           /\ r.type = "train"
              => r = TrainJob(r.body.checkpoint, r.body.data, [root |-> r.body.root, script |-> 0],
                              r.body.params)
           /\ r.type = "optimize"
              => r = OptimizeJob(r.body.model, r.body.rows, [root |-> r.body.root, script |-> 0])
           /\ r.type = "verify_standard"
              => r = StandardJob(r.body.model, [root |-> r.body.root, script |-> 0])
           /\ r.type = "verify_fine"
              => r = FineJob(r.body.model, [root |-> r.body.root, script |-> 0])
           /\ r.type \in {"tune", "train"} => r.body.data \in Datasets
           /\ r.type \in {"optimize", "verify_standard", "verify_fine"} => r.body.model \in Models
<1> USE DEF JobTypes, Job
<1>1. \/ \E d \in Datasets, at \in DeploymentsOf(setting) : r = CollectJob(d, at)
      \/ \E d \in Datasets, at \in DeploymentsOf(setting) : r = TuneJob(d, at)
      \/ \E k \in Thresholds, d \in Datasets, at \in DeploymentsOf(setting),
            l \in Datasets \cup {0} : r = TrainJob(k, d, at, l)
      \/ \E m \in Models, at \in DeploymentsOf(setting),
            n \in Thresholds \cup {Rows[d] : d \in Datasets} : r = OptimizeJob(m, n, at)
      \/ \E m \in Models, at \in DeploymentsOf(setting) : r = StandardJob(m, at)
      \/ \E m \in Models, at \in DeploymentsOf(setting) : r = FineJob(m, at)
  BY DEF RequestsOf, Datasets, Models, Rows
<1>2. CASE \E d \in Datasets, at \in DeploymentsOf(setting) : r = CollectJob(d, at)
  BY <1>2 DEF CollectJob
<1>3. CASE \E d \in Datasets, at \in DeploymentsOf(setting) : r = TuneJob(d, at)
  BY <1>3 DEF TuneJob
<1>4. CASE \E k \in Thresholds, d \in Datasets, at \in DeploymentsOf(setting),
              l \in Datasets \cup {0} : r = TrainJob(k, d, at, l)
  BY <1>4 DEF TrainJob
<1>5. CASE \E m \in Models, at \in DeploymentsOf(setting),
              n \in Thresholds \cup {Rows[d] : d \in Datasets} : r = OptimizeJob(m, n, at)
  BY <1>5 DEF OptimizeJob
<1>6. CASE \E m \in Models, at \in DeploymentsOf(setting) : r = StandardJob(m, at)
  BY <1>6 DEF StandardJob
<1>7. CASE \E m \in Models, at \in DeploymentsOf(setting) : r = FineJob(m, at)
  BY <1>7 DEF FineJob
<1>8. QED
  BY <1>1, <1>2, <1>3, <1>4, <1>5, <1>6, <1>7

----------------------------------------------------------------------------
(* The planner: the inductive invariant, in four parts.                    *)

\* The rows of the queue are jobs of this controller, each identity once.
Own    == \A i \in Existing : request[i] \in RequestsOf(setting)
OneRow == \A i, j \in Existing :
             request[i].type = request[j].type /\ request[i].key = request[j].key => i = j

\* What a cycle knows at each of its steps.
Outside  == {"start", "descriptor", "snapshot", "status"}
TrainSteps == {"train", "train_keep", "train_put"}
Counted  == TrainSteps \cup {"untrain", "optimize"}

Staged ==
    /\ plan.data <= data
    /\ plan.step \notin Outside => plan.data # 0
    /\ plan.step \in TrainSteps => DueCheckpoint # 0
    /\ plan.step \in Counted /\ plan.model # NoModel
       => plan.rows \in Thresholds \cup {Rows[d] : d \in Datasets}
    /\ plan.step \in {"standard", "fine"} => plan.model # NoModel
    /\ plan.step = "tune_keep" => plan.pick \in RowsOf("tune")
    /\ plan.step = "train_keep" => plan.pick \in RowsOf("train")

PlannerInv == Inv /\ PlannerTypeOK /\ Own /\ OneRow /\ Staged

\* The tunings of the script at hand that wait or run, as a cycle has listed them.
CurrentTunes == {i \in RowsOf("tune") : /\ request[i].body.script = Here.script
                                        /\ row[i].state \in Current}
TuneListed   == /\ plan.step = "tune_put" => CurrentTunes = {}
                /\ plan.step = "tune_keep" => CurrentTunes \subseteq {plan.pick}

\* Every job names the deployment of a launch so far.
Rooted == \A i \in Existing : \E n \in 1 .. plan.launch : Launches[n].root = request[i].body.root

\* A training that has not been started is the latest training there is, ...
FreshTrains == {i \in RowsOf("train") : Fresh(i)}
TrainsPast  == \A i \in RowsOf("train") : /\ request[i].body.data <= data
                                          /\ plan.step \notin Outside
                                             => request[i].body.data <= plan.data
NoLater(i, j) == /\ request[i].body.data <= request[j].body.data
                 /\ \E m, n \in 1 .. plan.launch : /\ m <= n
                                                   /\ Launches[m].root = request[i].body.root
                                                   /\ Launches[n].root = request[j].body.root
FreshIsLatest == \A i \in RowsOf("train"), j \in FreshTrains : NoLater(i, j)

\* ... and from its training step on a cycle has replaced those it does not want.
Wanted(i) == request[i].body.data = plan.data /\ request[i].body.root = Here.root
Planned   == \/ plan.step \in {"optimize", "standard", "fine"}
             \/ plan.step \in {"status", "start"} /\ plan.error = "none" /\ plan.data # 0
Replaced  == /\ plan.step = "train_keep" => (Fresh(plan.pick) => Wanted(plan.pick))
             /\ Planned /\ ~ RolledBack => \A i \in FreshTrains : Wanted(i)

TrainInv == Rooted /\ TrainsPast /\ FreshIsLatest /\ Replaced

\* Dependencies: verifications follow the search, and each other.
Chained == \A i \in Existing :
    parents[i] = CASE request[i].type = "verify_standard" -> RowOf("optimize", request[i].body.model)
                   [] request[i].type = "verify_fine" -> RowOf("verify_standard", request[i].body.model)
                   [] OTHER -> {}
ChainBegun == /\ \A i \in RowsOf("verify_standard") : RowOf("optimize", request[i].body.model) # {}
              /\ \A i \in RowsOf("verify_fine") :
                     RowOf("verify_standard", request[i].body.model) # {}
              /\ plan.step = "standard" => RowOf("optimize", plan.model) # {}
              /\ plan.step = "fine" => RowOf("verify_standard", plan.model) # {}

\* Parameters come from tunings.
ParamsTuned == /\ plan.latest # 0 => tuned # {}
               /\ \A i \in RowsOf("train") : request[i].body.params # 0 => tuned # {}

\* Active rows are those of the model, or a completed threshold above them.
CountOf(n, m, d) == n = Rows[m.data] \/ (n > Rows[m.data] /\ n \in done /\ n <= Rows[d])
SearchRows == \A i \in RowsOf("optimize") :
    LET m == request[i].body.model
        n == request[i].body.rows
    IN /\ CountOf(n, m, data)
       /\ plan.step \notin Outside => CountOf(n, m, plan.data)
       /\ plan.step \in Counted /\ plan.model = m => n <= plan.rows
RowsCounted == plan.step \in Counted /\ plan.model # NoModel
               => CountOf(plan.rows, plan.model, plan.data)

RefusalInv == Rooted /\ Chained /\ ChainBegun /\ ParamsTuned /\ SearchRows /\ RowsCounted
              /\ RefusalExplained

----------------------------------------------------------------------------
(* The planner: what a step does to the plan and to the queue.             *)

LEMMA IdleEffect ==
    ASSUME NEW l \in DOMAIN Launches, NEW d \in Datasets \cup {0},
           NEW e \in JobTypes \cup {"none", "manifest"}, NEW s \in CycleSteps
    PROVE  LET p == [Idle(l, d, e) EXCEPT !.step = s]
           IN /\ p \in Plan /\ p.launch = l /\ p.data = d /\ p.error = e /\ p.step = s
              /\ p.model = NoModel /\ p.latest = 0 /\ p.rows = 0 /\ p.pick = 0
BY DEF Idle, Plan

LEMMA OverEffect ==
    ASSUME PlannerTypeOK, NEW d \in Datasets \cup {0},
           NEW e \in JobTypes \cup {"none", "manifest"}, Over(d, e)
    PROVE  /\ plan' \in Plan /\ plan'.launch = plan.launch /\ plan'.data = d
           /\ plan'.error = e /\ plan'.step = "status"
           /\ plan'.latest = 0
<1>1. plan.launch \in DOMAIN Launches /\ "status" \in CycleSteps /\ setting \in Settings
  BY DEF PlannerTypeOK, Plan, CycleSteps
<1>2. plan' = [Idle(plan.launch, d, e) EXCEPT !.step = "status"]
  BY DEF Over
<1>3. QED
  BY <1>1, <1>2, IdleEffect

\* A cycle goes on, or is over without an error.
LEMMA GoesOnEffect ==
    ASSUME PlannerTypeOK, NEW s \in CycleSteps, GoesOn(s)
    PROVE  /\ plan' \in Plan /\ plan'.step = s
           /\ plan'.launch = plan.launch /\ plan'.data = plan.data
           /\ s # "status" => /\ plan'.model = plan.model /\ plan'.latest = plan.latest
                              /\ plan'.rows = plan.rows /\ plan'.error = plan.error
           /\ s = "status" => plan'.error = "none" /\ plan'.latest = 0
<1>1. plan \in Plan /\ plan.data \in Datasets \cup {0} /\ "none" \in JobTypes \cup {"none", "manifest"}
  BY DEF PlannerTypeOK, Plan
<1>2. CASE s = "status"
  <2>1. Over(plan.data, "none")
    BY <1>2 DEF GoesOn
  <2>2. QED
    BY <1>1, <1>2, <2>1, OverEffect
<1>3. CASE s # "status"
  <2>1. plan' = [plan EXCEPT !.step = s, !.pick = 0]
    BY <1>3 DEF GoesOn
  <2>2. QED
    BY <1>1, <1>3, <2>1 DEF Plan
<1>4. QED
  BY <1>2, <1>3

\* The submissions of a cycle, and where each leads.
Submission(r, deps, next) ==
    \/ /\ plan.step = "collect_put" /\ r = CollectJob(plan.data, Here)
       /\ deps = {} /\ next = "tuning"
    \/ /\ plan.step = "tune_put" /\ r = TuneJob(plan.data, Here)
       /\ deps = {} /\ next = "checkpoints"
    \/ /\ plan.step = "train_put" /\ r = TrainJob(DueCheckpoint, plan.data, Here, plan.latest)
       /\ deps = {} /\ next = "optimize"
    \/ /\ plan.step = "optimize" /\ plan.model # NoModel
       /\ r = OptimizeJob(plan.model, plan.rows, Here)
       /\ deps = {} /\ next = "standard"
    \/ /\ plan.step = "standard" /\ r = StandardJob(plan.model, Here)
       /\ deps = RowOf("optimize", plan.model) /\ next = "fine"
    \/ /\ plan.step = "fine" /\ r = FineJob(plan.model, Here)
       /\ deps = RowOf("verify_standard", plan.model) /\ next = "status"

\* The facts of the type invariant that the steps need.
LEMMA PlanFacts ==
    ASSUME PlannerInv
    PROVE  /\ setting \in Settings /\ plan \in Plan /\ plan.launch \in DOMAIN Launches
           /\ plan.step \in CycleSteps
           /\ Here \in DeploymentsOf(setting) /\ plan.data \in Datasets \cup {0}
           /\ plan.latest \in Datasets \cup {0} /\ plan.model \in Models \cup {NoModel}
           /\ plan.pick \in Ids \cup {0} /\ data \in Datasets /\ plan.rows \in Nat
           /\ plan.step \notin Outside => plan.data \in Datasets
<1>1. setting \in Settings /\ plan \in Plan /\ data \in Datasets
  BY DEF PlannerInv, PlannerTypeOK
<1>2. Here \in DeploymentsOf(setting)
  BY <1>1, SettingFacts DEF Here, Plan
<1>3. plan.step \notin Outside => plan.data # 0
  BY DEF PlannerInv, Staged
<1>4. QED
  BY <1>1, <1>2, <1>3 DEF Plan

LEMMA DueIsThreshold ==
    ASSUME PlannerInv, plan.step \in TrainSteps
    PROVE  DueCheckpoint \in Thresholds
<1>1. plan.data \in Datasets /\ setting \in Settings
  BY PlanFacts DEF TrainSteps, Outside
<1>2. Rows[plan.data] \in 0 .. MaxRows
  BY <1>1, SettingFacts
<1>3. DueCheckpoint # 0
  BY DEF PlannerInv, Staged
<1>4. QED
  BY <1>2, <1>3, NextIsThreshold DEF DueCheckpoint

\* What a cycle submits is one of its own requests.
LEMMA SubmissionOwn ==
    ASSUME PlannerInv, NEW r, NEW deps, NEW next, Submission(r, deps, next)
    PROVE  /\ r \in RequestsOf(setting) /\ r \in Requests
           /\ deps \subseteq Existing /\ deps \in SUBSET Ids
           /\ next \in CycleSteps
<1>1. setting \in Settings /\ Here \in DeploymentsOf(setting)
      /\ plan.latest \in Datasets \cup {0} /\ plan.model \in Models \cup {NoModel}
      /\ (plan.step \notin Outside => plan.data \in Datasets)
  BY PlanFacts
<1>2. r \in RequestsOf(setting)
  <2>1. CASE plan.step = "collect_put" /\ r = CollectJob(plan.data, Here)
    <3>1. plan.data \in Datasets
      BY <1>1, <2>1 DEF Outside
    <3>2. r \in {CollectJob(d, at) : d \in Datasets, at \in DeploymentsOf(setting)}
      BY <1>1, <2>1, <3>1
    <3>3. QED
      BY <3>2 DEF RequestsOf, Datasets, Rows
  <2>2. CASE plan.step = "tune_put" /\ r = TuneJob(plan.data, Here)
    <3>1. plan.data \in Datasets
      BY <1>1, <2>2 DEF Outside
    <3>2. r \in {TuneJob(d, at) : d \in Datasets, at \in DeploymentsOf(setting)}
      BY <1>1, <2>2, <3>1
    <3>3. QED
      BY <3>2 DEF RequestsOf, Datasets, Rows
  <2>3. CASE plan.step = "train_put"
             /\ r = TrainJob(DueCheckpoint, plan.data, Here, plan.latest)
    <3>1. DueCheckpoint \in Thresholds
      BY <2>3, DueIsThreshold DEF TrainSteps
    <3>2. plan.data \in Datasets
      BY <1>1, <2>3 DEF Outside
    <3>3. r \in {TrainJob(k, d, at, l) : k \in Thresholds, d \in Datasets,
                                         at \in DeploymentsOf(setting), l \in Datasets \cup {0}}
      BY <1>1, <2>3, <3>1, <3>2
    <3>4. QED
      BY <3>3 DEF RequestsOf, Datasets, Rows
  <2>4. CASE plan.step = "optimize" /\ plan.model # NoModel
             /\ r = OptimizeJob(plan.model, plan.rows, Here)
    <3>1. plan.rows \in Thresholds \cup {Rows[d] : d \in Datasets}
      BY <2>4 DEF PlannerInv, Staged, Counted
    <3>2. r \in {OptimizeJob(m, n, at) : m \in Models, at \in DeploymentsOf(setting),
                                         n \in Thresholds \cup {Rows[d] : d \in Datasets}}
      BY <1>1, <2>4, <3>1
    <3>3. QED
      BY <3>2 DEF RequestsOf, Models, Rows, Datasets
  <2>5. CASE plan.step = "standard" /\ r = StandardJob(plan.model, Here)
    <3>1. plan.model \in Models
      BY <1>1, <2>5 DEF PlannerInv, Staged
    <3>2. QED
      BY <1>1, <2>5, <3>1 DEF RequestsOf, Models
  <2>6. CASE plan.step = "fine" /\ r = FineJob(plan.model, Here)
    <3>1. plan.model \in Models
      BY <1>1, <2>6 DEF PlannerInv, Staged
    <3>2. QED
      BY <1>1, <2>6, <3>1 DEF RequestsOf, Models
  <2>7. QED
    BY <2>1, <2>2, <2>3, <2>4, <2>5, <2>6 DEF Submission
<1>3. r \in Requests
  BY <1>1, <1>2, SubmissionAssumption DEF PlannerRequests
<1>4. deps \subseteq Existing /\ Existing \subseteq Ids
  BY DEF Submission, RowOf, RowsOf, Existing
<1>5. next \in CycleSteps
  BY DEF Submission, CycleSteps
<1>6. QED
  BY <1>2, <1>3, <1>4, <1>5

\* The steps that submit.
Submits(next) == \E r, deps : Submission(r, deps, next) /\ Put(r, deps, next)

LEMMA PutSteps ==
    ASSUME \/ PutCollect \/ PutTune \/ PutTrain \/ Standard \/ Fine
           \/ Optimize /\ plan.model # NoModel
    PROVE  (\E next : Submits(next)) /\ UNCHANGED <<data, world, manifest>>
<1>1. CASE PutCollect
  BY <1>1 DEF PutCollect, Submits, Submission
<1>2. CASE PutTune
  BY <1>2 DEF PutTune, Submits, Submission
<1>3. CASE PutTrain
  BY <1>3 DEF PutTrain, Submits, Submission
<1>4. CASE Standard
  BY <1>4 DEF Standard, Submits, Submission
<1>5. CASE Fine
  BY <1>5 DEF Fine, Submits, Submission
<1>6. CASE Optimize /\ plan.model # NoModel
  BY <1>6 DEF Optimize, Submits, Submission
<1>7. QED
  BY <1>1, <1>2, <1>3, <1>4, <1>5, <1>6

LEMMA PutOutcomes ==
    ASSUME PlannerInv, NEW r, NEW deps, NEW next, Submission(r, deps, next), Put(r, deps, next)
    PROVE  /\ [Next]_vars
           /\ \/ EnqueueNew(r, deps, 0) /\ GoesOn(next)
              \/ UNCHANGED <<request, parents>>
<1>1. r \in Requests /\ deps \in SUBSET Ids /\ 0 \in 0 .. Lag
  BY SubmissionOwn, BoundAssumption
<1>2. CASE EnqueueNew(r, deps, 0) /\ GoesOn(next)
  BY <1>1, <1>2 DEF Next, Enqueue
<1>3. CASE EnqueueAgain(r, deps)
  BY <1>1, <1>3 DEF Next, Enqueue, EnqueueAgain
<1>4. CASE UNCHANGED vars
  BY <1>4 DEF vars
<1>5. QED
  BY <1>2, <1>3, <1>4 DEF Put

LEMMA KeepOutcomes ==
    ASSUME PlannerInv, NEW other, NEW next, Keep(other, next), plan.pick \in Existing
    PROVE  [Next]_vars /\ UNCHANGED <<request, parents>>
<1>1. CASE UNCHANGED vars
  BY <1>1 DEF vars
<1>2. CASE EnqueueAgain(request[plan.pick], parents[plan.pick])
  <2>1. request[plan.pick] \in Requests /\ parents[plan.pick] \in SUBSET Ids /\ 0 \in 0 .. Lag
    BY BoundAssumption DEF PlannerInv, Inv, Recorded, TypeOK, Existing
  <2>2. QED
    BY <1>2, <2>1 DEF Next, Enqueue, EnqueueAgain
<1>3. QED
  BY <1>1, <1>2 DEF Keep

\* Every step is one of the queue, or leaves it alone; and only a submission of the
\* cycle inserts.
LEMMA PlannerStepKinds ==
    ASSUME PlannerInv, [PlannerNext]_plannerVars
    PROVE  /\ [Next]_vars /\ UNCHANGED setting
           /\ \/ UNCHANGED <<request, parents>>
              \/ \E r, deps, next : /\ Submission(r, deps, next) /\ EnqueueNew(r, deps, 0)
                                    /\ GoesOn(next) /\ UNCHANGED <<data, world, manifest>>
<1>1. UNCHANGED setting
  BY DEF PlannerNext, plannerVars
<1>2. CASE UNCHANGED plannerVars
  BY <1>2 DEF plannerVars, vars
<1>3. CASE \/ OpenCycle \/ CloseCycle
  <2>1. Reconcile(0) /\ 0 \in 0 .. Lag
    BY <1>3, BoundAssumption DEF OpenCycle, CloseCycle
  <2>2. QED
    BY <1>1, <2>1 DEF Next, Reconcile
<1>4. CASE \/ ReadDescriptor \/ Snapshot \/ CheckPointer \/ WriteManifest \/ ListCollect
           \/ ReadTuning \/ ListTune \/ ReadCheckpoints \/ ListTrain \/ Relaunch \/ Grow
           \/ (Optimize /\ plan.model = NoModel)
  <2>1. UNCHANGED vars
    BY <1>4 DEF ReadDescriptor, Snapshot, CheckPointer, WriteManifest, ListCollect,
                ReadTuning, ListTune, ReadCheckpoints, ListTrain, Relaunch, Grow, Optimize
  <2>2. QED
    BY <1>1, <2>1 DEF vars
<1>5. CASE Untune \/ Untrain
  <2>1. PICK r \in RequestsOf(setting) : CancelCoalescedPending(r)
    <3>1. setting \in Settings /\ Here \in DeploymentsOf(setting)
          /\ (plan.step \notin Outside => plan.data \in Datasets)
      BY PlanFacts
    <3>2. plan.data \in Datasets
      BY <1>5, <3>1 DEF Untune, Untrain, Outside
    <3>3. TuneJob(plan.data, Here) \in RequestsOf(setting)
      <4>1. TuneJob(plan.data, Here) \in
                {TuneJob(d, at) : d \in Datasets, at \in DeploymentsOf(setting)}
        BY <3>1, <3>2
      <4>2. QED
        BY <4>1 DEF RequestsOf, Datasets, Rows
    <3>4. TrainJob(500, plan.data, Here, 0) \in RequestsOf(setting)
      <4>1. TrainJob(500, plan.data, Here, 0) \in
                {TrainJob(k, d, at, l) : k \in Thresholds, d \in Datasets,
                                         at \in DeploymentsOf(setting), l \in Datasets \cup {0}}
        BY <3>1, <3>2, ThresholdsBounded
      <4>2. QED
        BY <4>1 DEF RequestsOf, Datasets, Rows
    <3>5. QED
      BY <1>5, <3>3, <3>4 DEF Untune, Untrain
  <2>2. r \in Requests
    BY PlanFacts, SubmissionAssumption DEF PlannerRequests
  <2>3. QED
    BY <1>1, <2>1, <2>2 DEF Next, CancelCoalescedPending
<1>6. CASE KeepTune \/ KeepTrain
  <2>1. plan.pick \in Existing
    BY <1>6 DEF KeepTune, KeepTrain, PlannerInv, Staged, RowsOf
  <2>2. QED
    BY <1>1, <1>6, <2>1, KeepOutcomes DEF KeepTune, KeepTrain
<1>7. CASE \/ PutCollect \/ PutTune \/ PutTrain \/ Standard \/ Fine
           \/ Optimize /\ plan.model # NoModel
  BY <1>1, <1>7, PutSteps, PutOutcomes DEF Submits
<1>8. ASSUME NEW o \in Owners, Take(o) \/ \E i \in Ids : Work(o, i)
      PROVE  [Next]_vars /\ UNCHANGED <<request, parents>>
  <2>1. 0 \in 0 .. Lag
    BY BoundAssumption
  <2>2. CASE Take(o)
    BY <2>1, <2>2 DEF Take, Next, Claim
  <2>3. ASSUME NEW i \in Ids, Work(o, i) PROVE [Next]_vars /\ UNCHANGED <<request, parents>>
    <3>1. CASE UNCHANGED vars
      BY <3>1 DEF vars
    <3>2. CASE Succeed(o, i, NoOutput, 0) \/ Fail(o, i, TRUE, 0)
      BY <2>1, <3>2 DEF Next, Report, Succeed, Fail
    <3>3. CASE PublishTuning(i) \/ Promote(i) \/ Record(i)
      BY <3>1, <3>3 DEF PublishTuning, Promote, Record
    <3>4. CASE Finishes(o, i)
      BY <3>2, <3>4, Zenon DEF Finishes
    <3>5. QED
      BY <2>3, <3>3, <3>4 DEF Work
  <2>4. QED
    BY <1>8, <2>2, <2>3
<1>9. QED
  BY <1>1, <1>2, <1>3, <1>4, <1>5, <1>6, <1>7, <1>8 DEF PlannerNext, PlannerStep

\* What was there stays what it was, and does not become current again.
LEMMA OldRow ==
    ASSUME PlannerInv, [PlannerNext]_plannerVars, NEW i \in Existing
    PROVE  /\ i \in Existing' /\ request'[i] = request[i] /\ parents'[i] = parents[i]
           /\ row'[i].state \in Current => row[i].state \in Current
           /\ Fresh(i)' => Fresh(i)
<1>1. Inv /\ [Next]_vars
  BY PlannerStepKinds DEF PlannerInv
<1>2. RowMove(i) /\ row[i].state # "absent" /\ i \in Ids
  BY <1>1, StepMoves DEF Existing
<1>3. request'[i] = request[i] /\ parents'[i] = parents[i] /\ row'[i].state # "absent"
  BY <1>2 DEF RowMove, Untouched, Inserted, Promoted, Claimed, Ended, Dropped, SameTerms,
              Pending, Lost
<1>4. row'[i].state \in Current => row[i].state \in Current
  BY <1>2 DEF RowMove, Untouched, Inserted, Promoted, Claimed, Ended, Dropped, Current,
              Pending, Lost
<1>5. Fresh(i)' => Fresh(i)
  BY <1>1, <1>2, FreshOrigin
<1>6. QED
  BY <1>2, <1>3, <1>4, <1>5 DEF Existing

\* What is new is what the cycle has just submitted, and nothing else is.
LEMMA NewRow ==
    ASSUME PlannerInv, [PlannerNext]_plannerVars, NEW i \in Existing' \ Existing
    PROVE  /\ \E next : /\ Submission(request'[i], parents'[i], next) /\ GoesOn(next)
                        /\ UNCHANGED <<data, world, manifest>>
           /\ Existing' = Existing \cup {i}
           /\ \A j \in Existing : \/ request[j].type # request'[i].type
                                  \/ request[j].key # request'[i].key
<1>1. Inv /\ [Next]_vars /\ Inv' /\ i \in Ids
  BY PlannerStepKinds, InvStep DEF PlannerInv, Existing
<1>2. ~ UNCHANGED <<request, parents>>
  BY <1>1 DEF Inv, Recorded
<1>3. PICK r, deps, next : /\ Submission(r, deps, next) /\ EnqueueNew(r, deps, 0)
                           /\ GoesOn(next) /\ UNCHANGED <<data, world, manifest>>
  BY <1>2, PlannerStepKinds
<1>4. PICK k \in Ids \ Existing :
          /\ \A j \in Existing : <<request[j].type, request[j].key>> # <<r.type, r.key>>
          /\ request' = [request EXCEPT ![k] = r] /\ parents' = [parents EXCEPT ![k] = deps]
  BY <1>3 DEF EnqueueNew
<1>5. \A j \in Ids \ {k} : request'[j] = request[j]
  BY <1>1, <1>4 DEF Inv, TypeOK
<1>6. \A j \in Ids \ {k} : j \in Existing' <=> j \in Existing
  BY <1>1, <1>5 DEF Inv, Recorded
<1>7. i = k /\ request'[i] = r /\ parents'[i] = deps
  BY <1>1, <1>4, <1>6 DEF Inv, TypeOK
<1>8. Existing' = Existing \cup {i}
  BY <1>1, <1>6, <1>7 DEF Existing
<1>9. QED
  BY <1>3, <1>4, <1>7, <1>8

----------------------------------------------------------------------------
(* The planner: PlannerInv is inductive.                                   *)

LEMMA SettingFixed ==
    ASSUME UNCHANGED setting
    PROVE  /\ Rows' = Rows /\ Launches' = Launches /\ Datasets' = Datasets /\ Models' = Models
           /\ Plan' = Plan /\ RequestsOf(setting)' = RequestsOf(setting)
BY DEF Rows, Launches, Datasets, Models, Plan

LEMMA RowsKept ==
    ASSUME PlannerInv, [PlannerNext]_plannerVars
    PROVE  Inv' /\ Own' /\ OneRow' /\ \A t : RowsOf(t) \subseteq RowsOf(t)'
<1>1. Inv' /\ UNCHANGED setting
  BY PlannerStepKinds, InvStep DEF PlannerInv
<1>2. Own'
  <2>1. ASSUME NEW i \in Existing' PROVE request'[i] \in RequestsOf(setting)
    <3>1. CASE i \in Existing
      BY <3>1, OldRow DEF PlannerInv, Own
    <3>2. CASE i \notin Existing
      BY <2>1, <3>2, NewRow, SubmissionOwn
    <3>3. QED
      BY <3>1, <3>2
  <2>2. QED
    BY <1>1, <2>1, SettingFixed DEF Own
<1>3. OneRow'
  <2>1. ASSUME NEW i \in Existing', NEW j \in Existing', i # j,
               request'[i].type = request'[j].type, request'[i].key = request'[j].key
        PROVE  FALSE
    <3>1. CASE i \in Existing /\ j \in Existing
      BY <2>1, <3>1, OldRow DEF PlannerInv, OneRow
    <3>2. CASE i \notin Existing
      BY <2>1, <3>2, NewRow, OldRow
    <3>3. CASE j \notin Existing
      BY <2>1, <3>3, NewRow, OldRow
    <3>4. QED
      BY <3>1, <3>2, <3>3
  <2>2. QED
    BY <2>1 DEF OneRow
<1>4. \A t : RowsOf(t) \subseteq RowsOf(t)'
  BY OldRow DEF RowsOf
<1>5. QED
  BY <1>1, <1>2, <1>3, <1>4

LEMMA AuthorityOf ==
    ASSUME NEW running \in SUBSET Ids, NEW pending \in SUBSET Ids
    PROVE  LET pick == Authority(running, pending)
           IN /\ pick \in Ids \cup {0}
              /\ pick # 0 => pick \in running \/ pick \in pending
              /\ pick = 0 => running = {} /\ pending = {}
<1>1. MaxJobs \in Nat /\ Ids = 1 .. MaxJobs
  BY BoundAssumption DEF Ids
<1>2. running \in SUBSET (0 .. MaxJobs) /\ pending \in SUBSET (0 .. MaxJobs) /\ 0 \notin Ids
  BY <1>1
<1>3. CASE running # {}
  <2>1. Max(running) \in running
    BY <1>1, <1>2, <1>3, Extremes
  <2>2. QED
    BY <1>2, <1>3, <2>1 DEF Authority
<1>4. CASE running = {}
  <2>1. Largest(pending) \in pending \cup {0} /\ (pending # {} => Largest(pending) \in pending)
    BY <1>1, <1>2, LargestOf
  <2>2. QED
    BY <1>2, <1>4, <2>1 DEF Authority
<1>5. QED
  BY <1>3, <1>4

\* Active rows are the rows of the model, or a completed threshold.
LEMMA ActiveRowsAre ==
    ASSUME PlannerInv, plan.step \notin Outside
    PROVE  /\ ActiveRows \in Nat
           /\ \A k \in done : k <= Rows[plan.data] => k <= ActiveRows
           /\ plan.model # NoModel
              => /\ ActiveRows >= Rows[plan.model.data]
                 /\ \/ ActiveRows = Rows[plan.model.data]
                    \/ ActiveRows \in done /\ ActiveRows <= Rows[plan.data]
<1> DEFINE S == {k \in done : k <= Rows[plan.data]}
                    \cup (IF plan.model = NoModel THEN {} ELSE {Rows[plan.model.data]})
<1>1. plan.data \in Datasets /\ plan.model \in Models \cup {NoModel} /\ setting \in Settings
  BY PlanFacts
<1>2. done \subseteq 0 .. MaxRows /\ MaxRows \in Nat
  BY ThresholdsBounded DEF PlannerInv, PlannerTypeOK
<1>3. plan.model # NoModel => Rows[plan.model.data] \in 0 .. MaxRows
  BY <1>1, SettingFacts
<1>4. S \in SUBSET (0 .. MaxRows)
  BY <1>2, <1>3
<1>5. ActiveRows = Largest(S)
  BY DEF ActiveRows
<1>6. /\ \A k \in done : k <= Rows[plan.data] => k \in S
      /\ plan.model # NoModel => Rows[plan.model.data] \in S
      /\ \A k \in S : \/ k \in done /\ k <= Rows[plan.data]
                      \/ plan.model # NoModel /\ k = Rows[plan.model.data]
  OBVIOUS
<1> HIDE DEF S
<1>7. /\ Largest(S) \in 0 .. MaxRows /\ (S # {} => Largest(S) \in S)
      /\ \A x \in S : x <= Largest(S)
  BY <1>2, <1>4, LargestOf
<1>8. ActiveRows \in Nat /\ \A k \in done : k <= Rows[plan.data] => k <= ActiveRows
  BY <1>2, <1>5, <1>6, <1>7
<1>9. ASSUME plan.model # NoModel
      PROVE  /\ ActiveRows >= Rows[plan.model.data]
             /\ \/ ActiveRows = Rows[plan.model.data]
                \/ ActiveRows \in done /\ ActiveRows <= Rows[plan.data]
  <2>1. ActiveRows \in S /\ Rows[plan.model.data] <= ActiveRows
    BY <1>5, <1>6, <1>7, <1>9
  <2>2. QED
    BY <1>3, <1>6, <1>8, <1>9, <2>1
<1>10. QED
  BY <1>8, <1>9

LEMMA GoesOnStaged ==
    ASSUME PlannerInv, UNCHANGED <<setting, data>>, NEW s \in CycleSteps, GoesOn(s),
           plan.step \notin Outside, s \notin {"tune_keep", "train_keep"},
           s \in TrainSteps => plan.step \in TrainSteps,
           s \in Counted => plan.step \in Counted,
           s \in {"standard", "fine"} => plan.model # NoModel
    PROVE  plan' \in Plan /\ Staged'
<1>1. /\ plan' \in Plan /\ plan'.step = s /\ plan'.data = plan.data
      /\ s # "status" => plan'.model = plan.model /\ plan'.rows = plan.rows
  BY GoesOnEffect DEF PlannerInv
<1>2. Rows' = Rows /\ Datasets' = Datasets
  BY SettingFixed
<1>3. plan'.data <= data' /\ (s \notin Outside => plan'.data # 0)
  BY <1>1 DEF PlannerInv, Staged
<1>4. s \in TrainSteps => DueCheckpoint' # 0
  BY <1>1, <1>2 DEF PlannerInv, Staged, DueCheckpoint, TrainSteps
<1>5. s \in Counted /\ plan'.model # NoModel
      => plan'.rows \in Thresholds \cup {Rows[d] : d \in Datasets}
  BY <1>1 DEF PlannerInv, Staged, Counted, TrainSteps
<1>6. s \in {"standard", "fine"} => plan'.model # NoModel
  BY <1>1
<1>7. QED
  BY <1>1, <1>2, <1>3, <1>4, <1>5, <1>6 DEF Staged

LEMMA OverStaged ==
    ASSUME PlannerInv, NEW e \in JobTypes \cup {"manifest"}, Raises(e), data' = data
    PROVE  plan' \in Plan /\ Staged'
<1>1. plan' \in Plan /\ plan'.step = "status" /\ plan'.data = 0 /\ data \in Datasets
  BY OverEffect, PlanFacts DEF Raises, PlannerInv
<1>2. 0 <= data
  BY <1>1, PlanFacts, SettingFacts
<1>3. QED
  BY <1>1, <1>2 DEF Staged, Outside, TrainSteps, Counted

LEMMA PutStaged ==
    ASSUME PlannerInv, [PlannerNext]_plannerVars, NEW next, Submits(next),
           UNCHANGED <<setting, data>>
    PROVE  plan' \in Plan /\ Staged'
<1>1. PICK r, deps : Submission(r, deps, next) /\ Put(r, deps, next)
  BY DEF Submits
<1>2. r.type \in JobTypes
  BY <1>1, SubmissionOwn, JobsAre, PlanFacts
<1>3. CASE Raises(r.type)
  BY <1>2, <1>3, OverStaged
<1>4. CASE GoesOn(next)
  <2>1. next \in CycleSteps
    BY <1>1, SubmissionOwn
  <2>2. /\ plan.step \notin Outside /\ next \notin {"tune_keep", "train_keep"}
        /\ next \in TrainSteps => plan.step \in TrainSteps
        /\ next \in Counted => plan.step \in Counted
        /\ next \in {"standard", "fine"} => plan.model # NoModel
    BY <1>1 DEF Submission, Outside, TrainSteps, Counted, PlannerInv, Staged
  <2>3. QED
    BY <1>4, <2>1, <2>2, GoesOnStaged
<1>5. QED
  BY <1>1, <1>3, <1>4 DEF Put

\* The steps that read.
LEMMA ReadStaged ==
    ASSUME PlannerInv, [PlannerNext]_plannerVars, UNCHANGED <<setting, data>>,
           \/ OpenCycle \/ CloseCycle \/ ReadDescriptor \/ Snapshot \/ ReadTuning
           \/ ReadCheckpoints
    PROVE  plan' \in Plan /\ Staged'
<1> USE DEF Outside, TrainSteps, Counted
<1>1. /\ plan \in Plan /\ setting \in Settings /\ plan.launch \in DOMAIN Launches
      /\ active \in Models \cup {NoModel} /\ tuned \in SUBSET Datasets /\ data \in Datasets
      /\ plan.data <= data
  BY PlanFacts DEF PlannerInv, PlannerTypeOK, Staged
<1>2. Rows' = Rows /\ Datasets' = Datasets /\ data \in Nat /\ 0 \notin Datasets
  BY <1>1, SettingFixed, SettingFacts
<1>3. {"descriptor", "start", "snapshot", "pointer", "tune", "untune", "train", "untrain"}
      \subseteq CycleSteps
  BY DEF CycleSteps
<1>4. CASE OpenCycle
  <2>1. plan' \in Plan /\ plan'.step = "descriptor" /\ plan'.data = 0
    BY <1>1, <1>3, <1>4, IdleEffect DEF OpenCycle
  <2>2. QED
    BY <1>2, <2>1 DEF Staged
<1>5. CASE CloseCycle
  <2>1. plan' = [plan EXCEPT !.step = "start"]
    BY <1>5 DEF CloseCycle
  <2>2. plan' \in Plan /\ plan'.step = "start" /\ plan'.data = plan.data
    BY <1>1, <1>3, <2>1 DEF Plan
  <2>3. QED
    BY <1>1, <2>2 DEF Staged
<1>6. CASE ReadDescriptor
  <2>1. plan' = [plan EXCEPT !.step = "snapshot", !.model = active]
    BY <1>6 DEF ReadDescriptor
  <2>2. plan' \in Plan /\ plan'.step = "snapshot" /\ plan'.data = plan.data
    BY <1>1, <1>3, <2>1 DEF Plan
  <2>3. QED
    BY <1>1, <2>2 DEF Staged
<1>7. CASE Snapshot
  <2>1. plan' = [plan EXCEPT !.step = "pointer", !.data = data]
    BY <1>7 DEF Snapshot
  <2>2. plan' \in Plan /\ plan'.step = "pointer" /\ plan'.data = data
    BY <1>1, <1>3, <2>1 DEF Plan
  <2>3. QED
    BY <1>1, <1>2, <2>2 DEF Staged
<1>8. CASE ReadTuning
  <2>1. Largest(tuned) \in Datasets \cup {0}
    <3>1. Len(Rows) \in Nat /\ Datasets = 1 .. Len(Rows)
      BY <1>1, SettingFacts
    <3>2. tuned \in SUBSET (0 .. Len(Rows))
      BY <1>1, <3>1
    <3>3. Largest(tuned) \in tuned \cup {0}
      BY <3>1, <3>2, LargestOf
    <3>4. QED
      BY <1>1, <3>3
  <2>2. PICK s \in {"tune", "untune"} :
            plan' = [plan EXCEPT !.latest = Largest(tuned), !.step = s]
    BY <1>8 DEF ReadTuning
  <2>3. /\ plan' \in Plan /\ plan'.step \in {"tune", "untune"} /\ plan'.data = plan.data
    BY <1>1, <1>3, <2>1, <2>2 DEF Plan
  <2>4. plan.data # 0
    BY <1>8 DEF ReadTuning, PlannerInv, Staged
  <2>5. QED
    BY <1>1, <2>3, <2>4 DEF Staged
<1>9. CASE ReadCheckpoints
  <2>1. plan.step \notin Outside
    BY <1>9 DEF ReadCheckpoints
  <2>2. /\ ActiveRows \in Nat
        /\ plan.model # NoModel => \/ ActiveRows = Rows[plan.model.data]
                                   \/ ActiveRows \in done
    BY <2>1, ActiveRowsAre
  <2>3. plan.model # NoModel => ActiveRows \in Thresholds \cup {Rows[d] : d \in Datasets}
    <3>1. plan.model \in Models \cup {NoModel} /\ done \subseteq Thresholds
      BY PlanFacts DEF PlannerInv, PlannerTypeOK
    <3>2. QED
      BY <1>1, <2>2, <3>1, SettingFacts
  <2>4. PICK s \in {"train", "untrain"} :
            /\ plan' = [plan EXCEPT !.rows = ActiveRows, !.step = s]
            /\ s = "train" <=> NextCheckpoint(Rows[plan.data], ActiveRows) # 0
    BY <1>9 DEF ReadCheckpoints
  <2>5. /\ plan' \in Plan /\ plan'.step = s /\ plan'.data = plan.data /\ plan'.rows = ActiveRows
        /\ plan'.model = plan.model
    BY <1>1, <1>3, <2>2, <2>4 DEF Plan
  <2>6. s = "train" => DueCheckpoint' # 0
    BY <1>2, <2>4, <2>5 DEF DueCheckpoint
  <2>7. plan.data # 0
    BY <2>1 DEF PlannerInv, Staged
  <2>8. QED
    BY <1>1, <1>2, <2>3, <2>4, <2>5, <2>6, <2>7 DEF Staged
<1>10. QED
  BY <1>4, <1>5, <1>6, <1>7, <1>8, <1>9

\* The steps that look for a job under way.
ListStep == ListTune \/ ListTrain

LEMMA ListStaged ==
    ASSUME PlannerInv, [PlannerNext]_plannerVars, UNCHANGED <<setting, data>>, ListStep
    PROVE  plan' \in Plan /\ Staged'
<1> USE DEF Outside, TrainSteps, Counted
<1>1. plan \in Plan /\ Rows' = Rows /\ Datasets' = Datasets /\ UNCHANGED vars
      /\ UNCHANGED <<setting, data>>
  BY PlanFacts, SettingFixed DEF ListStep, ListTune, ListTrain
<1>2. \A t : RowsOf(t)' = RowsOf(t) /\ RowsOf(t) \subseteq Ids
  BY <1>1 DEF RowsOf, Existing, vars
<1>3. {"tune_put", "tune_keep", "train_put", "train_keep"} \subseteq CycleSteps
  BY DEF CycleSteps
<1>4. ASSUME NEW type \in {"tune", "train"},
             NEW running \in SUBSET RowsOf(type), NEW pending \in SUBSET RowsOf(type),
             NEW put \in {"tune_put", "train_put"}, NEW keep \in {"tune_keep", "train_keep"},
             keep = "tune_keep" <=> type = "tune",
             plan.step \in {"tune", "train"},
             {put, keep} \cap TrainSteps # {} => plan.step = "train",
             LET pick == Authority(running, pending)
             IN plan' = [plan EXCEPT !.pick = pick, !.step = IF pick = 0 THEN put ELSE keep]
      PROVE  plan' \in Plan /\ Staged'
  <2> DEFINE pick == Authority(running, pending)
             s    == IF pick = 0 THEN put ELSE keep
  <2>1. /\ pick \in Ids \cup {0}
        /\ pick # 0 => pick \in RowsOf(type)
    <3>1. running \in SUBSET Ids /\ pending \in SUBSET Ids
      BY <1>2
    <3>2. QED
      BY <3>1, AuthorityOf
  <2>2. s \in CycleSteps /\ plan' = [plan EXCEPT !.pick = pick, !.step = s]
    BY <1>3, <1>4
  <2>3. s = keep => pick \in RowsOf(type)
    BY <2>1
  <2>4. s \in {put, keep}
    OBVIOUS
  <2> HIDE DEF pick, s
  <2>5. /\ plan' \in Plan /\ plan'.step = s /\ plan'.pick = pick /\ plan'.data = plan.data
        /\ plan'.rows = plan.rows /\ plan'.model = plan.model
    BY <1>1, <2>1, <2>2 DEF Plan
  <2>6. plan'.data <= data' /\ plan'.data # 0
    BY <1>1, <1>4, <2>5 DEF PlannerInv, Staged
  <2>7. s \in TrainSteps => DueCheckpoint' # 0
    BY <1>1, <1>4, <2>4, <2>5 DEF PlannerInv, Staged, DueCheckpoint
  <2>8. s \in Counted /\ plan'.model # NoModel
        => plan'.rows \in Thresholds \cup {Rows[d] : d \in Datasets}
    BY <1>4, <2>4, <2>5 DEF PlannerInv, Staged
  <2>9. /\ s = "tune_keep" => plan'.pick \in RowsOf("tune")
        /\ s = "train_keep" => plan'.pick \in RowsOf("train")
    BY <1>4, <2>3, <2>4, <2>5
  <2>10. s \notin {"standard", "fine"}
    BY <2>4
  <2>11. QED
    BY <1>1, <1>2, <2>5, <2>6, <2>7, <2>8, <2>9, <2>10 DEF Staged
<1>5. CASE ListTune
  <2> DEFINE mine == {i \in RowsOf("tune") : request[i].body.script = Here.script}
  <2>1. /\ plan.step = "tune"
        /\ LET pick == Authority(InState(mine, {"running"}), InState(mine, Pending))
           IN plan' = [plan EXCEPT !.pick = pick,
                                   !.step = IF pick = 0 THEN "tune_put" ELSE "tune_keep"]
    BY <1>5 DEF ListTune
  <2>2. InState(mine, {"running"}) \subseteq RowsOf("tune")
        /\ InState(mine, Pending) \subseteq RowsOf("tune")
    BY DEF InState
  <2> HIDE DEF mine
  <2>3. QED
    BY <1>4, <2>1, <2>2
<1>6. CASE ListTrain
  <2> DEFINE pending == {i \in InState(RowsOf("train"), Pending) :
                            request[i].key = <<DueCheckpoint, plan.data, Here.root>>}
  <2>1. /\ plan.step = "train"
        /\ LET pick == Authority(InState(RowsOf("train"), {"running"}), pending)
           IN plan' = [plan EXCEPT !.pick = pick,
                                   !.step = IF pick = 0 THEN "train_put" ELSE "train_keep"]
    BY <1>6 DEF ListTrain
  <2>2. InState(RowsOf("train"), {"running"}) \subseteq RowsOf("train")
        /\ pending \subseteq RowsOf("train")
    BY DEF InState
  <2> HIDE DEF pending
  <2>3. QED
    BY <1>4, <2>1, <2>2
<1>7. QED
  BY <1>5, <1>6 DEF ListStep

\* A worker does not touch the plan.
LEMMA WorkerEffect ==
    ASSUME NEW o \in Owners, Take(o) \/ \E i \in Ids : Work(o, i)
    PROVE  UNCHANGED <<data, manifest, plan>>
<1>1. CASE Take(o)
  BY <1>1 DEF Take
<1>2. ASSUME NEW i \in Ids, Work(o, i) PROVE UNCHANGED <<data, manifest, plan>>
  <2>1. CASE PublishTuning(i) \/ Promote(i) \/ Record(i)
    BY <2>1 DEF PublishTuning, Promote, Record
  <2>2. CASE Finishes(o, i)
    BY <2>2, Zenon DEF Finishes
  <2>3. QED
    BY <1>2, <2>1, <2>2 DEF Work
<1>3. QED
  BY <1>1, <1>2

LEMMA StagedStep == ASSUME PlannerInv, [PlannerNext]_plannerVars PROVE plan' \in Plan /\ Staged'
<1>1. /\ UNCHANGED setting /\ \A t : RowsOf(t) \subseteq RowsOf(t)'
      /\ Rows' = Rows /\ Datasets' = Datasets
  BY PlannerStepKinds, RowsKept, SettingFixed
<1>2. plan \in Plan /\ data \in Datasets /\ setting \in Settings /\ Staged
      /\ plan.launch \in DOMAIN Launches
  BY PlanFacts DEF PlannerInv
<1>3. data \in Nat /\ plan.data \in Nat
  BY <1>2, SettingFacts, PlanFacts
<1>4. ASSUME UNCHANGED plan, data' \in {data, data + 1} PROVE plan' \in Plan /\ Staged'
  BY <1>1, <1>2, <1>3, <1>4 DEF Staged, DueCheckpoint
<1>5. CASE PlannerStep
  <2>1. data' = data
    BY <1>5 DEF PlannerStep, OpenCycle, CloseCycle, ReadDescriptor, Snapshot, CheckPointer,
                WriteManifest, ListCollect, PutCollect, ReadTuning, Untune, ListTune, KeepTune,
                PutTune, ReadCheckpoints, Untrain, ListTrain, KeepTrain, PutTrain, Optimize,
                Standard, Fine
  <2>2. CASE \/ OpenCycle \/ CloseCycle \/ ReadDescriptor \/ Snapshot \/ ReadTuning
             \/ ReadCheckpoints
    BY <1>1, <2>1, <2>2, ReadStaged
  <2>3. CASE ListTune \/ ListTrain
    BY <1>1, <2>1, <2>3, ListStaged DEF ListStep
  <2>4. CASE \/ PutCollect \/ PutTune \/ PutTrain \/ Standard \/ Fine
             \/ Optimize /\ plan.model # NoModel
    BY <1>1, <2>1, <2>4, PutSteps, PutStaged
  <2>5. ASSUME NEW s \in CycleSteps, GoesOn(s),
               plan.step \notin Outside, s \notin {"tune_keep", "train_keep"},
               s \in TrainSteps => plan.step \in TrainSteps,
               s \in Counted => plan.step \in Counted, s \notin {"standard", "fine"}
        PROVE  plan' \in Plan /\ Staged'
    BY <1>1, <2>1, <2>5, GoesOnStaged
  <2>6. CASE \/ WriteManifest \/ ListCollect \/ Untune \/ KeepTune \/ Untrain \/ KeepTrain
             \/ Optimize /\ plan.model = NoModel
    <3>1. \E s \in CycleSteps :
              /\ GoesOn(s) /\ plan.step \notin Outside
              /\ s \notin {"tune_keep", "train_keep", "standard", "fine"}
              /\ s \in TrainSteps => plan.step \in TrainSteps
              /\ s \in Counted => plan.step \in Counted
      BY <2>6 DEF WriteManifest, ListCollect, Untune, KeepTune, Untrain, KeepTrain, Optimize,
                  Keep, CycleSteps, Outside, TrainSteps, Counted
    <3>2. QED
      BY <2>5, <3>1
  <2>7. CASE CheckPointer
    <3>1. CASE Raises("manifest")
      BY <2>1, <3>1, OverStaged
    <3>2. CASE GoesOn("manifest")
      BY <2>5, <2>7, <3>2 DEF CheckPointer, CycleSteps, Outside, TrainSteps, Counted
    <3>3. QED
      BY <2>7, <3>1, <3>2 DEF CheckPointer
  <2>8. QED
    BY <1>5, <2>2, <2>3, <2>4, <2>6, <2>7 DEF PlannerStep
<1>6. CASE Relaunch
  <2>1. plan.launch + 1 \in DOMAIN Launches /\ plan' = Idle(plan.launch + 1, 0, "none")
        /\ data' = data
    BY <1>6 DEF Relaunch
  <2>2. plan' \in Plan /\ plan'.step = "start" /\ plan'.data = 0
    BY <2>1 DEF Idle, Plan, CycleSteps
  <2>3. QED
    BY <1>3, <2>1, <2>2 DEF Staged, Outside, TrainSteps, Counted
<1>7. CASE Grow
  BY <1>4, <1>7 DEF Grow
<1>8. ASSUME NEW o \in Owners, Take(o) \/ \E i \in Ids : Work(o, i)
      PROVE  plan' \in Plan /\ Staged'
  <2>1. UNCHANGED <<data, plan>>
    BY <1>8, WorkerEffect
  <2>2. QED
    BY <1>4, <2>1
<1>9. CASE UNCHANGED plannerVars
  BY <1>4, <1>9 DEF plannerVars
<1>10. QED
  BY <1>5, <1>6, <1>7, <1>8, <1>9 DEF PlannerNext

\* A training trains for a threshold that its dataset has reached.
LEMMA TrainedIs ==
    ASSUME PlannerInv, NEW i \in RowsOf("train")
    PROVE  /\ request[i].body.data \in Datasets
           /\ Trained(i) \in Thresholds \cup {0}
           /\ Trained(i) # 0 => Trained(i) <= Rows[request[i].body.data]
<1> DEFINE d   == request[i].body.data
           due == Checkpoints(Rows[d]) \ done
<1>1. setting \in Settings /\ i \in Existing /\ request[i] \in RequestsOf(setting)
      /\ request[i].type = "train"
  BY PlanFacts DEF RowsOf, PlannerInv, Own
<1>2. d \in Datasets
  BY <1>1, JobsAre
<1>3. due \subseteq {k \in Thresholds : k <= Rows[d]}
  BY DEF Checkpoints
<1>4. Trained(i) = IF due = {} THEN 0 ELSE Min(due)
  BY DEF Trained
<1> HIDE DEF due
<1>5. due \in SUBSET (0 .. MaxRows) /\ MaxRows \in Nat
  BY <1>3, ThresholdsBounded
<1>6. due # {} => Min(due) \in due
  <2>1. \A b \in Nat : due # {} /\ due \in SUBSET (0 .. b) => Min(due) \in due
    BY Extremes
  <2>2. QED
    BY <1>5, <2>1
<1>7. QED
  BY <1>2, <1>3, <1>4, <1>6

\* What goes on around the planner stays within the setting, and only ever adds.
LEMMA WorldStep ==
    ASSUME PlannerInv, [PlannerNext]_plannerVars
    PROVE  /\ data' \in Datasets /\ data <= data'
           /\ tuned' \subseteq Datasets /\ tuned \subseteq tuned'
           /\ done' \subseteq Thresholds /\ done \subseteq done'
           /\ active' \in Models \cup {NoModel}
           /\ manifest' \in [model : Models \cup {NoModel}, pointer : Models \cup {NoModel}]
<1>1. /\ setting \in Settings /\ data \in Datasets /\ data \in Nat /\ tuned \subseteq Datasets
      /\ done \subseteq Thresholds /\ active \in Models \cup {NoModel}
      /\ manifest \in [model : Models \cup {NoModel}, pointer : Models \cup {NoModel}]
      /\ plan.model \in Models \cup {NoModel}
  BY PlanFacts, SettingFacts DEF PlannerInv, PlannerTypeOK
<1>2. CASE UNCHANGED <<data, world>>
          /\ manifest' \in [model : Models \cup {NoModel}, pointer : Models \cup {NoModel}]
  BY <1>1, <1>2 DEF world
<1>3. CASE UNCHANGED plannerVars
  BY <1>1, <1>2, <1>3 DEF plannerVars
<1>4. CASE WriteManifest
  <2>1. UNCHANGED <<data, world>>
        /\ manifest' = [model   |-> plan.model,
                        pointer |-> IF plan.model = NoModel THEN NoModel ELSE active]
    BY <1>4 DEF WriteManifest
  <2>2. QED
    BY <1>1, <1>2, <2>1
<1>5. CASE PlannerStep /\ ~ WriteManifest
  <2>1. UNCHANGED <<data, world, manifest>>
    BY <1>5 DEF PlannerStep, OpenCycle, CloseCycle, ReadDescriptor, Snapshot, CheckPointer,
                ListCollect, PutCollect, ReadTuning, Untune, ListTune, KeepTune,
                PutTune, ReadCheckpoints, Untrain, ListTrain, KeepTrain, PutTrain, Optimize,
                Standard, Fine
  <2>2. QED
    BY <1>1, <1>2, <2>1
<1>6. CASE Relaunch
  BY <1>1, <1>2, <1>6 DEF Relaunch
<1>7. CASE Grow
  <2>1. data' = data + 1 /\ data + 1 \in Datasets /\ UNCHANGED <<world, manifest>>
    BY <1>7 DEF Grow
  <2>2. QED
    BY <1>1, <2>1 DEF world
<1>8. ASSUME NEW o \in Owners, Take(o)
      PROVE  UNCHANGED <<data, world, manifest>>
  BY <1>8 DEF Take
<1>9. ASSUME NEW o \in Owners, NEW i \in Ids, Work(o, i)
      PROVE  /\ UNCHANGED <<data, manifest>>
             /\ tuned' \subseteq Datasets /\ tuned \subseteq tuned'
             /\ done' \subseteq Thresholds /\ done \subseteq done'
             /\ active' \in Models \cup {NoModel}
  <2>1. CASE PublishTuning(i)
    <3>1. i \in Existing /\ request[i].type = "tune" /\ request[i] \in RequestsOf(setting)
      BY <2>1 DEF PublishTuning, Runs, Existing, PlannerInv, Own
    <3>2. request[i].body.data \in Datasets
      BY <1>1, <3>1, JobsAre
    <3>3. QED
      BY <1>1, <2>1, <3>2 DEF PublishTuning
  <2>2. CASE Promote(i)
    <3>1. i \in RowsOf("train") /\ Trained(i) >= 3000
      BY <1>9, <2>2 DEF Promote, Runs, RowsOf, Existing
    <3>2. Candidate(i) \in Models
      <4>1. /\ request[i].body.data \in Datasets /\ Trained(i) \in Thresholds
            /\ Trained(i) <= Rows[request[i].body.data]
        BY <3>1, TrainedIs
      <4>2. QED
        BY <3>1, <4>1 DEF Candidate, Models, ModelsOf, Datasets, Rows
    <3>3. QED
      BY <1>1, <2>2, <3>2 DEF Promote
  <2>3. CASE Record(i)
    <3>1. i \in RowsOf("train") /\ Trained(i) # 0
      BY <1>9, <2>3 DEF Record, Runs, RowsOf, Existing
    <3>2. QED
      BY <1>1, <2>3, <3>1, TrainedIs DEF Record
  <2>4. CASE Finishes(o, i)
    <3>1. UNCHANGED <<data, world, manifest>>
      BY <2>4, Zenon DEF Finishes
    <3>2. QED
      BY <1>1, <3>1 DEF world
  <2>5. QED
    BY <1>9, <2>1, <2>2, <2>3, <2>4 DEF Work
<1>10. QED
  BY <1>1, <1>2, <1>3, <1>4, <1>5, <1>6, <1>7, <1>8, <1>9 DEF PlannerNext

LEMMA PlannerInvInit == ASSUME PlannerInit PROVE PlannerInv
<1>1. Inv
  BY InvInit DEF PlannerInit
<1>2. Existing = {}
  BY DEF PlannerInit, Init, Existing, NoRow
<1>3. /\ setting \in Settings /\ data = 1 /\ tuned = {} /\ done = setting.done
      /\ active = setting.active /\ manifest = [model |-> NoModel, pointer |-> NoModel]
      /\ plan = Idle(1, 0, "none")
  BY DEF PlannerInit
<1>4. /\ done \subseteq Thresholds /\ data \in Datasets /\ active \in Models \cup {NoModel}
      /\ 1 \in DOMAIN Launches /\ data \in Nat
  BY <1>3, SettingFacts
<1>5. plan \in Plan /\ plan.step = "start" /\ plan.data = 0
  BY <1>3, <1>4 DEF Idle, Plan, CycleSteps
<1>6. PlannerTypeOK
  <2>1. row \in [Ids -> Row] /\ parents \in [Ids -> SUBSET Ids]
    BY <1>1 DEF Inv, TypeOK
  <2>2. QED
    BY <1>2, <1>3, <1>4, <1>5, <2>1 DEF PlannerTypeOK
<1>7. Staged
  BY <1>3, <1>4, <1>5 DEF Staged, Outside, TrainSteps, Counted
<1>8. QED
  BY <1>1, <1>2, <1>6, <1>7 DEF PlannerInv, Own, OneRow

LEMMA PlannerInvStep == ASSUME PlannerInv, [PlannerNext]_plannerVars PROVE PlannerInv'
<1>1. Inv' /\ Own' /\ OneRow' /\ UNCHANGED setting
  BY RowsKept, PlannerStepKinds
<1>2. plan' \in Plan /\ Staged'
  BY StagedStep
<1>3. /\ Plan' = Plan /\ Datasets' = Datasets /\ Models' = Models
      /\ RequestsOf(setting)' = RequestsOf(setting)
  BY <1>1, SettingFixed
<1>4. setting \in Settings
  BY PlanFacts
<1>5. row' \in [Ids -> Row] /\ parents' \in [Ids -> SUBSET Ids]
  BY <1>1 DEF Inv, TypeOK
<1>6. \A i \in Existing' : request'[i].type \in JobTypes
  BY <1>1, <1>3, <1>4, JobsAre DEF Own
<1>7. PlannerTypeOK'
  BY <1>1, <1>2, <1>3, <1>4, <1>5, <1>6, WorldStep DEF PlannerTypeOK
<1>8. QED
  BY <1>1, <1>2, <1>7 DEF PlannerInv

\* The queue beneath the planner is that of DurableQueue, every row is a job some cycle
\* submits, once per key, and the registers of a cycle fit the step it is at.
THEOREM PlannerInvariance == PlannerSpec => []PlannerInv
<1>1. PlannerInit => PlannerInv
  BY PlannerInvInit
<1>2. PlannerInv /\ [PlannerNext]_plannerVars => PlannerInv'
  BY PlannerInvStep
<1>3. QED
  BY <1>1, <1>2, PTL DEF PlannerSpec

\* The registers of a cycle, the rows of the queue and the outside world keep their
\* types.
THEOREM PlannerTypeCorrect == PlannerSpec => []PlannerTypeOK
<1>1. PlannerInv => PlannerTypeOK
  BY DEF PlannerInv
<1>2. QED
  BY <1>1, PlannerInvariance, PTL

\* The planner too uses the queue as it is meant to be used: its cycles, and the lanes
\* as far as it sees them, submit only requests the queue may be given, and touch rows
\* only through its operations.
THEOREM PlannerUsesQueue == PlannerSpec => Spec
<1>1. PlannerInit => Init
  BY DEF PlannerInit
<1>2. PlannerInv /\ [PlannerNext]_plannerVars => [Next]_vars
  BY PlannerStepKinds
<1>3. QED
  BY <1>1, <1>2, PlannerInvariance, PTL DEF PlannerSpec, Spec

\* Job by job, what the planner and the lanes do to the database is JobLedger.
THEOREM PlannerImplementsLedger == PlannerSpec => ImplementsLedger
BY PlannerUsesQueue, Refinement, PTL

----------------------------------------------------------------------------
(* The planner: how a cycle goes on.                                       *)

\* At each step a cycle has one thing to do.
LEMMA OneActionPerStep ==
    ASSUME PlannerStep
    PROVE  /\ plan.step = "pointer"    => CheckPointer
           /\ plan.step = "tune"       => ListTune
           /\ plan.step = "tune_keep"  => KeepTune
           /\ plan.step = "tune_put"   => PutTune
           /\ plan.step = "train"      => ListTrain
           /\ plan.step = "train_keep" => KeepTrain
           /\ plan.step = "train_put"  => PutTrain
           /\ plan.step = "untrain"    => Untrain
           /\ plan.step = "optimize"   => Optimize
           /\ plan.step = "standard"   => Standard
           /\ plan.step = "fine"       => Fine
BY DEF PlannerStep, OpenCycle, CloseCycle, ReadDescriptor, Snapshot, CheckPointer,
       WriteManifest, ListCollect, PutCollect, ReadTuning, Untune, ListTune, KeepTune,
       PutTune, ReadCheckpoints, Untrain, ListTrain, KeepTrain, PutTrain, Optimize,
       Standard, Fine

\* The steps that only lead on, and where to.
Onward == {<<"pointer", "manifest">>, <<"manifest", "collect">>, <<"collect", "collect_put">>,
           <<"collect", "tuning">>, <<"collect_put", "tuning">>, <<"untune", "checkpoints">>,
           <<"tune_keep", "tune_put">>, <<"tune_keep", "checkpoints">>,
           <<"tune_put", "checkpoints">>, <<"untrain", "optimize">>,
           <<"train_keep", "train_put">>, <<"train_keep", "optimize">>,
           <<"train_put", "optimize">>, <<"optimize", "status">>, <<"optimize", "standard">>,
           <<"standard", "fine">>, <<"fine", "status">>}

Refused(r, deps) == \E i \in RowsOf(r.type) : /\ request[i].key = r.key
                                              /\ request[i] # r \/ parents[i] # deps

Refuses == \E r, deps, next : /\ Submission(r, deps, next) /\ Refused(r, deps)
                              /\ Raises(r.type) /\ UNCHANGED vars

LEMMA PutMoves ==
    ASSUME NEW next, Submits(next)
    PROVE  \/ Refuses
           \/ \E s \in CycleSteps : <<plan.step, s>> \in Onward /\ GoesOn(s)
<1>1. PICK r, deps : Submission(r, deps, next) /\ Put(r, deps, next)
  BY DEF Submits
<1>2. CASE Raises(r.type) /\ UNCHANGED vars
           /\ \E i \in {k \in RowsOf(r.type) : request[k].key = r.key} :
                  request[i] # r \/ parents[i] # deps
  <2>1. Refused(r, deps)
    BY <1>2 DEF Refused
  <2>2. QED
    BY <1>1, <1>2, <2>1 DEF Refuses
<1>3. CASE GoesOn(next)
  <2>1. <<plan.step, next>> \in Onward /\ next \in CycleSteps
    BY <1>1 DEF Submission, Onward, CycleSteps
  <2>2. QED
    BY <1>3, <2>1
<1>4. QED
  BY <1>1, <1>2, <1>3 DEF Put

LEMMA PlanMoves ==
    ASSUME PlannerInv, [PlannerNext]_plannerVars
    PROVE  \/ UNCHANGED plan
           \/ OpenCycle \/ CloseCycle \/ ReadDescriptor \/ Snapshot \/ ReadTuning
           \/ ReadCheckpoints \/ ListTune \/ ListTrain
           \/ Relaunch
           \/ CheckPointer /\ Raises("manifest")
           \/ Refuses
           \/ \E s \in CycleSteps : <<plan.step, s>> \in Onward /\ GoesOn(s)
<1>1. CASE \/ PutCollect \/ PutTune \/ PutTrain \/ Standard \/ Fine
           \/ Optimize /\ plan.model # NoModel
  BY <1>1, PutSteps, PutMoves
<1>2. CASE \/ WriteManifest \/ ListCollect \/ Untune \/ Untrain \/ KeepTune \/ KeepTrain
           \/ Optimize /\ plan.model = NoModel
  BY <1>2 DEF WriteManifest, ListCollect, Untune, KeepTune, Untrain, KeepTrain, Optimize,
              Keep, CycleSteps, Onward
<1>3. CASE CheckPointer
  BY <1>3 DEF CheckPointer, CycleSteps, Onward
<1>4. CASE Grow
  BY <1>4 DEF Grow
<1>5. CASE UNCHANGED plannerVars
  BY <1>5 DEF plannerVars
<1>6. ASSUME NEW o \in Owners, Take(o) \/ \E i \in Ids : Work(o, i)
      PROVE  UNCHANGED plan
  BY <1>6, WorkerEffect
<1>7. QED
  BY <1>1, <1>2, <1>3, <1>4, <1>5, <1>6 DEF PlannerNext, PlannerStep

\* What the other steps make of the plan.
LEMMA ReadEffects ==
    ASSUME PlannerInv
    PROVE  /\ OpenCycle => /\ plan'.step = "descriptor" /\ plan'.launch = plan.launch
                           /\ plan'.error = "none" /\ plan'.data = 0 /\ plan'.latest = 0
                           /\ plan'.model = NoModel
           /\ CloseCycle => /\ plan.step = "status" /\ plan'.step = "start"
                            /\ plan'.launch = plan.launch /\ plan'.error = plan.error
                            /\ plan'.data = plan.data /\ plan'.latest = plan.latest
                            /\ plan'.model = plan.model
           /\ ReadDescriptor => /\ plan'.step = "snapshot" /\ plan'.launch = plan.launch
                                /\ plan'.error = plan.error /\ plan'.data = plan.data
                                /\ plan'.latest = plan.latest /\ plan'.model = active
           /\ Snapshot => /\ plan'.step = "pointer" /\ plan'.launch = plan.launch
                          /\ plan'.error = plan.error /\ plan'.data = data
                          /\ plan'.latest = plan.latest /\ plan'.model = plan.model
           /\ ReadTuning => /\ plan.step = "tuning" /\ plan'.step \in {"tune", "untune"}
                            /\ plan'.launch = plan.launch /\ plan'.error = plan.error
                            /\ plan'.data = plan.data /\ plan'.latest = Largest(tuned)
                            /\ plan'.model = plan.model
           /\ ReadCheckpoints => /\ plan.step = "checkpoints" /\ plan'.rows = ActiveRows
                                 /\ plan'.step \in {"train", "untrain"}
                                 /\ plan'.launch = plan.launch /\ plan'.error = plan.error
                                 /\ plan'.data = plan.data /\ plan'.latest = plan.latest
                                 /\ plan'.model = plan.model
           /\ ListTune \/ ListTrain
              => /\ plan'.launch = plan.launch /\ plan'.error = plan.error
                 /\ plan'.data = plan.data /\ plan'.latest = plan.latest
                 /\ plan'.model = plan.model /\ plan'.rows = plan.rows
           /\ ListTune  => plan.step = "tune" /\ plan'.step \in {"tune_put", "tune_keep"}
           /\ ListTrain => plan.step = "train" /\ plan'.step \in {"train_put", "train_keep"}
           /\ Relaunch => /\ plan'.step = "start" /\ plan'.launch = plan.launch + 1
                          /\ plan'.launch \in DOMAIN Launches
                          /\ plan'.error = "none" /\ plan'.data = 0 /\ plan'.latest = 0
                          /\ plan'.model = NoModel
<1>1. plan \in Plan
  BY PlanFacts
<1>2. ASSUME OpenCycle
      PROVE  /\ plan'.step = "descriptor" /\ plan'.launch = plan.launch
             /\ plan'.error = "none" /\ plan'.data = 0 /\ plan'.latest = 0
             /\ plan'.model = NoModel
  <2>1. plan' = [Idle(plan.launch, 0, "none") EXCEPT !.step = "descriptor"]
    BY <1>2 DEF OpenCycle
  <2>2. QED
    BY <2>1 DEF Idle
<1>3. ASSUME NEW x, NEW s, plan' = [plan EXCEPT !.latest = x, !.step = s]
      PROVE  /\ plan'.launch = plan.launch /\ plan'.error = plan.error /\ plan'.model = plan.model
             /\ plan'.data = plan.data /\ plan'.latest = x /\ plan'.step = s
  BY <1>1, <1>3 DEF Plan
<1>4. ASSUME NEW x, NEW s, plan' = [plan EXCEPT !.rows = x, !.step = s]
      PROVE  /\ plan'.launch = plan.launch /\ plan'.error = plan.error /\ plan'.model = plan.model
             /\ plan'.data = plan.data /\ plan'.latest = plan.latest /\ plan'.step = s
             /\ plan'.rows = x
  BY <1>1, <1>4 DEF Plan
<1>5. ASSUME NEW x, NEW s, plan' = [plan EXCEPT !.pick = x, !.step = s]
      PROVE  /\ plan'.launch = plan.launch /\ plan'.error = plan.error /\ plan'.model = plan.model
             /\ plan'.data = plan.data /\ plan'.latest = plan.latest /\ plan'.step = s
             /\ plan'.rows = plan.rows
  BY <1>1, <1>5 DEF Plan
<1>6. ASSUME CloseCycle
      PROVE  /\ plan.step = "status" /\ plan'.step = "start"
             /\ plan'.launch = plan.launch /\ plan'.error = plan.error
             /\ plan'.data = plan.data /\ plan'.latest = plan.latest /\ plan'.model = plan.model
  BY <1>1, <1>6 DEF CloseCycle, Plan
<1>7. ASSUME ReadDescriptor
      PROVE  /\ plan'.step = "snapshot" /\ plan'.launch = plan.launch
             /\ plan'.error = plan.error /\ plan'.data = plan.data
             /\ plan'.latest = plan.latest /\ plan'.model = active
  BY <1>1, <1>7 DEF ReadDescriptor, Plan
<1>8. ASSUME Snapshot
      PROVE  /\ plan'.step = "pointer" /\ plan'.launch = plan.launch
             /\ plan'.error = plan.error /\ plan'.data = data
             /\ plan'.latest = plan.latest /\ plan'.model = plan.model
  BY <1>1, <1>8 DEF Snapshot, Plan
<1>9. ASSUME ReadTuning
      PROVE  /\ plan.step = "tuning" /\ plan'.step \in {"tune", "untune"}
             /\ plan'.launch = plan.launch /\ plan'.error = plan.error
             /\ plan'.data = plan.data /\ plan'.latest = Largest(tuned)
             /\ plan'.model = plan.model
  <2>1. PICK s \in {"tune", "untune"} : plan' = [plan EXCEPT !.latest = Largest(tuned), !.step = s]
    BY <1>9 DEF ReadTuning
  <2>2. QED
    BY <1>3, <1>9, <2>1 DEF ReadTuning
<1>10. ASSUME ReadCheckpoints
       PROVE  /\ plan.step = "checkpoints" /\ plan'.rows = ActiveRows
              /\ plan'.step \in {"train", "untrain"}
              /\ plan'.launch = plan.launch /\ plan'.error = plan.error
              /\ plan'.data = plan.data /\ plan'.latest = plan.latest
              /\ plan'.model = plan.model
  <2>1. PICK s \in {"train", "untrain"} : plan' = [plan EXCEPT !.rows = ActiveRows, !.step = s]
    BY <1>10 DEF ReadCheckpoints
  <2>2. QED
    BY <1>4, <1>10, <2>1 DEF ReadCheckpoints
<1>11. ASSUME ListTune
       PROVE  /\ plan'.launch = plan.launch /\ plan'.error = plan.error
              /\ plan'.data = plan.data /\ plan'.latest = plan.latest
              /\ plan'.model = plan.model /\ plan'.rows = plan.rows
              /\ plan.step = "tune" /\ plan'.step \in {"tune_put", "tune_keep"}
  <2>1. \E x : \E s \in {"tune_put", "tune_keep"} : plan' = [plan EXCEPT !.pick = x, !.step = s]
    BY <1>11 DEF ListTune
  <2>2. QED
    BY <1>5, <1>11, <2>1 DEF ListTune
<1>12. ASSUME ListTrain
       PROVE  /\ plan'.launch = plan.launch /\ plan'.error = plan.error
              /\ plan'.data = plan.data /\ plan'.latest = plan.latest
              /\ plan'.model = plan.model /\ plan'.rows = plan.rows
              /\ plan.step = "train" /\ plan'.step \in {"train_put", "train_keep"}
  <2>1. \E x : \E s \in {"train_put", "train_keep"} : plan' = [plan EXCEPT !.pick = x, !.step = s]
    BY <1>12 DEF ListTrain
  <2>2. QED
    BY <1>5, <1>12, <2>1 DEF ListTrain
<1>13. ASSUME Relaunch
       PROVE  /\ plan'.step = "start" /\ plan'.launch = plan.launch + 1
              /\ plan'.launch \in DOMAIN Launches
              /\ plan'.error = "none" /\ plan'.data = 0 /\ plan'.latest = 0
              /\ plan'.model = NoModel
  BY <1>13 DEF Relaunch, Idle
<1>14. QED
  BY <1>2, <1>6, <1>7, <1>8, <1>9, <1>10, <1>11, <1>12, <1>13

\* A refusal ends the cycle.
LEMMA RefusesEffect ==
    ASSUME PlannerInv, Refuses
    PROVE  /\ plan'.step = "status" /\ plan'.launch = plan.launch /\ plan'.data = 0
           /\ plan'.latest = 0 /\ plan'.error \in JobTypes
           /\ \E r, deps, next : Submission(r, deps, next) /\ Refused(r, deps)
                                 /\ plan'.error = r.type
           /\ UNCHANGED vars
<1>1. PICK r, deps, next : /\ Submission(r, deps, next) /\ Refused(r, deps)
                           /\ Raises(r.type) /\ UNCHANGED vars
  BY DEF Refuses
<1>2. r.type \in JobTypes
  BY <1>1, SubmissionOwn, JobsAre, PlanFacts
<1>3. /\ plan'.step = "status" /\ plan'.launch = plan.launch /\ plan'.data = 0
      /\ plan'.error = r.type /\ plan'.latest = 0
  BY <1>1, <1>2, OverEffect DEF Raises, PlannerInv
<1>4. QED
  BY <1>1, <1>2, <1>3

\* Only a relaunch moves to another deployment, and then begins anew.
LEMMA RelaunchStep ==
    ASSUME PlannerInv, [PlannerNext]_plannerVars
    PROVE  \/ plan'.launch = plan.launch /\ Here' = Here
           \/ /\ Relaunch /\ plan' = Idle(plan.launch + 1, 0, "none")
              /\ plan.launch + 1 \in DOMAIN Launches /\ plan'.launch = plan.launch + 1
<1>1. plan \in Plan /\ plan.launch \in DOMAIN Launches /\ UNCHANGED setting
      /\ 0 \in Datasets \cup {0} /\ "none" \in JobTypes \cup {"none", "manifest"}
  BY PlanFacts, PlannerStepKinds
<1>2. Launches' = Launches
  BY <1>1, SettingFixed
<1>3. plan'.launch = plan.launch => Here' = Here
  BY <1>2 DEF Here
<1>4. CASE Raises("manifest")
  BY <1>3, <1>4, OverEffect DEF Raises, PlannerInv
<1>5. CASE \E s \in CycleSteps : GoesOn(s)
  BY <1>3, <1>5, GoesOnEffect DEF PlannerInv
<1>6. CASE Relaunch
  BY <1>6 DEF Relaunch, Idle
<1>7. CASE UNCHANGED plan
  BY <1>3, <1>7
<1>8. QED
  BY <1>3, <1>4, <1>5, <1>6, <1>7, PlanMoves, ReadEffects, RefusesEffect

\* A new row: the cycle goes on from the step that submits it.
LEMMA NewRowSteps ==
    ASSUME PlannerInv, [PlannerNext]_plannerVars, NEW i \in Existing' \ Existing
    PROVE  /\ plan'.launch = plan.launch /\ Here' = Here
           /\ UNCHANGED <<setting, data, world, manifest>>
           /\ plan'.step \in {"tuning", "checkpoints", "optimize", "standard", "fine", "status"}
           /\ request'[i] \in RequestsOf(setting)
           /\ request'[i].type = "tune" => /\ plan.step = "tune_put"
                                           /\ plan'.step = "checkpoints"
                                           /\ request'[i] = TuneJob(plan.data, Here)
           /\ request'[i].type = "train" => /\ plan.step = "train_put"
                                            /\ plan'.step = "optimize"
                                            /\ request'[i] = TrainJob(DueCheckpoint, plan.data,
                                                                      Here, plan.latest)
<1>1. PICK next : /\ Submission(request'[i], parents'[i], next) /\ GoesOn(next)
                  /\ UNCHANGED <<data, world, manifest>>
  BY NewRow
<1>2. next \in CycleSteps /\ request'[i] \in RequestsOf(setting)
  BY <1>1, SubmissionOwn
<1>3. plan'.launch = plan.launch /\ plan'.step = next /\ UNCHANGED setting
  BY <1>1, <1>2, GoesOnEffect, PlannerStepKinds DEF PlannerInv
<1>4. Here' = Here
  BY <1>3, SettingFixed DEF Here
<1>5. /\ CollectJob(plan.data, Here).type = "collect"
      /\ TuneJob(plan.data, Here).type = "tune"
      /\ TrainJob(DueCheckpoint, plan.data, Here, plan.latest).type = "train"
      /\ OptimizeJob(plan.model, plan.rows, Here).type = "optimize"
      /\ StandardJob(plan.model, Here).type = "verify_standard"
      /\ FineJob(plan.model, Here).type = "verify_fine"
  BY DEF CollectJob, TuneJob, TrainJob, OptimizeJob, StandardJob, FineJob, Job
<1>6. QED
  BY <1>1, <1>2, <1>3, <1>4, <1>5 DEF Submission

----------------------------------------------------------------------------
(* The planner: one tuning of a script.                                    *)

LEMMA OneTuningStep ==
    ASSUME PlannerInv, OneTuning, TuneListed, [PlannerNext]_plannerVars
    PROVE  OneTuning'
<1> DEFINE Live(i) == row[i].state \in Current
           S(i)    == request[i].body.script
<1>1. ASSUME NEW i \in RowsOf("tune")', NEW j \in RowsOf("tune")', Live(i)', Live(j)',
             S(i)' = S(j)', i # j, i \notin Existing
      PROVE  FALSE
  <2>1. i \in Existing' \ Existing /\ request'[i].type = "tune"
        /\ j \in Existing' /\ request'[j].type = "tune"
    BY <1>1 DEF RowsOf
  <2>2. plan.step = "tune_put" /\ request'[i] = TuneJob(plan.data, Here)
    BY <2>1, NewRowSteps
  <2>3. j \in Existing
    BY <1>1, <2>1, NewRow
  <2>4. j \in RowsOf("tune") /\ Live(j) /\ S(j) = Here.script
    BY <1>1, <2>1, <2>2, <2>3, OldRow DEF RowsOf, TuneJob, Job
  <2>5. QED
    BY <2>2, <2>4 DEF TuneListed, CurrentTunes
<1>2. ASSUME NEW i \in RowsOf("tune")', NEW j \in RowsOf("tune")', Live(i)', Live(j)',
             S(i)' = S(j)', i \in Existing, j \in Existing
      PROVE  i = j
  <2>1. i \in RowsOf("tune") /\ Live(i) /\ S(i)' = S(i)
    BY <1>2, OldRow DEF RowsOf
  <2>2. j \in RowsOf("tune") /\ Live(j) /\ S(j)' = S(j)
    BY <1>2, OldRow DEF RowsOf
  <2>3. QED
    BY <1>2, <2>1, <2>2 DEF OneTuning
<1>3. QED
  BY <1>1, <1>2 DEF OneTuning

LEMMA TuneListedStep ==
    ASSUME PlannerInv, OneTuning, TuneListed, [PlannerNext]_plannerVars
    PROVE  TuneListed'
<1>1. SUFFICES ASSUME plan'.step \in {"tune_put", "tune_keep"} PROVE TuneListed'
  BY DEF TuneListed
<1>2. plan'.launch = plan.launch /\ Here' = Here
  BY <1>1, RelaunchStep DEF Idle
<1>3. Existing' \subseteq Existing
  BY <1>1, NewRowSteps
<1>4. CurrentTunes' \subseteq CurrentTunes
  BY <1>2, <1>3, OldRow DEF CurrentTunes, RowsOf
<1>5. CASE UNCHANGED plan
  BY <1>4, <1>5 DEF TuneListed
<1>6. CASE ListTune
  <2> DEFINE mine == {i \in RowsOf("tune") : request[i].body.script = Here.script}
             pick == Authority(InState(mine, {"running"}), InState(mine, Pending))
  <2>1. plan' = [plan EXCEPT !.pick = pick, !.step = IF pick = 0 THEN "tune_put" ELSE "tune_keep"]
    BY <1>6 DEF ListTune
  <2>2. /\ InState(mine, {"running"}) \in SUBSET Ids /\ InState(mine, Pending) \in SUBSET Ids
        /\ CurrentTunes = InState(mine, {"running"}) \cup InState(mine, Pending)
    BY DEF InState, RowsOf, Existing, CurrentTunes, Current
  <2>3. /\ pick # 0 => pick \in CurrentTunes
        /\ pick = 0 => CurrentTunes = {}
    BY <2>2, AuthorityOf
  <2>4. \A i, j \in CurrentTunes : i = j
    BY DEF OneTuning, CurrentTunes
  <2> HIDE DEF pick, mine
  <2>5. plan \in Plan
    BY PlanFacts
  <2>6. plan'.pick = pick /\ plan'.step = IF pick = 0 THEN "tune_put" ELSE "tune_keep"
    BY <2>1, <2>5 DEF Plan
  <2>7. QED
    BY <1>4, <2>3, <2>4, <2>6 DEF TuneListed
<1>7. CASE plan.step = "tune_keep" /\ GoesOn("tune_put")
  <2>1. ASSUME PlannerStep PROVE TuneListed'
    <3>1. Keep("tune_put", "checkpoints")
      BY <1>7, <2>1, OneActionPerStep DEF KeepTune
    <3>2. plan'.step = "tune_put"
      BY <1>7, GoesOnEffect DEF PlannerInv, CycleSteps
    <3>3. ~ GoesOn("checkpoints")
      BY <3>2, GoesOnEffect DEF PlannerInv, CycleSteps
    <3>4. row[plan.pick].state \in Terminal
      BY <3>1, <3>3 DEF Keep
    <3>5. plan.pick \notin CurrentTunes
      BY <3>4 DEF CurrentTunes, Current, Pending, Terminal, Lost
    <3>6. CurrentTunes = {}
      BY <1>7, <3>5 DEF TuneListed
    <3>7. QED
      BY <1>4, <3>2, <3>6 DEF TuneListed
  <2>2. CASE ~ PlannerStep /\ ~ Relaunch
    <3>1. UNCHANGED plan
      BY <2>2, WorkerEffect DEF PlannerNext, Grow, plannerVars
    <3>2. QED
      BY <1>5, <3>1
  <2>3. CASE Relaunch
    BY <1>1, <2>3 DEF Relaunch, Idle
  <2>4. QED
    BY <2>1, <2>2, <2>3
<1>8. CASE \E s \in CycleSteps : <<plan.step, s>> \in Onward /\ GoesOn(s)
  <2>1. PICK s \in CycleSteps : <<plan.step, s>> \in Onward /\ GoesOn(s)
    BY <1>8
  <2>2. plan'.step = s
    BY <2>1, GoesOnEffect DEF PlannerInv
  <2>3. plan.step = "tune_keep" /\ s = "tune_put"
    BY <1>1, <2>1, <2>2 DEF Onward
  <2>4. QED
    BY <1>7, <2>1, <2>3
<1>9. CASE Refuses
  BY <1>1, <1>9, RefusesEffect
<1>10. CASE CheckPointer /\ Raises("manifest")
  <2>1. plan'.step = "status"
    BY <1>10, OverEffect DEF Raises, PlannerInv
  <2>2. QED
    BY <1>1, <2>1
<1>11. CASE \/ OpenCycle \/ CloseCycle \/ ReadDescriptor \/ Snapshot \/ ReadTuning
            \/ ReadCheckpoints \/ ListTrain \/ Relaunch
  BY <1>1, <1>11, ReadEffects
<1>12. QED
  BY <1>5, <1>6, <1>8, <1>9, <1>10, <1>11, PlanMoves

\* At most one tuning of a script waits or runs, although plan_cycle decides to submit
\* one in another transaction than the one that found none.
THEOREM TuningsAlone == PlannerSpec => []OneTuning
<1>1. PlannerInit => OneTuning /\ TuneListed
  <2>1. ASSUME PlannerInit PROVE Existing = {} /\ plan.step = "start"
    BY <2>1 DEF PlannerInit, Init, Existing, NoRow, Idle
  <2>2. QED
    BY <2>1 DEF OneTuning, TuneListed, RowsOf
<1>2. /\ PlannerInv /\ OneTuning /\ TuneListed /\ [PlannerNext]_plannerVars
      => (OneTuning /\ TuneListed)'
  BY OneTuningStep, TuneListedStep
<1>3. QED
  BY <1>1, <1>2, PlannerInvariance, PTL DEF PlannerSpec

----------------------------------------------------------------------------
(* The planner: trainings that have not been started.                      *)

\* What is submitted names the deployment of the launch that submits it.
LEMMA SubmissionHere ==
    ASSUME NEW r, NEW deps, NEW next, Submission(r, deps, next)
    PROVE  r.body.root = Here.root
BY DEF Submission, CollectJob, TuneJob, TrainJob, OptimizeJob, StandardJob, FineJob, Job

LEMMA TrainRow ==
    ASSUME PlannerInv, NEW i \in RowsOf("train")
    PROVE  /\ i \in Existing /\ i \in Ids /\ request[i].type = "train"
           /\ request[i].cohort = "revision" /\ request[i].cohort # NoCohort
           /\ request[i].key = <<request[i].body.checkpoint, request[i].body.data,
                                 request[i].body.root>>
           /\ request[i].body.data \in Datasets /\ request[i].body.data \in Nat
<1>1. i \in Existing /\ i \in Ids /\ request[i].type = "train" /\ setting \in Settings
      /\ request[i] \in RequestsOf(setting)
  BY PlanFacts DEF RowsOf, Existing, PlannerInv, Own
<1>2. request[i].key = <<request[i].body.checkpoint, request[i].body.data, request[i].body.root>>
  <2> DEFINE r == request[i]
             at == [root |-> r.body.root, script |-> 0]
  <2>1. r = TrainJob(r.body.checkpoint, r.body.data, at, r.body.params)
    BY <1>1, JobsAre
  <2>2. \A k, d, l : TrainJob(k, d, at, l).key = <<k, d, r.body.root>>
    BY DEF TrainJob, Job
  <2> HIDE DEF r
  <2>3. r.key = <<r.body.checkpoint, r.body.data, r.body.root>>
    BY <2>1, <2>2
  <2>4. QED
    BY <2>3 DEF r
<1>3. request[i].cohort = "revision" /\ request[i].cohort # NoCohort
  BY <1>1, JobsAre, PlannerAssumption
<1>4. request[i].body.data \in Datasets /\ request[i].body.data \in Nat
  <2>1. request[i].body.data \in Datasets
    BY <1>1, JobsAre
  <2>2. Datasets \subseteq Nat
    BY <1>1, SettingFacts
  <2>3. QED
    BY <2>1, <2>2
<1>5. QED
  BY <1>1, <1>2, <1>3, <1>4

LEMMA RootedStep ==
    ASSUME PlannerInv, Rooted, [PlannerNext]_plannerVars
    PROVE  Rooted'
<1>1. /\ UNCHANGED setting /\ plan.launch \in Nat /\ plan.launch >= 1
      /\ plan'.launch \in Nat /\ plan.launch <= plan'.launch
  <2>1. plan.launch \in Nat /\ plan.launch >= 1 /\ UNCHANGED setting
    BY PlanFacts, SettingFacts, PlannerStepKinds
  <2>2. QED
    BY <2>1, RelaunchStep
<1>2. Launches' = Launches
  BY <1>1, SettingFixed
<1>3. ASSUME NEW i \in Existing'
      PROVE  \E n \in 1 .. plan'.launch : Launches[n].root = request'[i].body.root
  <2>1. CASE i \in Existing
    <3>1. request'[i] = request[i]
      BY <2>1, OldRow
    <3>2. PICK n \in 1 .. plan.launch : Launches[n].root = request[i].body.root
      BY <2>1 DEF Rooted
    <3>3. QED
      BY <1>1, <3>1, <3>2
  <2>2. CASE i \notin Existing
    <3>1. PICK next : Submission(request'[i], parents'[i], next)
      BY <1>3, <2>2, NewRow
    <3>2. request'[i].body.root = Here.root
      BY <3>1, SubmissionHere
    <3>3. plan.launch \in 1 .. plan'.launch
      BY <1>1
    <3>4. QED
      BY <3>2, <3>3 DEF Here
  <2>3. QED
    BY <2>1, <2>2
<1>4. QED
  BY <1>2, <1>3 DEF Rooted

\* The dataset of a cycle, once it has copied it, is the one of the step before.
LEMMA SnapshotHeld ==
    ASSUME PlannerInv, [PlannerNext]_plannerVars, plan'.step \notin Outside
    PROVE  \/ Snapshot /\ plan'.data = data
           \/ plan.step \notin Outside /\ plan'.data = plan.data
<1>1. CASE \E s \in CycleSteps : <<plan.step, s>> \in Onward /\ GoesOn(s)
  BY <1>1, GoesOnEffect DEF PlannerInv, Onward, Outside
<1>2. CASE Raises("manifest")
  <2>1. plan'.step = "status"
    BY <1>2, OverEffect DEF Raises, PlannerInv
  <2>2. QED
    BY <2>1 DEF Outside
<1>3. QED
  BY <1>1, <1>2, PlanMoves, ReadEffects, RefusesEffect DEF Outside

LEMMA TrainsPastStep ==
    ASSUME PlannerInv, TrainsPast, [PlannerNext]_plannerVars
    PROVE  TrainsPast'
<1>1. /\ UNCHANGED setting /\ data \in Nat /\ data' \in Nat /\ data <= data' /\ plan.data \in Nat
      /\ plan.data <= data
  <2>1. UNCHANGED setting /\ Datasets \subseteq Nat /\ plan.data \in Nat
    BY PlannerStepKinds, PlanFacts, SettingFacts
  <2>2. QED
    BY <2>1, WorldStep, PlanFacts DEF PlannerInv, Staged
<1>2. ASSUME NEW i \in RowsOf("train")'
      PROVE  /\ request'[i].body.data <= data'
             /\ plan'.step \notin Outside => request'[i].body.data <= plan'.data
  <2>1. CASE i \in Existing
    <3>1. request'[i] = request[i] /\ i \in RowsOf("train")
      BY <1>2, <2>1, OldRow DEF RowsOf
    <3>2. request[i].body.data \in Nat /\ request[i].body.data <= data
          /\ (plan.step \notin Outside => request[i].body.data <= plan.data)
      BY <3>1, TrainRow DEF TrainsPast
    <3>3. QED
      BY <1>1, <3>1, <3>2, SnapshotHeld
  <2>2. CASE i \notin Existing
    <3>1. i \in Existing' \ Existing /\ request'[i].type = "train"
      BY <1>2, <2>2 DEF RowsOf
    <3>2. /\ plan.step = "train_put"
          /\ request'[i] = TrainJob(DueCheckpoint, plan.data, Here, plan.latest)
      BY <3>1, NewRowSteps
    <3>3. request'[i].body.data = plan.data
      BY <3>2 DEF TrainJob, Job
    <3>4. plan'.step \notin Outside => plan'.data = plan.data
      BY <3>2, SnapshotHeld DEF Snapshot
    <3>5. QED
      BY <1>1, <3>3, <3>4
  <2>3. QED
    BY <2>1, <2>2
<1>3. QED
  BY <1>2 DEF TrainsPast

\* A new training leaves no other one waiting for a first attempt.
LEMMA NewTrainAlone ==
    ASSUME PlannerInv, [PlannerNext]_plannerVars,
           NEW i \in RowsOf("train")' \ Existing, NEW j \in FreshTrains'
    PROVE  i = j
<1>1. i \in Existing' \ Existing /\ request'[i].type = "train"
      /\ j \in Existing' /\ request'[j].type = "train" /\ Fresh(j)'
  BY DEF RowsOf, FreshTrains
<1>2. PlannerInv' /\ i \in RowsOf("train")' /\ j \in RowsOf("train")'
  BY PlannerInvStep DEF FreshTrains
<1>3. \A k \in RowsOf("train")' : request'[k].cohort = "revision"
  <2>1. ASSUME NEW k \in RowsOf("train")' PROVE request'[k].cohort = "revision"
    <3>1. request'[k] \in RequestsOf(setting)' /\ request'[k].type = "train"
      BY <1>2 DEF PlannerInv, Own, RowsOf
    <3>2. RequestsOf(setting)' = RequestsOf(setting) /\ setting \in Settings
      BY PlannerStepKinds, SettingFixed, PlanFacts
    <3>3. QED
      BY <3>1, <3>2, JobsAre
  <2>2. QED
    BY <2>1
<1>4. request'[i].cohort = "revision" /\ request'[j].cohort = "revision" /\ "revision" # NoCohort
  BY <1>2, <1>3, PlannerAssumption
<1>5. Inv /\ [Next]_vars /\ i \in Ids /\ j \in Ids /\ row[i].state = "absent"
      /\ request'[i] \in Requests
  BY <1>1, <1>2, PlannerStepKinds DEF PlannerInv, Existing, Inv, Recorded
<1>6. QED
  BY <1>1, <1>4, <1>5, NewcomerAlone

LEMMA FreshTrainsStep ==
    ASSUME PlannerInv, [PlannerNext]_plannerVars
    PROVE  \A j \in FreshTrains' :
              \/ j \in FreshTrains /\ request'[j] = request[j]
              \/ /\ j \in RowsOf("train")' \ Existing
                 /\ plan.step = "train_put" /\ plan'.step = "optimize"
                 /\ request'[j] = TrainJob(DueCheckpoint, plan.data, Here, plan.latest)
<1>1. TAKE j \in FreshTrains'
<1>2. j \in Existing' /\ request'[j].type = "train" /\ Fresh(j)'
  BY DEF FreshTrains, RowsOf
<1>3. CASE j \in Existing
  BY <1>2, <1>3, OldRow DEF FreshTrains, RowsOf
<1>4. CASE j \notin Existing
  BY <1>2, <1>4, NewRowSteps DEF FreshTrains
<1>5. QED
  BY <1>3, <1>4

LEMMA FreshIsLatestStep ==
    ASSUME PlannerInv, Rooted, TrainsPast, FreshIsLatest, [PlannerNext]_plannerVars
    PROVE  FreshIsLatest'
<1>1. /\ UNCHANGED setting /\ plan.launch \in Nat /\ plan.launch >= 1
      /\ plan'.launch \in Nat /\ plan.launch <= plan'.launch
  <2>1. plan.launch \in Nat /\ plan.launch >= 1 /\ UNCHANGED setting
    BY PlanFacts, SettingFacts, PlannerStepKinds
  <2>2. QED
    BY <2>1, RelaunchStep
<1>2. Launches' = Launches
  BY <1>1, SettingFixed
<1>3. ASSUME NEW i \in RowsOf("train")', NEW j \in FreshTrains'
      PROVE  NoLater(i, j)'
  <2>1. CASE i \in Existing /\ j \in FreshTrains /\ request'[j] = request[j]
    <3>1. request'[i] = request[i] /\ i \in RowsOf("train")
      BY <1>3, <2>1, OldRow DEF RowsOf
    <3>2. NoLater(i, j)
      BY <2>1, <3>1 DEF FreshIsLatest
    <3>3. QED
      BY <1>1, <1>2, <2>1, <3>1, <3>2 DEF NoLater
  <2>2. CASE /\ j \in RowsOf("train")' \ Existing /\ plan.step = "train_put"
             /\ request'[j] = TrainJob(DueCheckpoint, plan.data, Here, plan.latest)
    <3>1. request'[j].body.data = plan.data /\ request'[j].body.root = Here.root
          /\ plan.data \in Nat
      BY <2>2, PlanFacts, SettingFacts DEF TrainJob, Job
    <3>2. request'[i].body.data <= plan.data
      <4>1. CASE i \in Existing
        <5>1. request'[i] = request[i] /\ i \in RowsOf("train")
          BY <1>3, <4>1, OldRow DEF RowsOf
        <5>2. QED
          BY <2>2, <5>1 DEF TrainsPast, Outside
      <4>2. CASE i \notin Existing
        <5>1. i = j
          BY <1>3, <4>2, NewTrainAlone
        <5>2. QED
          BY <3>1, <5>1
      <4>3. QED
        BY <4>1, <4>2
    <3>3. PICK m \in 1 .. plan'.launch : Launches[m].root = request'[i].body.root
      BY <1>2, <1>3, RootedStep DEF Rooted, RowsOf
    <3>4. plan'.launch = plan.launch
      BY <2>2, NewRowSteps DEF RowsOf
    <3>5. plan.launch \in 1 .. plan'.launch /\ m <= plan.launch
      BY <1>1, <3>3, <3>4
    <3>6. QED
      BY <1>2, <3>1, <3>2, <3>3, <3>5 DEF NoLater, Here
  <2>3. CASE i \notin Existing /\ j \in FreshTrains
    <3>1. i = j
      BY <1>3, <2>3, NewTrainAlone
    <3>2. QED
      BY <2>3, <3>1 DEF FreshTrains, RowsOf
  <2>4. QED
    BY <1>3, <2>1, <2>2, <2>3, FreshTrainsStep
<1>4. QED
  BY <1>3 DEF FreshIsLatest

\* Coalescing leaves no other training waiting for a first attempt.
LEMMA CoalescedTrains ==
    ASSUME PlannerInv, NEW r, NEW i, r.type = "train", r.cohort = "revision",
           row' = Coalesced(row, r, i), UNCHANGED <<request, parents>>,
           NEW j \in FreshTrains'
    PROVE  i = j
<1>1. j \in Ids /\ request[j].type = "train" /\ row'[j].state \in Pending
      /\ row'[j].state # "absent" /\ row \in [Ids -> Row]
  BY DEF FreshTrains, RowsOf, Existing, Fresh, PlannerInv, PlannerTypeOK
<1>2. row[j].state # "absent"
  BY <1>1, CoalescedRows DEF Pending
<1>3. j \in RowsOf("train")
  BY <1>1, <1>2 DEF RowsOf, Existing
<1>4. request[j].cohort = "revision"
  BY <1>3, TrainRow
<1>5. row'[j] = IF j # i /\ row[j].state \in Pending THEN Settled(row[j], "cancelled") ELSE row[j]
  BY <1>1, <1>4 DEF Coalesced
<1>6. Settled(row[j], "cancelled").state = "cancelled"
  BY <1>1, SettledRow DEF States, Terminal, Lost
<1>7. QED
  BY <1>1, <1>5, <1>6 DEF Pending

\* A training that a cycle keeps and that still waits is the one it wants.
LEMMA KeptTrainWanted ==
    ASSUME PlannerInv, TrainInv, [PlannerNext]_plannerVars, plan'.step = "train_keep",
           Fresh(plan.pick)'
    PROVE  Wanted(plan.pick)'
<1>1. plan'.launch = plan.launch /\ Here' = Here /\ PlannerInv'
  BY RelaunchStep, PlannerInvStep DEF Idle
<1>2. plan'.pick \in RowsOf("train")'
  BY <1>1 DEF PlannerInv, Staged
<1>3. plan'.pick \in FreshTrains /\ request'[plan'.pick] = request[plan'.pick]
  BY <1>2, FreshTrainsStep DEF FreshTrains
<1>4. CASE UNCHANGED plan
  BY <1>1, <1>3, <1>4 DEF TrainInv, Replaced, Wanted, FreshTrains
<1>5. CASE ListTrain
  <2> DEFINE running == InState(RowsOf("train"), {"running"})
             pending == {i \in InState(RowsOf("train"), Pending) :
                            request[i].key = <<DueCheckpoint, plan.data, Here.root>>}
             pick == Authority(running, pending)
  <2>1. plan' = [plan EXCEPT !.pick = pick, !.step = IF pick = 0 THEN "train_put" ELSE "train_keep"]
    BY <1>5 DEF ListTrain
  <2>2. running \in SUBSET Ids /\ pending \in SUBSET Ids
    BY DEF InState, RowsOf, Existing
  <2>3. pick # 0 => pick \in running \/ pick \in pending
    BY <2>2, AuthorityOf
  <2>4. /\ \A i \in running : ~ Fresh(i)
        /\ \A i \in pending : /\ i \in RowsOf("train")
                              /\ request[i].key = <<DueCheckpoint, plan.data, Here.root>>
    BY DEF InState, Fresh, Pending
  <2> HIDE DEF running, pending, pick
  <2>5. plan'.pick = pick /\ pick # 0
    <3>1. plan \in Plan
      BY PlanFacts
    <3>2. plan'.pick = pick /\ plan'.step = IF pick = 0 THEN "train_put" ELSE "train_keep"
      BY <2>1, <3>1 DEF Plan
    <3>3. QED
      BY <3>2
  <2>6. request[pick].key = <<DueCheckpoint, plan.data, Here.root>> /\ pick \in RowsOf("train")
    BY <1>3, <2>3, <2>4, <2>5 DEF FreshTrains
  <2>7. request[pick].key = <<request[pick].body.checkpoint, request[pick].body.data,
                              request[pick].body.root>>
    BY <2>6, TrainRow
  <2>8. request[pick].body.data = plan.data /\ request[pick].body.root = Here.root
    BY <2>6, <2>7
  <2>9. plan'.data = plan.data
    BY <1>5, ReadEffects
  <2>10. QED
    BY <1>1, <1>3, <2>5, <2>8, <2>9 DEF Wanted
<1>6. CASE \E s \in CycleSteps : <<plan.step, s>> \in Onward /\ GoesOn(s)
  BY <1>6, GoesOnEffect DEF PlannerInv, Onward
<1>7. CASE Raises("manifest")
  <2>1. plan'.step = "status"
    BY <1>7, OverEffect DEF Raises, PlannerInv
  <2>2. QED
    BY <2>1
<1>8. QED
  BY <1>4, <1>5, <1>6, <1>7, PlanMoves, ReadEffects, RefusesEffect

\* The training step replaces what the cycle does not want.
LEMMA TrainStepReplaces ==
    ASSUME PlannerInv, TrainInv, ~ RolledBack, [PlannerNext]_plannerVars,
           plan.step \in {"untrain", "train_keep", "train_put"}, plan'.step = "optimize"
    PROVE  \A j \in FreshTrains' : Wanted(j)'
<1>1. plan'.launch = plan.launch /\ Here' = Here
  BY RelaunchStep DEF Idle
<1>2. GoesOn("optimize") /\ plan'.data = plan.data
  <2>1. PICK s \in CycleSteps : GoesOn(s)
    <3>1. ~ Raises("manifest")
      BY OverEffect DEF Raises, PlannerInv
    <3>2. QED
      BY <3>1, PlanMoves, ReadEffects, RefusesEffect
  <2>2. QED
    BY <2>1, GoesOnEffect DEF PlannerInv
<1>3. PlannerStep
  <2>1. plan' # plan
    OBVIOUS
  <2>2. ~ Relaunch /\ ~ Grow /\ ~ UNCHANGED plannerVars
    BY <2>1, ReadEffects DEF Grow, plannerVars
  <2>3. QED
    BY <2>1, <2>2, WorkerEffect DEF PlannerNext
<1>4. SUFFICES ASSUME NEW j \in FreshTrains'
               PROVE  request'[j].body.data = plan.data /\ request'[j].body.root = Here.root
  BY <1>1, <1>2 DEF Wanted
<1>5. CASE plan.step = "untrain"
  <2>1. CancelCoalescedPending(TrainJob(500, plan.data, Here, 0))
    BY <1>3, <1>5, OneActionPerStep DEF Untrain
  <2>2. j = 0
    BY <2>1, CoalescedTrains DEF CancelCoalescedPending, TrainJob, Job
  <2>3. j \in Ids
    BY DEF FreshTrains, RowsOf, Existing
  <2>4. QED
    BY <2>2, <2>3, BoundAssumption DEF Ids
<1>6. CASE plan.step = "train_keep"
  <2>1. Keep("train_put", "optimize") /\ ~ GoesOn("train_put") /\ plan.pick \in RowsOf("train")
    BY <1>3, <1>6, OneActionPerStep, GoesOnEffect DEF KeepTrain, PlannerInv, Staged, CycleSteps
  <2>2. EnqueueAgain(request[plan.pick], parents[plan.pick])
    BY <2>1 DEF Keep
  <2>3. PICK i \in Existing : /\ request[i] = request[plan.pick]
                              /\ row' = Coalesced(row, request[plan.pick], i)
                              /\ UNCHANGED <<request, parents>>
    BY <2>2 DEF EnqueueAgain
  <2>4. i = plan.pick
    BY <2>1, <2>3 DEF PlannerInv, OneRow, RowsOf
  <2>5. j = plan.pick
    BY <2>1, <2>3, <2>4, TrainRow, CoalescedTrains
  <2>6. Fresh(j) /\ request'[j] = request[j]
    <3>1. j \in FreshTrains /\ request'[j] = request[j]
      BY <1>6, FreshTrainsStep
    <3>2. QED
      BY <3>1 DEF FreshTrains
  <2>7. QED
    BY <1>6, <2>5, <2>6 DEF TrainInv, Replaced, Wanted
<1>7. CASE plan.step = "train_put"
  <2> DEFINE r == TrainJob(DueCheckpoint, plan.data, Here, plan.latest)
  <2>1. Put(r, {}, "optimize")
    BY <1>3, <1>7, OneActionPerStep DEF PutTrain
  <2>2. /\ r.type = "train" /\ r.cohort = "revision" /\ r.cohort # NoCohort
        /\ r.body.data = plan.data /\ r.body.root = Here.root
    BY PlannerAssumption DEF TrainJob, Job
  <2>3. ~ Raises(r.type)
    BY <2>2, OverEffect DEF Raises, PlannerInv, JobTypes
  <2> HIDE DEF r
  <2>4. CASE j \in RowsOf("train")' \ Existing
    BY <1>4, <2>2, <2>4, FreshTrainsStep DEF r, FreshTrains, RowsOf
  <2>5. CASE j \in Existing
    <3>1. j \in FreshTrains /\ request'[j] = request[j]
      BY <1>4, <2>5, FreshTrainsStep
    <3>2. CASE EnqueueNew(r, {}, 0)
      <4>1. PICK i \in Ids \ Existing : request' = [request EXCEPT ![i] = r]
        BY <3>2 DEF EnqueueNew
      <4>2. Inv /\ Inv' /\ r \in Requests
        <5>1. Submission(r, {}, "optimize")
          BY <1>7 DEF Submission, r
        <5>2. QED
          BY <5>1, SubmissionOwn, PlannerInvStep DEF PlannerInv
      <4>3. request'[i] = r /\ i \in Existing'
        BY <4>1, <4>2 DEF Inv, TypeOK, Recorded
      <4>4. i \in RowsOf("train")' \ Existing
        BY <2>2, <4>1, <4>3 DEF RowsOf
      <4>5. i = j
        BY <4>4, NewTrainAlone
      <4>6. QED
        BY <2>5, <4>1, <4>5
    <3>3. CASE EnqueueAgain(r, {})
      <4>1. PICK i \in Existing : /\ request[i] = r /\ row' = Coalesced(row, r, i)
                                  /\ UNCHANGED <<request, parents>>
        BY <3>3 DEF EnqueueAgain
      <4>2. i = j
        BY <2>2, <4>1, CoalescedTrains
      <4>3. QED
        BY <2>2, <3>1, <4>1, <4>2
    <3>4. CASE \E i \in RowsOf("train") : request[i] = r
      <4>1. PICK i \in RowsOf("train") : request[i] = r
        BY <3>4
      <4>2. NoLater(i, j)
        BY <3>1, <4>1 DEF TrainInv, FreshIsLatest
      <4>3. /\ plan.data <= request[j].body.data /\ request[j].body.data <= plan.data
            /\ plan.data \in Nat /\ request[j].body.data \in Nat
        <5>1. request[j].body.data <= plan.data
          BY <1>7, <3>1 DEF TrainInv, TrainsPast, FreshTrains, Outside
        <5>2. plan.data <= request[j].body.data
          BY <2>2, <4>1, <4>2 DEF NoLater
        <5>3. plan.data \in Nat /\ request[j].body.data \in Nat
          BY <3>1, PlanFacts, SettingFacts, TrainRow DEF FreshTrains
        <5>4. QED
          BY <5>1, <5>2, <5>3
      <4>4. PICK m \in 1 .. plan.launch, n \in 1 .. plan.launch :
                /\ m <= n /\ Launches[m].root = Here.root
                /\ Launches[n].root = request[j].body.root
        BY <2>2, <4>1, <4>2 DEF NoLater
      <4>5. plan.launch \in 1 .. plan.launch /\ n <= plan.launch
        BY PlanFacts, SettingFacts
      <4>6. Launches[n].root = Here.root
        BY <4>4, <4>5 DEF RolledBack, Here
      <4>7. QED
        BY <3>1, <4>3, <4>4, <4>6
    <3>5. QED
      BY <2>1, <2>2, <2>3, <3>2, <3>3, <3>4 DEF Put
  <2>6. QED
    BY <1>4, <2>4, <2>5, FreshTrainsStep DEF FreshTrains
<1>8. QED
  BY <1>5, <1>6, <1>7

LEMMA ReplacedStep ==
    ASSUME PlannerInv, TrainInv, [PlannerNext]_plannerVars
    PROVE  Replaced'
<1>1. ASSUME Planned', ~ RolledBack' PROVE \A j \in FreshTrains' : Wanted(j)'
  <2>1. ASSUME Planned, plan'.data = plan.data, plan'.launch = plan.launch
        PROVE  \A j \in FreshTrains' : Wanted(j)'
    <3>1. Here' = Here
      BY <2>1, PlannerStepKinds, SettingFixed DEF Here
    <3>2. plan.step # "train_put"
      BY <2>1 DEF Planned
    <3>3. ~ RolledBack
      BY <1>1, <2>1, PlannerStepKinds, SettingFixed DEF RolledBack
    <3>4. QED
      BY <2>1, <3>1, <3>2, <3>3, FreshTrainsStep DEF TrainInv, Replaced, Wanted
  <2>2. CASE UNCHANGED plan
    BY <1>1, <2>1, <2>2 DEF Planned
  <2>3. CASE CloseCycle
    BY <1>1, <2>1, <2>3, ReadEffects DEF Planned
  <2>4. CASE \E s \in CycleSteps : <<plan.step, s>> \in Onward /\ GoesOn(s)
    <3>1. PICK s \in CycleSteps : <<plan.step, s>> \in Onward /\ GoesOn(s)
      BY <2>4
    <3>2. plan'.step = s /\ plan'.data = plan.data /\ plan'.launch = plan.launch
      BY <3>1, GoesOnEffect DEF PlannerInv
    <3>3. \/ plan.step \in {"optimize", "standard", "fine"}
          \/ plan.step \in {"untrain", "train_keep", "train_put"} /\ s = "optimize"
      BY <1>1, <3>1, <3>2 DEF Planned, Onward
    <3>4. ~ RolledBack
      BY <1>1, <3>2, PlannerStepKinds, SettingFixed DEF RolledBack
    <3>5. QED
      BY <2>1, <3>2, <3>3, <3>4, TrainStepReplaces DEF Planned
  <2>5. CASE Raises("manifest")
    <3>1. plan'.data = 0 /\ plan'.step = "status"
      BY <2>5, OverEffect DEF Raises, PlannerInv
    <3>2. QED
      BY <1>1, <3>1 DEF Planned
  <2>6. QED
    BY <1>1, <2>2, <2>3, <2>4, <2>5, PlanMoves, ReadEffects, RefusesEffect DEF Planned
<1>2. QED
  BY <1>1, KeptTrainWanted DEF Replaced

LEMMA TrainInvInit == ASSUME PlannerInit PROVE TrainInv
<1>1. Existing = {} /\ plan.step = "start" /\ plan.data = 0
  BY DEF PlannerInit, Init, Existing, NoRow, Idle
<1>2. QED
  BY <1>1 DEF TrainInv, Rooted, TrainsPast, FreshIsLatest, Replaced, Planned, RowsOf, FreshTrains

\* After a cycle of plan_once no training waits, untried, for another dataset or
\* runtime root than those the cycle saw, unless a rollback intervened: the enqueue of
\* the wanted one displaces whatever an earlier cycle left.
THEOREM TrainingsReplaced == PlannerSpec => []FreshTrainingIsCurrent
<1>1. PlannerInit => TrainInv
  BY TrainInvInit
<1>2. PlannerInv /\ TrainInv /\ [PlannerNext]_plannerVars => TrainInv'
  BY RootedStep, TrainsPastStep, FreshIsLatestStep, ReplacedStep DEF TrainInv
<1>3. TrainInv => FreshTrainingIsCurrent
  BY DEF TrainInv, Replaced, Planned, FreshTrainingIsCurrent, FreshTrains, Fresh, Wanted, RowsOf
<1>4. QED
  BY <1>1, <1>2, <1>3, PlannerInvariance, PTL DEF PlannerSpec

----------------------------------------------------------------------------
(* The planner: why a submission is refused.                               *)

\* What the key of a job says of its payload, and what it leaves open.
LEMMA KeysAre ==
    ASSUME setting \in Settings, NEW r \in RequestsOf(setting)
    PROVE  /\ r.type = "tune" => r.key = <<r.body.data, r.body.script>>
           /\ r.type = "train" => r.key = <<r.body.checkpoint, r.body.data, r.body.root>>
           /\ r.type \in {"optimize", "verify_standard", "verify_fine"}
              => r.key = <<r.body.model>> /\ r.body.model \in Models
<1> USE DEF Job
<1>1. CASE r.type = "tune"
  <2>1. \A d, at : TuneJob(d, at).key = <<d, at.script>>
    BY DEF TuneJob
  <2>2. r = TuneJob(r.body.data, [root |-> r.body.root, script |-> r.body.script])
    BY <1>1, JobsAre
  <2>3. r.key = <<r.body.data, r.body.script>>
    BY <2>1, <2>2
  <2>4. QED
    BY <1>1, <2>3
<1>2. CASE r.type = "train"
  <2>1. \A k, d, at, l : TrainJob(k, d, at, l).key = <<k, d, at.root>>
    BY DEF TrainJob
  <2>2. r = TrainJob(r.body.checkpoint, r.body.data, [root |-> r.body.root, script |-> 0],
                     r.body.params)
    BY <1>2, JobsAre
  <2>3. r.key = <<r.body.checkpoint, r.body.data, r.body.root>>
    BY <2>1, <2>2
  <2>4. QED
    BY <1>2, <2>3
<1>3. CASE r.type \in {"optimize", "verify_standard", "verify_fine"}
  <2>1. /\ \A m, n, at : OptimizeJob(m, n, at).key = <<m>>
        /\ \A m, at : StandardJob(m, at).key = <<m>> /\ FineJob(m, at).key = <<m>>
    BY DEF OptimizeJob, StandardJob, FineJob
  <2>2. \/ r = OptimizeJob(r.body.model, r.body.rows, [root |-> r.body.root, script |-> 0])
        \/ r = StandardJob(r.body.model, [root |-> r.body.root, script |-> 0])
        \/ r = FineJob(r.body.model, [root |-> r.body.root, script |-> 0])
    BY <1>3, JobsAre
  <2>3. r.key = <<r.body.model>>
    BY <2>1, <2>2
  <2>4. r.body.model \in Models
    BY <1>3, JobsAre
  <2>5. QED
    BY <1>3, <2>3, <2>4
<1>4. QED
  BY <1>1, <1>2, <1>3

\* Jobs of one identity are the same job, but for the deployment, the parameters of a
\* training and the rows of a search.
LEMMA SameJob ==
    ASSUME setting \in Settings, NEW r \in RequestsOf(setting), NEW s \in RequestsOf(setting),
           r.type = s.type, r.key = s.key
    PROVE  /\ r.type = "collect" => r = s
           /\ r.type \in {"tune", "verify_standard", "verify_fine"}
              => (r.body.root = s.body.root => r = s)
           /\ r.type = "train" => (r.body.params = s.body.params => r = s)
           /\ r.type = "optimize"
              => (r.body.root = s.body.root /\ r.body.rows = s.body.rows => r = s)
           /\ r.type \in {"optimize", "verify_standard", "verify_fine"}
              => r.body.model = s.body.model
<1>1. CASE r.type = "collect"
  BY <1>1, JobsAre
<1>2. CASE r.type = "tune"
  <2>1. r.body.data = s.body.data /\ r.body.script = s.body.script
    <3>1. <<r.body.data, r.body.script>> = <<s.body.data, s.body.script>>
      BY <1>2, KeysAre
    <3>2. \A w, x, y, z : <<w, x>> = <<y, z>> => w = y /\ x = z
      OBVIOUS
    <3>3. QED
      BY <3>1, <3>2
  <2>2. /\ r = TuneJob(r.body.data, [root |-> r.body.root, script |-> r.body.script])
        /\ s = TuneJob(s.body.data, [root |-> s.body.root, script |-> s.body.script])
    BY <1>2, JobsAre
  <2>3. QED
    BY <1>2, <2>1, <2>2
<1>3. CASE r.type = "train"
  <2>1. /\ r.body.checkpoint = s.body.checkpoint /\ r.body.data = s.body.data
        /\ r.body.root = s.body.root
    <3>1. <<r.body.checkpoint, r.body.data, r.body.root>>
              = <<s.body.checkpoint, s.body.data, s.body.root>>
      BY <1>3, KeysAre
    <3>2. \A u, v, w, x, y, z : <<u, v, w>> = <<x, y, z>> => u = x /\ v = y /\ w = z
      OBVIOUS
    <3>3. QED
      BY <3>1, <3>2
  <2>2. /\ r = TrainJob(r.body.checkpoint, r.body.data, [root |-> r.body.root, script |-> 0],
                        r.body.params)
        /\ s = TrainJob(s.body.checkpoint, s.body.data, [root |-> s.body.root, script |-> 0],
                        s.body.params)
    BY <1>3, JobsAre
  <2>3. QED
    BY <1>3, <2>1, <2>2
<1>4. r.type \in {"optimize", "verify_standard", "verify_fine"} => r.body.model = s.body.model
  <2>1. ASSUME r.type \in {"optimize", "verify_standard", "verify_fine"}
        PROVE  <<r.body.model>> = <<s.body.model>>
    BY <2>1, KeysAre
  <2>2. \A x, y : <<x>> = <<y>> => x = y
    OBVIOUS
  <2>3. QED
    BY <2>1, <2>2
<1>5. CASE r.type = "optimize"
  <2>1. /\ r = OptimizeJob(r.body.model, r.body.rows, [root |-> r.body.root, script |-> 0])
        /\ s = OptimizeJob(s.body.model, s.body.rows, [root |-> s.body.root, script |-> 0])
    BY <1>5, JobsAre
  <2>2. QED
    BY <1>4, <1>5, <2>1
<1>6. CASE r.type = "verify_standard"
  <2>1. /\ r = StandardJob(r.body.model, [root |-> r.body.root, script |-> 0])
        /\ s = StandardJob(s.body.model, [root |-> s.body.root, script |-> 0])
    BY <1>6, JobsAre
  <2>2. QED
    BY <1>4, <1>6, <2>1
<1>7. CASE r.type = "verify_fine"
  <2>1. /\ r = FineJob(r.body.model, [root |-> r.body.root, script |-> 0])
        /\ s = FineJob(s.body.model, [root |-> s.body.root, script |-> 0])
    BY <1>7, JobsAre
  <2>2. QED
    BY <1>4, <1>7, <2>1
<1>8. QED
  BY <1>1, <1>2, <1>3, <1>4, <1>5, <1>6, <1>7

\* A model keeps the row of each of its jobs.
LEMMA RowOfKept ==
    ASSUME PlannerInv, [PlannerNext]_plannerVars, NEW t, NEW m, RowOf(t, m) # {}
    PROVE  RowOf(t, m)' = RowOf(t, m)
<1>1. RowOf(t, m) \subseteq RowOf(t, m)'
  BY OldRow DEF RowOf, RowsOf
<1>2. ASSUME NEW k \in RowOf(t, m)' PROVE k \in RowOf(t, m)
  <2>1. k \in Existing' /\ request'[k].type = t /\ request'[k].key = <<m>>
    BY <1>2 DEF RowOf, RowsOf
  <2>2. CASE k \in Existing
    BY <2>1, <2>2, OldRow DEF RowOf, RowsOf
  <2>3. CASE k \notin Existing
    <3>1. PICK j \in Existing : request[j].type = t /\ request[j].key = <<m>>
      BY DEF RowOf, RowsOf
    <3>2. QED
      BY <2>1, <2>3, <3>1, NewRow
  <2>4. QED
    BY <2>2, <2>3
<1>3. QED
  BY <1>1, <1>2

\* What each submission is.
LEMMA SubmissionIs ==
    ASSUME PlannerInv, NEW r, NEW deps, NEW next, Submission(r, deps, next)
    PROVE  /\ r.type \in JobTypes
           /\ r.type \in {"collect", "tune", "train", "optimize"} => deps = {}
           /\ r.type = "train" => plan.step = "train_put" /\ r.body.params = plan.latest
           /\ r.type = "optimize" => /\ plan.step = "optimize" /\ plan.model # NoModel
                                     /\ r.body.model = plan.model /\ r.body.rows = plan.rows
                                     /\ r.key = <<plan.model>> /\ next = "standard"
           /\ r.type = "verify_standard" => /\ plan.step = "standard" /\ r.body.model = plan.model
                                            /\ r.key = <<plan.model>> /\ next = "fine"
                                            /\ deps = RowOf("optimize", plan.model)
           /\ r.type = "verify_fine" => /\ plan.step = "fine" /\ r.body.model = plan.model
                                        /\ r.key = <<plan.model>>
                                        /\ deps = RowOf("verify_standard", plan.model)
           /\ plan.step = "optimize" => r.type = "optimize"
           /\ plan.step = "standard" => r.type = "verify_standard"
<1> USE DEF Job, JobTypes
<1>1. CASE plan.step = "collect_put" /\ r = CollectJob(plan.data, Here) /\ deps = {}
  BY <1>1 DEF CollectJob
<1>2. CASE plan.step = "tune_put" /\ r = TuneJob(plan.data, Here) /\ deps = {}
  BY <1>2 DEF TuneJob
<1>3. CASE /\ plan.step = "train_put" /\ deps = {}
           /\ r = TrainJob(DueCheckpoint, plan.data, Here, plan.latest)
  BY <1>3 DEF TrainJob
<1>4. CASE /\ plan.step = "optimize" /\ plan.model # NoModel /\ deps = {} /\ next = "standard"
           /\ r = OptimizeJob(plan.model, plan.rows, Here)
  BY <1>4 DEF OptimizeJob
<1>5. CASE /\ plan.step = "standard" /\ r = StandardJob(plan.model, Here) /\ next = "fine"
           /\ deps = RowOf("optimize", plan.model)
  BY <1>5 DEF StandardJob
<1>6. CASE /\ plan.step = "fine" /\ r = FineJob(plan.model, Here)
           /\ deps = RowOf("verify_standard", plan.model)
  BY <1>6 DEF FineJob
<1>7. QED
  BY <1>1, <1>2, <1>3, <1>4, <1>5, <1>6 DEF Submission

LEMMA ChainedStep ==
    ASSUME PlannerInv, Chained, ChainBegun, [PlannerNext]_plannerVars
    PROVE  Chained'
<1> DEFINE Deps(i) == CASE request[i].type = "verify_standard"
                             -> RowOf("optimize", request[i].body.model)
                        [] request[i].type = "verify_fine"
                             -> RowOf("verify_standard", request[i].body.model)
                        [] OTHER -> {}
<1>1. ASSUME NEW i \in Existing'
      PROVE  /\ request'[i].type = "verify_standard"
                => parents'[i] = RowOf("optimize", request[i].body.model)'
             /\ request'[i].type = "verify_fine"
                => parents'[i] = RowOf("verify_standard", request[i].body.model)'
             /\ request'[i].type \notin {"verify_standard", "verify_fine"} => parents'[i] = {}
  <2>1. CASE i \in Existing
    <3>1. request'[i] = request[i] /\ parents'[i] = parents[i]
      BY <2>1, OldRow
    <3>2. parents[i] = Deps(i)
      BY <2>1 DEF Chained
    <3>3. CASE request[i].type = "verify_standard"
      <4>1. RowOf("optimize", request[i].body.model) # {}
        BY <2>1, <3>3 DEF ChainBegun, RowsOf
      <4>2. RowOf("optimize", request[i].body.model)'
                = RowOf("optimize", request[i].body.model)
        BY <3>1, <4>1, RowOfKept DEF RowOf, RowsOf
      <4>3. QED
        BY <3>1, <3>2, <3>3, <4>2
    <3>4. CASE request[i].type = "verify_fine"
      <4>1. RowOf("verify_standard", request[i].body.model) # {}
        BY <2>1, <3>4 DEF ChainBegun, RowsOf
      <4>2. RowOf("verify_standard", request[i].body.model)'
                = RowOf("verify_standard", request[i].body.model)
        BY <3>1, <4>1, RowOfKept DEF RowOf, RowsOf
      <4>3. QED
        BY <3>1, <3>2, <3>4, <4>2
    <3>5. QED
      BY <3>1, <3>2, <3>3, <3>4
  <2>2. CASE i \notin Existing
    <3>1. PICK next : Submission(request'[i], parents'[i], next)
      BY <1>1, <2>2, NewRow
    <3>2. /\ request'[i].type \in JobTypes
          /\ request'[i].type \in {"collect", "tune", "train", "optimize"} => parents'[i] = {}
          /\ request'[i].type = "verify_standard"
             => /\ plan.step = "standard" /\ request'[i].body.model = plan.model
                /\ parents'[i] = RowOf("optimize", plan.model)
          /\ request'[i].type = "verify_fine"
             => /\ plan.step = "fine" /\ request'[i].body.model = plan.model
                /\ parents'[i] = RowOf("verify_standard", plan.model)
      BY <3>1, SubmissionIs
    <3>3. \A t, m : RowOf(t, m) # {} =>
              {k \in RowsOf(t)' : request'[k].key = <<m>>} = RowOf(t, m)
      BY RowOfKept DEF RowOf
    <3>4. ASSUME request'[i].type = "verify_standard"
          PROVE  parents'[i] = RowOf("optimize", request[i].body.model)'
      <4>1. RowOf("optimize", plan.model) # {}
        BY <3>2, <3>4 DEF ChainBegun
      <4>2. {k \in RowsOf("optimize")' : request'[k].key = <<plan.model>>}
                = RowOf("optimize", plan.model)
        BY <3>3, <4>1
      <4>3. QED
        BY <3>2, <3>4, <4>2 DEF RowOf
    <3>5. ASSUME request'[i].type = "verify_fine"
          PROVE  parents'[i] = RowOf("verify_standard", request[i].body.model)'
      <4>1. RowOf("verify_standard", plan.model) # {}
        BY <3>2, <3>5 DEF ChainBegun
      <4>2. {k \in RowsOf("verify_standard")' : request'[k].key = <<plan.model>>}
                = RowOf("verify_standard", plan.model)
        BY <3>3, <4>1
      <4>3. QED
        BY <3>2, <3>5, <4>2 DEF RowOf
    <3>6. request'[i].type \notin {"verify_standard", "verify_fine"} => parents'[i] = {}
      BY <3>2 DEF JobTypes
    <3>7. QED
      BY <3>4, <3>5, <3>6
  <2>3. QED
    BY <2>1, <2>2
<1>2. QED
  BY <1>1 DEF Chained

\* A submission that is accepted leaves a row of its identity.
LEMMA AcceptedRow ==
    ASSUME PlannerInv, [PlannerNext]_plannerVars, NEW r, NEW deps, NEW next,
           Submission(r, deps, next), Put(r, deps, next), GoesOn(next)
    PROVE  {i \in RowsOf(r.type)' : request'[i].key = r.key} # {}
<1>1. r \in Requests /\ deps \in SUBSET Ids /\ r.type \in JobTypes /\ next \in CycleSteps
      /\ plan' # plan
  <2>1. plan.step # next
    BY DEF Submission
  <2>2. plan'.step = next
    BY SubmissionOwn, GoesOnEffect DEF PlannerInv
  <2>3. QED
    BY <2>1, <2>2, SubmissionOwn, SubmissionIs
<1>2. Inv' /\ request \in [Ids -> Requests \cup {NoRequest}]
  BY RowsKept DEF PlannerInv, Inv, TypeOK
<1>3. CASE EnqueueNew(r, deps, 0)
  <2>1. PICK i \in Ids \ Existing : request' = [request EXCEPT ![i] = r]
    BY <1>3 DEF EnqueueNew
  <2>2. request'[i] = r
    BY <1>2, <2>1
  <2>3. i \in Existing'
    BY <1>1, <1>2, <2>1, <2>2 DEF Inv, Recorded
  <2>4. QED
    BY <2>2, <2>3 DEF RowsOf
<1>4. ASSUME NEW i \in Existing, request[i].type = r.type, request[i].key = r.key
      PROVE  {k \in RowsOf(r.type)' : request'[k].key = r.key} # {}
  <2>1. i \in Existing' /\ request'[i] = request[i]
    BY OldRow
  <2>2. QED
    BY <1>4, <2>1 DEF RowsOf
<1>5. CASE EnqueueAgain(r, deps)
  BY <1>4, <1>5 DEF EnqueueAgain
<1>6. CASE \E i \in {k \in RowsOf(r.type) : request[k].key = r.key} : TRUE
  BY <1>4, <1>6 DEF RowsOf
<1>7. QED
  BY <1>3, <1>5, <1>6 DEF Put

\* Where a cycle comes from, of the steps the invariants speak of.
LEMMA CameFrom ==
    ASSUME PlannerInv, [PlannerNext]_plannerVars
    PROVE  /\ plan'.step = "standard"
              => \/ UNCHANGED plan
                 \/ /\ plan.step = "optimize" /\ GoesOn("standard") /\ PlannerStep
                    /\ plan'.model = plan.model
           /\ plan'.step = "fine"
              => \/ UNCHANGED plan
                 \/ /\ plan.step = "standard" /\ GoesOn("fine") /\ PlannerStep
                    /\ plan'.model = plan.model
           /\ plan'.step \in Counted
              => \/ ReadCheckpoints
                 \/ /\ plan.step \in Counted /\ plan'.rows = plan.rows
                    /\ plan'.model = plan.model /\ plan'.data = plan.data
<1> USE DEF Counted, TrainSteps
<1>1. PlannerStep \/ Relaunch \/ UNCHANGED plan
  BY WorkerEffect DEF PlannerNext, Grow, plannerVars
<1>2. CASE UNCHANGED plan
  BY <1>2
<1>3. CASE \E s \in CycleSteps : <<plan.step, s>> \in Onward /\ GoesOn(s)
  <2>1. PICK s \in CycleSteps : <<plan.step, s>> \in Onward /\ GoesOn(s)
    BY <1>3
  <2>2. /\ plan'.step = s /\ plan'.data = plan.data
        /\ s # "status" => plan'.model = plan.model /\ plan'.rows = plan.rows
    BY <2>1, GoesOnEffect DEF PlannerInv
  <2>3. /\ s = "standard" => plan.step = "optimize"
        /\ s = "fine" => plan.step = "standard"
        /\ s \in Counted => plan.step \in Counted
    BY <2>1 DEF Onward
  <2>4. CASE Relaunch
    BY <2>4, ReadEffects
  <2>5. QED
    BY <1>1, <1>2, <2>1, <2>2, <2>3, <2>4
<1>4. CASE Raises("manifest")
  <2>1. plan'.step = "status"
    BY <1>4, OverEffect DEF Raises, PlannerInv
  <2>2. QED
    BY <2>1
<1>5. QED
  BY <1>2, <1>3, <1>4, PlanMoves, ReadEffects, RefusesEffect

LEMMA ChainBegunStep ==
    ASSUME PlannerInv, ChainBegun, [PlannerNext]_plannerVars
    PROVE  ChainBegun'
<1> DEFINE Begun(t, m) == {k \in RowsOf(t)' : request'[k].key = <<m>>} # {}
<1>1. \A t, m : RowOf(t, m) # {} => Begun(t, m)
  BY RowOfKept DEF RowOf
<1>2. ASSUME NEW i \in Existing'
      PROVE  /\ request'[i].type = "verify_standard"
                => Begun("optimize", request'[i].body.model)
             /\ request'[i].type = "verify_fine"
                => Begun("verify_standard", request'[i].body.model)
  <2>1. CASE i \in Existing
    <3>1. request'[i] = request[i]
      BY <2>1, OldRow
    <3>2. /\ request[i].type = "verify_standard" => RowOf("optimize", request[i].body.model) # {}
          /\ request[i].type = "verify_fine" => RowOf("verify_standard", request[i].body.model) # {}
      BY <2>1 DEF ChainBegun, RowsOf
    <3> HIDE DEF Begun
    <3>3. QED
      BY <1>1, <3>1, <3>2
  <2>2. CASE i \notin Existing
    <3>1. PICK next : Submission(request'[i], parents'[i], next)
      BY <1>2, <2>2, NewRow
    <3>2. /\ request'[i].type = "verify_standard"
             => plan.step = "standard" /\ request'[i].body.model = plan.model
          /\ request'[i].type = "verify_fine"
             => plan.step = "fine" /\ request'[i].body.model = plan.model
      BY <3>1, SubmissionIs
    <3> HIDE DEF Begun
    <3>3. QED
      BY <1>1, <3>2 DEF ChainBegun
  <2>3. QED
    BY <2>1, <2>2
<1>3. plan'.step = "standard" => Begun("optimize", plan'.model)
  <2>1. ASSUME plan'.step = "standard", UNCHANGED plan PROVE Begun("optimize", plan'.model)
    <3>1. RowOf("optimize", plan.model) # {}
      BY <2>1 DEF ChainBegun
    <3> HIDE DEF Begun
    <3>2. QED
      BY <1>1, <2>1, <3>1
  <2>2. ASSUME plan.step = "optimize", GoesOn("standard"), PlannerStep, plan'.model = plan.model
        PROVE  Begun("optimize", plan'.model)
    <3>1. Optimize
      BY <2>2, OneActionPerStep
    <3>2. plan'.step = "standard"
      BY <2>2, GoesOnEffect DEF PlannerInv, CycleSteps
    <3>3. plan.model # NoModel
      <4>1. GoesOn("status") => plan'.step = "status"
        BY GoesOnEffect DEF PlannerInv, CycleSteps
      <4>2. QED
        BY <3>1, <3>2, <4>1 DEF Optimize
    <3>4. PICK r, deps, next : Submission(r, deps, next) /\ Put(r, deps, next)
      BY <3>1, <3>3, PutSteps DEF Submits
    <3>5. r.type = "optimize" /\ r.key = <<plan.model>> /\ next = "standard"
      BY <2>2, <3>4, SubmissionIs
    <3>6. {k \in RowsOf(r.type)' : request'[k].key = r.key} # {}
      BY <2>2, <3>4, <3>5, AcceptedRow
    <3>7. QED
      BY <2>2, <3>5, <3>6
  <2> HIDE DEF Begun
  <2>3. QED
    BY <2>1, <2>2, CameFrom
<1>4. plan'.step = "fine" => Begun("verify_standard", plan'.model)
  <2>1. ASSUME plan'.step = "fine", UNCHANGED plan PROVE Begun("verify_standard", plan'.model)
    <3>1. RowOf("verify_standard", plan.model) # {}
      BY <2>1 DEF ChainBegun
    <3> HIDE DEF Begun
    <3>2. QED
      BY <1>1, <2>1, <3>1
  <2>2. ASSUME plan.step = "standard", GoesOn("fine"), PlannerStep, plan'.model = plan.model
        PROVE  Begun("verify_standard", plan'.model)
    <3>1. Standard
      BY <2>2, OneActionPerStep
    <3>2. PICK r, deps, next : Submission(r, deps, next) /\ Put(r, deps, next)
      BY <3>1, PutSteps DEF Submits
    <3>3. r.type = "verify_standard" /\ r.key = <<plan.model>> /\ next = "fine"
      BY <2>2, <3>2, SubmissionIs
    <3>4. {k \in RowsOf(r.type)' : request'[k].key = r.key} # {}
      BY <2>2, <3>2, <3>3, AcceptedRow
    <3>5. QED
      BY <2>2, <3>3, <3>4
  <2> HIDE DEF Begun
  <2>3. QED
    BY <2>1, <2>2, CameFrom
<1>5. QED
  BY <1>2, <1>3, <1>4 DEF ChainBegun, RowOf, RowsOf

LEMMA ParamsTunedStep ==
    ASSUME PlannerInv, ParamsTuned, [PlannerNext]_plannerVars
    PROVE  ParamsTuned'
<1>1. tuned \subseteq tuned'
  BY WorldStep
<1>2. plan'.latest # 0 => tuned # {}
  <2>1. CASE \E s \in CycleSteps : GoesOn(s)
    BY <2>1, GoesOnEffect DEF PlannerInv, ParamsTuned
  <2>2. CASE ReadTuning
    <3>1. plan'.latest = Largest(tuned)
      BY <2>2, ReadEffects
    <3>2. QED
      BY <3>1 DEF Largest
  <2>3. CASE Raises("manifest")
    <3>1. plan'.latest = 0
      BY <2>3, OverEffect DEF Raises, PlannerInv
    <3>2. QED
      BY <3>1
  <2>4. QED
    BY <2>1, <2>2, <2>3, PlanMoves, ReadEffects, RefusesEffect DEF ParamsTuned
<1>3. ASSUME NEW i \in RowsOf("train")', request'[i].body.params # 0 PROVE tuned # {}
  <2>1. CASE i \in Existing
    <3>1. i \in RowsOf("train") /\ request'[i] = request[i]
      BY <1>3, <2>1, OldRow DEF RowsOf
    <3>2. QED
      BY <1>3, <3>1 DEF ParamsTuned
  <2>2. CASE i \notin Existing
    <3>1. i \in Existing' \ Existing /\ request'[i].type = "train"
      BY <1>3, <2>2 DEF RowsOf
    <3>2. PICK next : Submission(request'[i], parents'[i], next)
      BY <3>1, NewRow
    <3>3. request'[i].body.params = plan.latest
      BY <3>1, <3>2, SubmissionIs
    <3>4. QED
      BY <1>3, <3>3 DEF ParamsTuned
  <2>3. QED
    BY <2>1, <2>2
<1>4. QED
  BY <1>1, <1>2, <1>3 DEF ParamsTuned

\* Counting only ever grows.
LEMMA CountKept ==
    ASSUME PlannerInv, [PlannerNext]_plannerVars, NEW n, NEW m \in Models,
           NEW d \in Datasets, NEW e \in Datasets, d <= e, CountOf(n, m, d)
    PROVE  CountOf(n, m, e) /\ CountOf(n, m, e)' /\ n \in Nat
<1>1. Rows' = Rows /\ done \subseteq done' /\ done \subseteq Thresholds
  BY PlannerStepKinds, SettingFixed, WorldStep DEF PlannerInv, PlannerTypeOK
<1>2. /\ Rows[d] \in Nat /\ Rows[e] \in Nat /\ Rows[d] <= Rows[e] /\ Rows[m.data] \in Nat
  <2>1. /\ Rows \in [Datasets -> 0 .. MaxRows] /\ m.data \in Datasets
        /\ \A x, y \in Datasets : x <= y => Rows[x] <= Rows[y]
    BY PlanFacts, SettingFacts
  <2>2. QED
    BY <2>1
<1>3. n \in Nat
  <2>1. done \subseteq 0 .. MaxRows /\ MaxRows \in Nat
    BY <1>1, ThresholdsBounded
  <2>2. \A k \in done : k \in Nat
    BY <2>1
  <2>3. QED
    BY <1>2, <2>2 DEF CountOf
<1>4. CountOf(n, m, e)
  BY <1>2, <1>3 DEF CountOf
<1>5. QED
  BY <1>1, <1>3, <1>4 DEF CountOf

LEMMA RowsCountedStep ==
    ASSUME PlannerInv, RowsCounted, [PlannerNext]_plannerVars
    PROVE  RowsCounted'
<1>1. SUFFICES ASSUME plan'.step \in Counted, plan'.model # NoModel
               PROVE  CountOf(plan.rows, plan.model, plan.data)'
  BY DEF RowsCounted
<1>2. PlannerInv' /\ UNCHANGED setting
  BY PlannerInvStep, PlannerStepKinds
<1>3. Rows' = Rows /\ Models' = Models /\ Datasets' = Datasets /\ setting \in Settings
  BY <1>2, SettingFixed, PlanFacts
<1>4. plan \in Plan /\ plan.model \in Models \cup {NoModel}
      /\ (plan.step \notin Outside => plan.data \in Datasets)
  BY PlanFacts
<1>5. CASE ReadCheckpoints
  <2>1. /\ plan.step = "checkpoints" /\ plan'.rows = ActiveRows /\ plan'.data = plan.data
        /\ plan'.model = plan.model
    BY <1>5, ReadEffects
  <2>2. /\ ActiveRows \in Nat /\ ActiveRows >= Rows[plan.model.data]
        /\ \/ ActiveRows = Rows[plan.model.data]
           \/ ActiveRows \in done /\ ActiveRows <= Rows[plan.data]
    BY <1>1, <2>1, ActiveRowsAre DEF Outside
  <2>3. Rows[plan.model.data] \in Nat
    <3>1. plan.model \in Models
      BY <1>1, <1>4, <2>1
    <3>2. plan.model.data \in Datasets /\ Rows \in [Datasets -> 0 .. MaxRows]
      BY <1>3, <3>1, SettingFacts
    <3>3. QED
      BY <3>2
  <2>4. CountOf(ActiveRows, plan.model, plan.data)
    BY <2>2, <2>3 DEF CountOf
  <2>5. done \subseteq done'
    BY WorldStep
  <2>6. QED
    BY <1>3, <2>1, <2>4, <2>5 DEF CountOf
<1>6. CASE /\ plan.step \in Counted /\ plan'.rows = plan.rows
           /\ plan'.model = plan.model /\ plan'.data = plan.data
  <2>1. CountOf(plan.rows, plan.model, plan.data) /\ done \subseteq done'
    BY <1>1, <1>6, WorldStep DEF RowsCounted
  <2>2. QED
    BY <1>3, <1>6, <2>1 DEF CountOf
<1>7. QED
  BY <1>1, <1>5, <1>6, CameFrom

LEMMA SearchRow ==
    ASSUME PlannerInv, NEW i \in RowsOf("optimize")
    PROVE  /\ i \in Existing /\ i \in Ids /\ request[i].type = "optimize"
           /\ request[i] \in RequestsOf(setting)
           /\ request[i].body.model \in Models
<1>1. i \in Existing /\ i \in Ids /\ request[i].type = "optimize" /\ setting \in Settings
      /\ request[i] \in RequestsOf(setting)
  BY PlanFacts DEF RowsOf, Existing, PlannerInv, Own
<1>2. request[i].body.model \in Models
  BY <1>1, JobsAre
<1>3. QED
  BY <1>1, <1>2

LEMMA SearchRowsStep ==
    ASSUME PlannerInv, SearchRows, RowsCounted, [PlannerNext]_plannerVars
    PROVE  SearchRows'
<1> DEFINE Counts(n, m, d) == \/ n = Rows[m.data]
                              \/ n > Rows[m.data] /\ n \in done' /\ n <= Rows[d]
<1>1. PlannerInv' /\ UNCHANGED setting /\ Datasets \subseteq Nat
  BY PlannerInvStep, PlannerStepKinds, PlanFacts, SettingFacts
<1>2. Rows' = Rows /\ Models' = Models /\ Datasets' = Datasets
  BY <1>1, SettingFixed
<1>3. /\ data \in Datasets /\ data' \in Datasets /\ data <= data'
      /\ plan.step \notin Outside => plan.data \in Datasets
      /\ plan'.step \notin Outside => plan'.data \in Datasets
      /\ plan.data <= data
  <2>1. data' \in Datasets /\ data <= data' /\ data \in Datasets /\ plan.data <= data
        /\ (plan.step \notin Outside => plan.data \in Datasets)
    BY WorldStep, PlanFacts DEF PlannerInv, Staged
  <2>2. plan'.step \notin Outside => plan'.data \in Datasets
    BY <2>1, SnapshotHeld
  <2>3. QED
    BY <2>1, <2>2
<1>4. ASSUME NEW n, NEW m \in Models, NEW d \in Datasets, NEW e \in Datasets, d <= e,
             CountOf(n, m, d)
      PROVE  Counts(n, m, e) /\ n \in Nat
  <2>1. CountOf(n, m, e) /\ n \in Nat /\ done \subseteq done'
    BY <1>4, CountKept, WorldStep
  <2>2. QED
    BY <2>1 DEF CountOf
<1>5. ASSUME NEW i \in RowsOf("optimize")', NEW n, NEW m,
             n = request'[i].body.rows, m = request'[i].body.model
      PROVE  /\ Counts(n, m, data')
             /\ plan'.step \notin Outside => Counts(n, m, plan'.data)
             /\ plan'.step \in Counted /\ plan'.model = m => n <= plan'.rows
  <2>1. CASE i \in Existing
    <3>1. i \in RowsOf("optimize") /\ request'[i] = request[i]
      BY <1>5, <2>1, OldRow DEF RowsOf
    <3>2. /\ CountOf(n, m, data) /\ m \in Models
          /\ plan.step \notin Outside => CountOf(n, m, plan.data)
          /\ plan.step \in Counted /\ plan.model = m => n <= plan.rows
      BY <1>5, <3>1, SearchRow DEF SearchRows
    <3>3. Counts(n, m, data') /\ n \in Nat
      BY <1>3, <1>4, <3>2
    <3>4. plan'.step \notin Outside => Counts(n, m, plan'.data)
      <4>1. ASSUME plan'.step \notin Outside
            PROVE  \E d \in Datasets : d <= plan'.data /\ CountOf(n, m, d)
        <5>1. \A d \in Datasets : d <= d
          BY <1>1
        <5>2. QED
          BY <1>3, <3>2, <4>1, <5>1, SnapshotHeld
      <4>2. QED
        BY <1>3, <1>4, <3>2, <4>1
    <3>5. ASSUME plan'.step \in Counted, plan'.model = m PROVE n <= plan'.rows
      <4>1. CASE ReadCheckpoints
        <5>1. /\ plan.step = "checkpoints" /\ plan'.rows = ActiveRows /\ plan'.model = plan.model
          BY <4>1, ReadEffects
        <5>2. plan.step \notin Outside /\ plan.model # NoModel
          BY <3>2, <3>5, <5>1, PlanFacts, SettingFacts DEF Outside
        <5>3. /\ ActiveRows \in Nat /\ ActiveRows >= Rows[m.data]
              /\ \A k \in done : k <= Rows[plan.data] => k <= ActiveRows
          BY <3>5, <5>1, <5>2, ActiveRowsAre
        <5>4. CountOf(n, m, plan.data)
          BY <3>2, <5>2
        <5>5. Rows[m.data] \in Nat
          <6>1. m.data \in Datasets /\ Rows \in [Datasets -> 0 .. MaxRows]
            BY <3>2, PlanFacts, SettingFacts
          <6>2. QED
            BY <6>1
        <5>6. QED
          BY <3>3, <5>1, <5>3, <5>4, <5>5 DEF CountOf
      <4>2. CASE plan.step \in Counted /\ plan'.rows = plan.rows /\ plan'.model = plan.model
        BY <3>2, <3>5, <4>2
      <4>3. QED
        BY <3>5, <4>1, <4>2, CameFrom
    <3>6. QED
      BY <3>3, <3>4, <3>5
  <2>2. CASE i \notin Existing
    <3>1. i \in Existing' \ Existing /\ request'[i].type = "optimize"
      BY <1>5, <2>2 DEF RowsOf
    <3>2. PICK next : Submission(request'[i], parents'[i], next) /\ GoesOn(next)
      BY <3>1, NewRow
    <3>3. /\ plan.step = "optimize" /\ plan.model # NoModel /\ next = "standard"
          /\ m = plan.model /\ n = plan.rows
      BY <1>5, <3>1, <3>2, SubmissionIs
    <3>4. plan'.step = "standard" /\ plan'.data = plan.data
      BY <3>2, <3>3, GoesOnEffect DEF PlannerInv, CycleSteps
    <3>5. CountOf(n, m, plan.data)
      BY <3>3 DEF RowsCounted, Counted
    <3>6. m \in Models /\ plan.data \in Datasets
      BY <3>3, PlanFacts DEF Outside
    <3>7. plan.data <= data' /\ plan.data <= plan.data
      <4>1. plan.data \in Nat /\ data \in Nat /\ data' \in Nat
        BY <1>1, <1>3, <3>6
      <4>2. QED
        BY <1>3, <4>1
    <3>8. Counts(n, m, data') /\ Counts(n, m, plan.data)
      BY <1>3, <1>4, <3>5, <3>6, <3>7
    <3>9. plan'.step \notin Counted
      BY <3>4 DEF Counted, TrainSteps
    <3>10. QED
      BY <3>4, <3>8, <3>9
  <2>3. QED
    BY <2>1, <2>2
<1>6. ASSUME NEW i \in RowsOf("optimize")'
      PROVE  /\ Counts(request'[i].body.rows, request'[i].body.model, data')
             /\ plan'.step \notin Outside
                => Counts(request'[i].body.rows, request'[i].body.model, plan'.data)
             /\ plan'.step \in Counted /\ plan'.model = request'[i].body.model
                => request'[i].body.rows <= plan'.rows
  <2> HIDE DEF Counts
  <2>1. QED
    BY <1>5, <1>6
<1>7. QED
  BY <1>2, <1>6 DEF SearchRows, CountOf

\* While every launch so far runs from the same root, so does every job.
LEMMA OneRoot ==
    ASSUME PlannerInv, Rooted, ~ RolledOver, NEW i \in Existing
    PROVE  request[i].body.root = Here.root
<1>1. PICK n \in 1 .. plan.launch : Launches[n].root = request[i].body.root
  BY DEF Rooted
<1>2. plan.launch \in 1 .. plan.launch
  BY PlanFacts, SettingFacts
<1>3. QED
  BY <1>1, <1>2 DEF RolledOver, Here

\* A refusal, as it happens, has one of the reasons.
LEMMA RefusalReason ==
    ASSUME PlannerInv, Rooted, Chained, ParamsTuned, SearchRows, RowsCounted, ~ RolledOver,
           NEW r, NEW deps, NEW next, Submission(r, deps, next), Refused(r, deps)
    PROVE  \/ r.type = "train" /\ tuned # {}
           \/ r.type = "optimize" /\ \E i \in RowsOf("optimize") :
                                         request[i].body.rows < Largest(done)
<1>1. PICK i \in RowsOf(r.type) : request[i].key = r.key /\ (request[i] # r \/ parents[i] # deps)
  BY DEF Refused
<1>2. /\ i \in Existing /\ request[i].type = r.type /\ setting \in Settings
      /\ request[i] \in RequestsOf(setting) /\ r \in RequestsOf(setting)
  BY <1>1, PlanFacts, SubmissionOwn DEF RowsOf, PlannerInv, Own
<1>3. request[i].body.root = r.body.root
  BY <1>2, OneRoot, SubmissionHere
<1>4. CASE r.type \in {"collect", "tune"}
  <2>1. request[i] = r
    BY <1>1, <1>2, <1>3, <1>4, SameJob
  <2>2. deps = {} /\ parents[i] = {}
    BY <1>2, <1>4, SubmissionIs DEF Chained
  <2>3. QED
    BY <1>1, <2>1, <2>2
<1>5. CASE r.type = "train"
  <2>1. deps = {} /\ parents[i] = {} /\ r.body.params = plan.latest
    BY <1>2, <1>5, SubmissionIs DEF Chained
  <2>2. request[i].body.params # plan.latest
    BY <1>1, <1>2, <1>5, <2>1, SameJob
  <2>3. QED
    BY <1>1, <1>5, <2>2 DEF ParamsTuned
<1>6. CASE r.type = "optimize"
  <2> DEFINE n == request[i].body.rows
             m == plan.model
  <2>1. /\ deps = {} /\ parents[i] = {} /\ plan.step = "optimize" /\ m # NoModel
        /\ r.body.model = m /\ r.body.rows = plan.rows
    BY <1>2, <1>6, SubmissionIs DEF Chained
  <2>2. n # plan.rows
    BY <1>1, <1>2, <1>3, <1>6, <2>1, SameJob
  <2>3. request[i].body.model = m
    BY <1>1, <1>2, <1>6, <2>1, SameJob
  <2>4. /\ CountOf(n, m, data) /\ n <= plan.rows
        /\ CountOf(plan.rows, m, plan.data)
    BY <1>1, <1>6, <2>1, <2>3 DEF SearchRows, RowsCounted, Counted
  <2>5. Rows[m.data] \in Nat
    <3>1. m \in Models
      BY <2>1, PlanFacts
    <3>2. m.data \in Datasets /\ Rows \in [Datasets -> 0 .. MaxRows]
      BY <1>2, <3>1, SettingFacts
    <3>3. QED
      BY <3>2
  <2>6. done \subseteq 0 .. MaxRows /\ MaxRows \in Nat /\ plan.rows \in Nat
    BY PlanFacts, ThresholdsBounded DEF PlannerInv, PlannerTypeOK
  <2>7. n \in Nat
    <3>1. \A k \in done : k \in Nat
      BY <2>6
    <3>2. QED
      BY <2>4, <2>5, <3>1 DEF CountOf
  <2> HIDE DEF n, m
  <2>8. plan.rows \in done /\ n < plan.rows
    BY <2>2, <2>4, <2>5, <2>6, <2>7 DEF CountOf
  <2>9. plan.rows <= Largest(done) /\ Largest(done) \in Nat
    BY <2>6, <2>8, LargestOf
  <2>10. n < Largest(done)
    BY <2>6, <2>7, <2>8, <2>9
  <2>11. QED
    BY <1>1, <1>6, <2>10 DEF n
<1>7. CASE r.type = "verify_standard"
  <2>1. request[i] = r
    BY <1>1, <1>2, <1>3, <1>7, SameJob
  <2>2. deps = RowOf("optimize", plan.model) /\ r.body.model = plan.model
    BY <1>7, SubmissionIs
  <2>3. parents[i] = RowOf("optimize", request[i].body.model)
    BY <1>2, <1>7 DEF Chained
  <2>4. QED
    BY <1>1, <2>1, <2>2, <2>3
<1>8. CASE r.type = "verify_fine"
  <2>1. request[i] = r
    BY <1>1, <1>2, <1>3, <1>8, SameJob
  <2>2. deps = RowOf("verify_standard", plan.model) /\ r.body.model = plan.model
    BY <1>8, SubmissionIs
  <2>3. parents[i] = RowOf("verify_standard", request[i].body.model)
    BY <1>2, <1>8 DEF Chained
  <2>4. QED
    BY <1>1, <2>1, <2>2, <2>3
<1>9. r.type \in JobTypes
  BY SubmissionIs
<1>10. QED
  BY <1>4, <1>5, <1>6, <1>7, <1>8, <1>9 DEF JobTypes

LEMMA ErrorStep ==
    ASSUME PlannerInv, [PlannerNext]_plannerVars, plan'.error \in JobTypes
    PROVE  plan'.error = plan.error \/ Refuses
<1>1. "none" \notin JobTypes /\ "manifest" \notin JobTypes
  BY DEF JobTypes
<1>2. CASE \E s \in CycleSteps : GoesOn(s)
  BY <1>1, <1>2, GoesOnEffect DEF PlannerInv
<1>3. CASE Raises("manifest")
  <2>1. plan'.error = "manifest"
    BY <1>3, OverEffect DEF Raises, PlannerInv
  <2>2. QED
    BY <1>1, <2>1
<1>4. QED
  BY <1>1, <1>2, <1>3, PlanMoves, ReadEffects

\* The reasons stay.
LEMMA ReasonsStay ==
    ASSUME PlannerInv, SearchRows, [PlannerNext]_plannerVars
    PROVE  /\ RolledOver => RolledOver'
           /\ tuned # {} => tuned' # {}
           /\ (\E i \in RowsOf("optimize") : request[i].body.rows < Largest(done))
              => \E i \in RowsOf("optimize")' : request'[i].body.rows < Largest(done')
<1>1. RolledOver => RolledOver'
  <2>1. /\ plan.launch \in Nat /\ plan'.launch \in Nat /\ plan.launch <= plan'.launch
    <3>1. plan.launch \in Nat
      BY PlanFacts, SettingFacts
    <3>2. QED
      BY <3>1, RelaunchStep
  <2>2. Launches' = Launches
    BY PlannerStepKinds, SettingFixed
  <2>3. QED
    BY <2>1, <2>2 DEF RolledOver
<1>2. tuned \subseteq tuned'
  BY WorldStep
<1>3. ASSUME NEW i \in RowsOf("optimize"), request[i].body.rows < Largest(done)
      PROVE  i \in RowsOf("optimize")' /\ request'[i].body.rows < Largest(done')
  <2>1. i \in RowsOf("optimize")' /\ request'[i] = request[i]
    BY <1>3, OldRow DEF RowsOf
  <2>2. request[i].body.rows \in Nat
    <3>1. CountOf(request[i].body.rows, request[i].body.model, data)
          /\ request[i].body.model \in Models /\ data \in Datasets /\ data <= data
      <4>1. data \in Datasets /\ data \in Nat
        BY PlanFacts, SettingFacts
      <4>2. QED
        BY <4>1, SearchRow DEF SearchRows
    <3>2. QED
      BY <3>1, CountKept
  <2>3. /\ done \subseteq done' /\ done \in SUBSET (0 .. MaxRows)
        /\ done' \in SUBSET (0 .. MaxRows) /\ MaxRows \in Nat
    BY WorldStep, ThresholdsBounded DEF PlannerInv, PlannerTypeOK
  <2>4. /\ Largest(done) \in done \cup {0} /\ Largest(done) \in 0 .. MaxRows
        /\ Largest(done') \in 0 .. MaxRows /\ \A x \in done' : x <= Largest(done')
    BY <2>3, LargestOf
  <2>5. Largest(done) <= Largest(done')
    BY <2>3, <2>4
  <2>6. QED
    BY <1>3, <2>1, <2>2, <2>4, <2>5
<1>4. QED
  BY <1>1, <1>2, <1>3

LEMMA RefusalStep ==
    ASSUME PlannerInv, RefusalInv, [PlannerNext]_plannerVars
    PROVE  RefusalExplained'
<1> USE DEF RefusalInv
<1> DEFINE Stale == \E i \in RowsOf("optimize") : request[i].body.rows < Largest(done)
           StaleNow == \E i \in RowsOf("optimize")' : request'[i].body.rows < Largest(done')
<1>1. SUFFICES ASSUME plan'.error \in JobTypes
               PROVE  \/ RolledOver'
                      \/ plan'.error = "train" /\ tuned' # {}
                      \/ plan'.error = "optimize" /\ StaleNow
  BY DEF RefusalExplained
<1>2. \/ RolledOver
      \/ plan'.error = "train" /\ tuned # {}
      \/ plan'.error = "optimize" /\ Stale
  <2>1. CASE plan'.error = plan.error
    BY <1>1, <2>1 DEF RefusalExplained
  <2>2. CASE Refuses
    <3>1. PICK r, deps, next : /\ Submission(r, deps, next) /\ Refused(r, deps)
                               /\ plan'.error = r.type
      BY <2>2, RefusesEffect
    <3>2. QED
      BY <3>1, RefusalReason
  <2>3. QED
    BY <1>1, <2>1, <2>2, ErrorStep
<1>3. /\ RolledOver => RolledOver'
      /\ tuned # {} => tuned' # {}
      /\ Stale => StaleNow
  BY ReasonsStay
<1> HIDE DEF Stale, StaleNow
<1>4. QED
  BY <1>2, <1>3

LEMMA RefusalInvInit == ASSUME PlannerInit PROVE RefusalInv
<1>1. Existing = {} /\ plan.step = "start" /\ plan.latest = 0 /\ plan.error = "none"
  BY DEF PlannerInit, Init, Existing, NoRow, Idle
<1>2. QED
  BY <1>1 DEF RefusalInv, Rooted, Chained, ChainBegun, ParamsTuned, SearchRows, RowsCounted,
              RefusalExplained, RowsOf, Counted, TrainSteps, JobTypes

\* Planning again what was planned before is accepted: enqueue refuses a cycle's job
\* only after a rollover, or because the parameters of a training or the rows of a
\* search have moved on since the row was made.
THEOREM RefusalsExplained == PlannerSpec => []RefusalExplained
<1>1. PlannerInit => RefusalInv
  BY RefusalInvInit
<1>2. PlannerInv /\ RefusalInv /\ [PlannerNext]_plannerVars => RefusalInv'
  <2>1. ASSUME PlannerInv, RefusalInv, [PlannerNext]_plannerVars PROVE RefusalInv'
    <3>1. Rooted' /\ Chained' /\ ChainBegun' /\ ParamsTuned'
      BY <2>1, RootedStep, ChainedStep, ChainBegunStep, ParamsTunedStep DEF RefusalInv
    <3>2. SearchRows' /\ RowsCounted'
      BY <2>1, SearchRowsStep, RowsCountedStep DEF RefusalInv
    <3>3. RefusalExplained'
      BY <2>1, RefusalStep
    <3>4. QED
      BY <3>1, <3>2, <3>3 DEF RefusalInv
  <2>2. QED
    BY <2>1
<1>3. RefusalInv => RefusalExplained
  BY DEF RefusalInv
<1>4. QED
  BY <1>1, <1>2, <1>3, PlannerInvariance, PTL DEF PlannerSpec
=============================================================================
