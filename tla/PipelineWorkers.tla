-------------------------- MODULE PipelineWorkers --------------------------
(***************************************************************************)
(* The worker side of the learning pipeline: lane workers that claim jobs, *)
(* run one command each and report (pipeline/runner.py), the thread that   *)
(* keeps a worker's lease (_LeaseKeeper), and the supervisor that starts   *)
(* one worker per lane and stops all of them when one is lost              *)
(* (pipeline/supervisor.py), composed with the queue of DurableQueue.      *)
(*                                                                         *)
(* A worker's owner label is unique to its process, so an owner is a pair  *)
(* <<lane, generation>>, where a generation is one launch of the           *)
(* supervisor.  A worker process may crash at any point; its command is in *)
(* a session of its own and survives it.  When the supervisor process is   *)
(* killed its lane workers go on, next to those of the next generation,    *)
(* unless they keep the role lock (pipeline/runtime_lock.py): lanes that   *)
(* are forked, and not spawned, share the open file it belongs to.         *)
(*                                                                         *)
(* A supervisor is started by hand.  It is started again by nobody, unless *)
(* by a launcher (start_pipeline_role.ps1) that was told to restart it on  *)
(* failure; that one leaves for good after a clean exit, and when the role *)
(* lock refuses what it starts.  A launcher that is killed is none.        *)
(*                                                                         *)
(* Real time: a renewal commits, or gives up, within the busy timeout of   *)
(* the moment it is due, while its process lives.  Nothing bounds how long *)
(* a command, a publication or a report takes.                             *)
(***************************************************************************)
EXTENDS DurableQueue

CONSTANTS Lanes,           \* lane names; a generation has at most one worker in each
          Generations,     \* bound: launches of the supervisor
          BeatInterval,    \* _LeaseKeeper.interval, in ticks
          Mortal,          \* generations that may crash or be told to stop
          Forking          \* are lanes forked, or spawned: any of these

ASSUME OwnerAssumption == Owners \subseteq Lanes \X (1 .. Generations)
ASSUME BeatAssumption  == BeatInterval \in Nat \ {0} /\ Mortal \subseteq 1 .. Generations
                          /\ Forking \subseteq BOOLEAN

\* A row records which attempt its output is of.
ASSUME OutputAssumption == \A r \in Requests : 1 .. r.max \subseteq Outputs

\* The defaults, 120 s of lease, a renewal every 30 s and a busy timeout of 30 s, satisfy
\* this; the runner accepts leases from 15 s on, and below 80 s they do not.
ASSUME LeaseAssumption == LeaseTicks >= BeatInterval + 2 * Lag

VARIABLES worker,      \* [Owners -> Worker]
          commands,    \* live command processes, orphans included
          published,   \* <<job, attempt>> pairs whose output is in the store
          supervisor,  \* [1 .. Generations -> state of that supervisor process]
          stop,        \* [1 .. Generations -> BOOLEAN], the shared stop event
          forked,      \* the platform forks the lanes
          launcher     \* what start_pipeline_role.ps1 -RestartOnFailure is doing

workerVars == <<worker, commands, published>>
superVars  == <<supervisor, stop, forked, launcher>>
allVars    == <<vars, workerVars, superVars>>

Steps == {"off",       \* not launched yet
          "idle",      \* at the top of run_forever
          "poll",      \* has seen no stop request, about to claim
          "prepare",   \* holds a job, checks its inputs
          "run",       \* its command runs
          "kill",      \* terminates its command
          "publish",   \* its command exited with 0
          "accept",    \* the output is published
          "fail",      \* about to report a failure
          "error",     \* in the except clause of _execute_owned
          "gone"}      \* exited, or crashed

Worker == [step   : Steps,
           job    : Ids \cup {0},
           try    : Nat,                        \* Job.attempt as claimed
           keeper : {"off", "on", "lost"},
           since  : 0 .. BeatInterval + Lag,    \* ticks since the lease was renewed
           retry  : BOOLEAN]                    \* whether, and how, it will call fail()

\* A supervisor watches its lanes, or ends them to exit with 0, or with an error.
Running == {"up", "stopping", "failing"}

Resting(step) == [step |-> step, job |-> 0, try |-> 0, keeper |-> "off",
                  since |-> 0, retry |-> FALSE]

Command(o) == [owner |-> o, job |-> worker[o].job, try |-> worker[o].try]

WorkersTypeOK ==
    /\ TypeOK
    /\ worker \in [Owners -> Worker]
    /\ commands \subseteq [owner : Owners, job : Ids, try : Nat]
    /\ published \subseteq Ids \X Nat
    /\ supervisor \in [1 .. Generations -> Running \cup {"off", "stopped", "failed"}]
    /\ stop \in [1 .. Generations -> BOOLEAN] /\ forked \in Forking
    /\ launcher \in {"none", "watching", "done", "refused"}

WorkersInit ==
    /\ Init
    /\ worker = [o \in Owners |-> Resting("off")]
    /\ commands = {} /\ published = {}
    /\ supervisor = [g \in 1 .. Generations |-> "off"]
    /\ stop = [g \in 1 .. Generations |-> FALSE] /\ forked \in Forking
    /\ launcher = "none"

Generation(o) == o[2]
Crew(g) == {o \in Owners : Generation(o) = g}

Goes(o, step) == worker' = [worker EXCEPT ![o].step = step]
Rests(o, step) == worker' = [worker EXCEPT ![o] = Resting(step)]
WillFail(o, retry) == worker' = [worker EXCEPT ![o].step = "fail", ![o].retry = retry]

LeaseLost(o) == worker[o].keeper = "lost"
OwnsItsJob(o, lag) == Owns(o, worker[o].job, lag)

----------------------------------------------------------------------------
(* run_forever and run_once                                                *)

\* Mutant of Poll: the loop does not look at the stop event.
PollForever(o) ==
    /\ worker[o].step = "idle"
    /\ Goes(o, "poll")
    /\ UNCHANGED <<vars, commands, published, superVars>>

\* The stop event is looked at before the claim, not with it.
Poll(o) ==
    /\ worker[o].step = "idle"
    /\ IF stop[Generation(o)] THEN Rests(o, "gone") ELSE Goes(o, "poll")
    /\ UNCHANGED <<vars, commands, published, superVars>>

ClaimJob(o, lag) ==
    /\ worker[o].step = "poll"
    /\ Claim(o, lag)
    /\ LET mine == {i \in Ids : row'[i].owner = o /\ row'[i].attempt = row[i].attempt + 1}
       IN IF mine = {} THEN Goes(o, "idle")
          ELSE \E i \in mine :
                   worker' = [worker EXCEPT ![o] = [Resting("prepare") EXCEPT
                                  !.job = i, !.try = row'[i].attempt, !.keeper = "on"]]
    /\ UNCHANGED <<commands, published, superVars>>

\* The inputs are in order and the command starts; nobody asks the keeper first.
Spawn(o) ==
    /\ worker[o].step = "prepare"
    /\ Goes(o, "run")
    /\ commands' = commands \cup {Command(o)}
    /\ UNCHANGED <<vars, published, superVars>>

\* The command cannot be started, or its log cannot be opened.
SpawnError(o) ==
    /\ worker[o].step = "prepare"
    /\ Goes(o, "error")
    /\ UNCHANGED <<vars, commands, published, superVars>>

\* An input is missing or does not authenticate: the job fails for good.  This
\* report is outside the try block: refused, it ends the worker process.
Refuse(o, lag) ==
    /\ worker[o].step = "prepare"
    /\ \/ Fail(o, worker[o].job, FALSE, lag) /\ Rests(o, "idle")
       \/ /\ ~ OwnsItsJob(o, lag) /\ Generation(o) \in Mortal
          /\ Rests(o, "gone") /\ UNCHANGED vars
    /\ UNCHANGED <<commands, published, superVars>>

\* The command ends by itself, and its exit code alone decides what follows.
CommandExit(o) ==
    /\ worker[o].step = "run"
    /\ commands' = commands \ {Command(o)}
    /\ \/ Goes(o, "publish")
       \/ \E retry \in BOOLEAN : WillFail(o, retry)
    /\ UNCHANGED <<vars, published, superVars>>

\* The 0.5 s loop notices a stop request or a lost lease.
BeginKill(o) ==
    /\ worker[o].step = "run"
    /\ \E shutdown \in BOOLEAN :
          /\ IF shutdown THEN stop[Generation(o)] ELSE LeaseLost(o)
          /\ worker' = [worker EXCEPT ![o].step = "kill", ![o].retry = shutdown]
    /\ UNCHANGED <<vars, commands, published, superVars>>

\* Mutant of Killed: the report does not wait for the command to be dead.
ReportedBeforeKilled(o) ==
    /\ worker[o].step = "kill"
    /\ IF worker[o].retry THEN Goes(o, "fail") ELSE Rests(o, "idle")
    /\ UNCHANGED <<vars, commands, published, superVars>>

\* A shutdown reports a retryable failure; a lost lease is not reported at all.
Killed(o) ==
    /\ worker[o].step = "kill"
    /\ commands' = commands \ {Command(o)}
    /\ IF worker[o].retry THEN Goes(o, "fail") ELSE Rests(o, "idle")
    /\ UNCHANGED <<vars, published, superVars>>

\* Mutant of Publish: a publication that raises is taken for one that worked.
PublishSwallowingErrors(o) ==
    /\ worker[o].step = "publish"
    /\ \/ LeaseLost(o) /\ Rests(o, "idle") /\ UNCHANGED published
       \/ /\ ~ LeaseLost(o) /\ Goes(o, "accept")
          /\ published' \in {published, published \cup {<<worker[o].job, worker[o].try>>}}
    /\ UNCHANGED <<vars, commands, superVars>>

\* ensure_owned, then publish_tree or the authentication of what the command
\* itself published.
Publish(o) ==
    /\ worker[o].step = "publish"
    /\ \/ LeaseLost(o) /\ Rests(o, "idle") /\ UNCHANGED published
       \/ /\ ~ LeaseLost(o) /\ Goes(o, "accept")
          /\ published' = published \cup {<<worker[o].job, worker[o].try>>}
       \/ ~ LeaseLost(o) /\ Goes(o, "error") /\ UNCHANGED published
    /\ UNCHANGED <<vars, commands, superVars>>

\* ensure_owned, then succeed, which may be refused or raise.
Accept(o, lag) ==
    /\ worker[o].step = "accept"
    /\ \/ /\ ~ LeaseLost(o) /\ Rests(o, "idle")
          /\ Succeed(o, worker[o].job, worker[o].try, lag)
       \/ LeaseLost(o) /\ Rests(o, "idle") /\ UNCHANGED vars
       \/ ~ LeaseLost(o) /\ Goes(o, "error") /\ UNCHANGED vars
    /\ UNCHANGED <<commands, published, superVars>>

\* queue.fail inside the try block, which may be refused or raise.
ReportFailure(o, lag) ==
    /\ worker[o].step = "fail"
    /\ \/ Fail(o, worker[o].job, worker[o].retry, lag) /\ Rests(o, "idle")
       \/ Goes(o, "error") /\ UNCHANGED vars
    /\ UNCHANGED <<commands, published, superVars>>

\* The except clause: a worker that knows it lost the lease, or whose report is
\* refused, leaves the job alone.  Whether the job is retried is now up to its
\* payload, even after an exit code that was not to be retried.
ReportError(o, lag) ==
    /\ worker[o].step = "error"
    /\ Rests(o, "idle")
    /\ \/ ~ LeaseLost(o) /\ \E retry \in BOOLEAN : Fail(o, worker[o].job, retry, lag)
       \/ (LeaseLost(o) \/ ~ OwnsItsJob(o, lag)) /\ UNCHANGED vars
    /\ UNCHANGED <<commands, published, superVars>>

----------------------------------------------------------------------------
(* _LeaseKeeper: one renewal per interval, the first failure is the last    *)

Beat(o, lag) ==
    /\ worker[o].keeper = "on" /\ worker[o].since - lag >= BeatInterval
    /\ \/ Heartbeat(o, worker[o].job, lag) /\ worker' = [worker EXCEPT ![o].since = 0]
       \/ /\ ~ OwnsItsJob(o, lag) /\ UNCHANGED vars
          /\ worker' = [worker EXCEPT ![o].keeper = "lost"]
    /\ UNCHANGED <<commands, published, superVars>>

\* Mutant of BeatError: a renewal that raises is tried again an interval later.
BeatErrorTolerant(o) ==
    /\ worker[o].keeper = "on" /\ worker[o].since >= BeatInterval
    /\ worker' = [worker EXCEPT ![o].since = 0]
    /\ UNCHANGED <<vars, commands, published, superVars>>

\* The renewal raises, for instance because the table stayed locked.
BeatError(o) ==
    /\ worker[o].keeper = "on" /\ worker[o].since >= BeatInterval
    /\ worker' = [worker EXCEPT ![o].keeper = "lost"]
    /\ UNCHANGED <<vars, commands, published, superVars>>

\* Time passes; a renewal is never overdue by more than the busy timeout.
Pass ==
    /\ \A o \in Owners : worker[o].keeper = "on" => worker[o].since < BeatInterval + Lag
    /\ Tick
    /\ worker' = [o \in Owners |-> IF worker[o].keeper = "on"
                                   THEN [worker[o] EXCEPT !.since = @ + 1] ELSE worker[o]]
    /\ UNCHANGED <<commands, published, superVars>>

----------------------------------------------------------------------------
(* Supervisor processes and crashes                                        *)

\* Mutant of RoleHeld: the file is the lock, and nobody removes it after a crash.
RoleFileExists(g) == supervisor[g] # "off"

\* RoleInstanceLock: a lock is held until every process that has the open file is gone.
RoleHeld(g) ==
    \/ supervisor[g] \in Running
    \/ forked /\ \E o \in Crew(g) : worker[o].step \notin {"off", "gone"}

Admitted(g) == \A h \in 1 .. g - 1 : supervisor[h] # "off" /\ ~ RoleHeld(h)

\* Spawned lane workers of a killed supervisor may still be there.
Launch(g) ==
    /\ supervisor' = [supervisor EXCEPT ![g] = "up"]
    /\ worker' = [o \in Owners |-> IF o \in Crew(g) THEN Resting("idle") ELSE worker[o]]
    /\ UNCHANGED <<vars, commands, published, stop, forked>>

\* Somebody starts the role, with a launcher that restarts it or without one.
StartRole(g) ==
    /\ supervisor[g] = "off" /\ Admitted(g) /\ launcher # "watching"
    /\ launcher' \in {"none", "watching"}
    /\ Launch(g)

\* The launcher's loop: after an exit code other than 0 it starts the next supervisor,
\* and leaves when that one is refused the lock (73).
RestartRole(g) ==
    /\ supervisor[g] = "off" /\ g > 1 /\ supervisor[g - 1] = "failed"
    /\ launcher = "watching"
    /\ \/ Admitted(g) /\ Launch(g) /\ UNCHANGED launcher
       \/ /\ ~ Admitted(g) /\ launcher' = "refused"
          /\ UNCHANGED <<vars, workerVars, supervisor, stop, forked>>

\* SIGINT or SIGTERM.
RequestStop(g) ==
    /\ supervisor[g] = "up" /\ g \in Mortal
    /\ stop' = [stop EXCEPT ![g] = TRUE]
    /\ UNCHANGED <<vars, workerVars, supervisor, forked, launcher>>

\* Mutant of BeginStop: a lane that exits is left to the others.
BeginStopOnRequest(g) ==
    /\ supervisor[g] = "up" /\ stop[g]
    /\ supervisor' = [supervisor EXCEPT ![g] = "stopping"]
    /\ UNCHANGED <<vars, workerVars, stop, forked, launcher>>

\* A stop request, or a lane that exited, ends the whole generation, the latter with
\* an error.
BeginStop(g) ==
    /\ supervisor[g] = "up"
    /\ \/ stop[g] /\ supervisor' = [supervisor EXCEPT ![g] = "stopping"]
       \/ /\ \E o \in Crew(g) : worker[o].step = "gone"
          /\ supervisor' = [supervisor EXCEPT ![g] = "failing"]
    /\ stop' = [stop EXCEPT ![g] = TRUE]
    /\ UNCHANGED <<vars, workerVars, forked, launcher>>

\* Every lane has been joined.  Lanes that overran the deadline were terminated
\* first, which is a crash of theirs.  After an exit with 0 a launcher leaves.
FinishStop(g) ==
    /\ supervisor[g] \in {"stopping", "failing"}
    /\ \A o \in Crew(g) : worker[o].step = "gone"
    /\ IF supervisor[g] = "failing"
       THEN supervisor' = [supervisor EXCEPT ![g] = "failed"] /\ UNCHANGED launcher
       ELSE /\ supervisor' = [supervisor EXCEPT ![g] = "stopped"]
            /\ launcher' = IF launcher = "watching" THEN "done" ELSE launcher
    /\ UNCHANGED <<vars, workerVars, stop, forked>>

SupervisorCrash(g) ==
    /\ supervisor[g] \in Running /\ g \in Mortal
    /\ supervisor' = [supervisor EXCEPT ![g] = "failed"]
    /\ UNCHANGED <<vars, workerVars, stop, forked, launcher>>

WorkerCrash(o) ==
    /\ worker[o].step \notin {"off", "gone"} /\ Generation(o) \in Mortal
    /\ Rests(o, "gone")
    /\ UNCHANGED <<vars, commands, published, superVars>>

\* A command whose worker crashed ends unobserved.
OrphanExit(c) ==
    /\ c \in commands /\ worker[c.owner].step = "gone"
    /\ commands' = commands \ {c}
    /\ UNCHANGED <<vars, worker, published, superVars>>

----------------------------------------------------------------------------

\* The controller's side of the queue: submissions, and stats().
Submit(r, deps, lag) ==
    EnqueueNew(r, deps, lag) /\ UNCHANGED <<workerVars, superVars>>
Stats(lag) == Reconcile(lag) /\ UNCHANGED <<workerVars, superVars>>

LaneStep(o) ==
    \/ Poll(o) \/ Spawn(o) \/ SpawnError(o) \/ BeginKill(o) \/ Killed(o) \/ Publish(o)
    \/ \E lag \in 0 .. Lag : \/ ClaimJob(o, lag) \/ Refuse(o, lag)
                             \/ Accept(o, lag) \/ ReportFailure(o, lag) \/ ReportError(o, lag)

KeeperStep(o) == BeatError(o) \/ \E lag \in 0 .. Lag : Beat(o, lag)

SupervisorStep(g) == BeginStop(g) \/ FinishStop(g)

WorkersNext ==
    \/ \E lag \in 0 .. Lag : \/ Stats(lag)
                             \/ \E r \in Requests, deps \in SUBSET Ids : Submit(r, deps, lag)
    \/ \E o \in Owners : LaneStep(o) \/ CommandExit(o) \/ KeeperStep(o) \/ WorkerCrash(o)
    \/ \E c \in commands : OrphanExit(c)
    \/ \E g \in 1 .. Generations : \/ SupervisorStep(g) \/ RequestStop(g) \/ SupervisorCrash(g)
                                   \/ StartRole(g) \/ RestartRole(g)
    \/ Pass

WorkersSpec == WorkersInit /\ [][WorkersNext]_allVars

----------------------------------------------------------------------------
(* Properties                                                              *)

\* Two workers never believe at the same time that they hold the same job: by
\* the time a lease can be claimed away, its old owner's keeper has noticed.
OneBeliever ==
    \A o, p \in Owners :
        /\ worker[o].keeper = "on" /\ worker[p].keeper = "on"
        /\ worker[o].job = worker[p].job
        => o = p

\* A job that succeeded carries the output its last charged attempt published:
\* never the late output of an attempt that another one has replaced.
OutputOfLastAttempt ==
    \A i \in Ids : row[i].state = "succeeded"
                  => /\ row[i].output = row[i].attempt
                     /\ <<i, row[i].attempt>> \in published

\* Two commands of one job run side by side only after a crash, or while a
\* worker that lost its lease is about to terminate its own.
OverlapExplained ==
    \A c, d \in commands :
        c.job = d.job => \/ c = d
                         \/ \E e \in {c, d} : worker[e.owner].step = "gone" \/ LeaseLost(e.owner)

\* Fairness: the clock, the keeper threads, the lane loops, the supervisors and a
\* launcher that watches are scheduled, and a command that is left alone ends.  Nothing
\* is assumed of crashes, stop requests, submissions, the controller, or whoever starts
\* the role by hand.
WorkersFairness ==
    /\ WF_allVars(Pass)
    /\ \A o \in Owners : /\ WF_allVars(LaneStep(o)) /\ WF_allVars(KeeperStep(o))
                         /\ WF_allVars(CommandExit(o))
    /\ \A g \in 1 .. Generations : WF_allVars(SupervisorStep(g)) /\ WF_allVars(RestartRole(g))

FairWorkersSpec == WorkersSpec /\ WorkersFairness

\* A stop request, which is never taken back, reaches every lane of its
\* generation, whatever each was doing.
StopReachesLanes ==
    []<>(\A g \in 1 .. Generations :
            stop[g] => \A o \in Crew(g) : worker[o].step = "gone")

\* A generation that loses a lane does not go on with the others: its supervisor
\* stops all of them and leaves, unless it is lost first.
LaneLossEndsGeneration ==
    []<>(\A g \in 1 .. Generations :
            (\E o \in Crew(g) : worker[o].step = "gone") => supervisor[g] \notin Running)

\* No supervisor runs, and none is going to be started: nobody watched the last one, it
\* was told to stop, or its launcher met the lock that its forked lanes still held.
Deserted == /\ \A g \in 1 .. Generations : supervisor[g] \notin Running
            /\ launcher \in {"none", "done"} \/ (launcher = "refused" /\ forked)

\* And no lane is left that would run the job.
Abandoned(i) ==
    Deserted /\ \A o \in Owners : request[i].type \in Serves[o] => worker[o].step \in {"off", "gone"}

\* Whatever supervisors and lanes leave behind, jobs end, unless they are abandoned.
JobsEndUnlessAbandoned ==
    []<>(\A i \in Existing : row[i].state \in Terminal \/ Abandoned(i))
=============================================================================
