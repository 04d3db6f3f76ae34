---------------------------- MODULE DurableQueue ----------------------------
(***************************************************************************)
(* The SQLite job queue of the learning pipeline                           *)
(* (regression_260707/pipeline/queue.py): idempotent submission with       *)
(* dependencies and coalescing, expiring leases, bounded retries with      *)
(* back-off, and reconciliation.  Every operation is one BEGIN IMMEDIATE   *)
(* transaction, so it is one action.                                       *)
(*                                                                         *)
(* Time.  A stored timestamp is kept relative to the clock: `left` is      *)
(* lease_until - clock and `wait` is next_retry_at - clock, both let go    *)
(* once no comparison can tell them apart any more, and Tick counts them   *)
(* down.  The code reads time.time() before it asks for the write lock and *)
(* may then wait for up to busy_timeout: a transaction works with a        *)
(* timestamp `lag` ticks old, for some lag in 0..Lag.                      *)
(*                                                                         *)
(* Simplifications: created_at orders claims of equal priority, and is     *)
(* itself read before the lock, so any of them may come first here;        *)
(* heartbeat_at, updated_at and the wording of terminal_reason are left    *)
(* out; a call the code refuses with an exception rolls back, and is a     *)
(* stuttering step.                                                        *)
(***************************************************************************)
EXTENDS Integers, FiniteSets

CONSTANTS MaxJobs,      \* bound: rows ever inserted
          Requests,     \* what callers submit, see RequestType
          Owners,       \* owner labels, one per worker process
          NoOwner,      \* NULL in owner_lease
          NoCohort,     \* NULL in coalesce_key
          Outputs,      \* what workers may report as output_generation
          NoOutput,     \* NULL in output_generation
          Serves,       \* [Owners -> job types the worker's lane claims]
          LeaseTicks,   \* lease_seconds
          Lag,          \* busy_timeout: oldest timestamp a transaction may use
          BaseBackoff,  \* base_backoff_seconds
          MaxBackoff    \* max_backoff_seconds

Ids == 1 .. MaxJobs

\* A submission: (type, key) identifies the job, `body` stands for the payload
\* and the input generation, `cohort` is the coalesce key.
ASSUME RequestAssumption ==
    \A r \in Requests : /\ r = [type |-> r.type, key |-> r.key, body |-> r.body,
                                cohort |-> r.cohort, priority |-> r.priority, max |-> r.max]
                        /\ r.priority \in Int
                        /\ r.max \in Nat \ {0}
ASSUME NullAssumption  == NoOwner \notin Owners /\ NoOutput \notin Outputs
ASSUME BoundAssumption == MaxJobs \in Nat /\ Lag \in Nat /\ LeaseTicks \in Nat \ {0}
ASSUME BackoffAssumption == BaseBackoff \in Nat /\ MaxBackoff \in Nat

VARIABLES row,       \* [Ids -> Row], the columns that transactions change
          request,   \* [Ids -> Requests], the columns fixed at insertion
          parents    \* [Ids -> SUBSET Ids], job_dependencies

vars == <<row, request, parents>>

Pending  == {"queued", "retry_wait"}
Lost     == {"failed", "cancelled"}
Terminal == Lost \cup {"succeeded"}
States   == Pending \cup Terminal \cup {"running", "absent"}

Due     == -Lag          \* a timestamp that is past for every transaction
Expired == -(Lag + 1)    \* a lease that is past for every transaction

Row == [state   : States,
        owner   : Owners \cup {NoOwner},
        left    : Expired .. LeaseTicks,
        attempt : Nat,
        wait    : Due .. MaxBackoff,
        output  : Outputs \cup {NoOutput}]

NoRow     == [state |-> "absent", owner |-> NoOwner, left |-> 0, attempt |-> 0,
              wait |-> Due, output |-> NoOutput]
NoRequest == [max |-> 0]

Existing == {i \in Ids : row[i].state # "absent"}

TypeOK == /\ row \in [Ids -> Row]
          /\ request \in [Ids -> Requests \cup {NoRequest}]
          /\ parents \in [Ids -> SUBSET Ids]

Init == /\ row = [i \in Ids |-> NoRow]
        /\ request = [i \in Ids |-> NoRequest]
        /\ parents = [i \in Ids |-> {}]

----------------------------------------------------------------------------
(* Helpers on rows and on the whole table                                  *)

\* The row leaves its lease, if it had one, and is in state s.  A row that is
\* not pending is never asked for next_retry_at, which is then dropped.
Settled(r, s) == [r EXCEPT !.state = s, !.owner = NoOwner, !.left = 0, !.wait = Due]

\* Mutant of Leased: the age of the timestamp is added instead of subtracted.
LeasedTooLong(r, o, lag) ==
    [r EXCEPT !.state = "running", !.owner = o, !.left = LeaseTicks + lag,
              !.attempt = r.attempt + 1, !.wait = Due]

Leased(r, o, lag) ==
    [r EXCEPT !.state = "running", !.owner = o, !.left = LeaseTicks - lag,
              !.attempt = r.attempt + 1, !.wait = Due]

\* min(max, base * 2^(attempt - 1))
Backoff(attempt) == LET d == BaseBackoff * 2 ^ (attempt - 1)
                    IN IF d \in 0 .. MaxBackoff THEN d ELSE MaxBackoff

\* The first loop of _reconcile_locked: leases that ended before the timestamp.
ExpireLeases(t, lag) ==
    [i \in Ids |->
        IF t[i].state = "running" /\ t[i].left < -lag
        THEN IF t[i].attempt >= request[i].max
             THEN Settled(t[i], "failed")
             ELSE [Settled(t[i], "retry_wait") EXCEPT !.wait = -lag]
        ELSE t[i]]

\* The second statement: retries that are due.
Requeue(t, lag) ==
    [i \in Ids |->
        IF t[i].state = "retry_wait" /\ t[i].wait <= -lag
        THEN [t[i] EXCEPT !.state = "queued"] ELSE t[i]]

\* Mutants of FailBlocked: children of any ended parent are failed, or only
\* those of failed parents.
FailAfterAnyEnd(t) ==
    [i \in Ids |-> IF t[i].state \in Pending /\ \E p \in parents[i] : t[p].state \in Terminal
                  THEN Settled(t[i], "failed") ELSE t[i]]
FailAfterFailure(t) ==
    [i \in Ids |-> IF t[i].state \in Pending /\ \E p \in parents[i] : t[p].state = "failed"
                  THEN Settled(t[i], "failed") ELSE t[i]]

\* The last loop, a single pass: pending children of parents already lost.
FailBlocked(t) ==
    [i \in Ids |->
        IF t[i].state \in Pending /\ \E p \in parents[i] : t[p].state \in Lost
        THEN Settled(t[i], "failed") ELSE t[i]]

Reconciled(lag) == FailBlocked(Requeue(ExpireLeases(row, lag), lag))

\* Mutant of Claimable: parents only have to be over their failures.
ClaimableUnlessLost(t, o, lag) ==
    {i \in Ids : /\ t[i].state = "queued" /\ t[i].wait <= -lag
                 /\ request[i].type \in Serves[o]
                 /\ \A p \in parents[i] : t[p].state \notin Lost}

Claimable(t, o, lag) ==
    {i \in Ids : /\ t[i].state = "queued" /\ t[i].wait <= -lag
                 /\ request[i].type \in Serves[o]
                 /\ \A p \in parents[i] : t[p].state = "succeeded"}

Foremost(S) == {i \in S : \A j \in S : request[j].priority <= request[i].priority}

\* Mutants of Coalesced: running rows are cancelled too, or only retries are.
CoalescedWithRunning(t, r, i) ==
    [j \in Ids |-> IF /\ j # i /\ t[j].state \in Pending \cup {"running"}
                     /\ request[j].type = r.type /\ request[j].cohort = r.cohort
                  THEN Settled(t[j], "cancelled") ELSE t[j]]
CoalescedRetries(t, r, i) ==
    [j \in Ids |-> IF /\ j # i /\ t[j].state = "retry_wait"
                     /\ request[j].type = r.type /\ request[j].cohort = r.cohort
                  THEN Settled(t[j], "cancelled") ELSE t[j]]

\* Every pending row of r's type and cohort, except row i, is cancelled.
Coalesced(t, r, i) ==
    [j \in Ids |->
        IF /\ j # i /\ t[j].state \in Pending
           /\ request[j].type = r.type /\ request[j].cohort = r.cohort
        THEN Settled(t[j], "cancelled") ELSE t[j]]

Owns(o, i, lag) == row[i].state = "running" /\ row[i].owner = o /\ row[i].left >= -lag

----------------------------------------------------------------------------
(* Operations                                                              *)

\* enqueue of a new identity.  Every caller that names a cohort also asks for
\* pending work of that cohort to be coalesced.
EnqueueNew(r, deps, lag) ==
    \E i \in Ids \ Existing :
        /\ \A j \in Ids : j < i => j \in Existing
        /\ \A j \in Existing : <<request[j].type, request[j].key>> # <<r.type, r.key>>
        /\ deps \subseteq Existing
        /\ LET t == [row EXCEPT ![i] = [NoRow EXCEPT !.state = "queued", !.wait = -lag]]
           IN row' = IF r.cohort = NoCohort THEN t ELSE Coalesced(t, r, i)
        /\ request' = [request EXCEPT ![i] = r]
        /\ parents' = [parents EXCEPT ![i] = deps]

\* enqueue of an identity that exists: accepted only with the same inputs, and
\* it inserts nothing, but an active row still displaces the rest of its cohort.
EnqueueAgain(r, deps) ==
    \E i \in Existing :
        /\ request[i] = r /\ parents[i] = deps
        /\ row[i].state \notin Terminal /\ r.cohort # NoCohort
        /\ row' = Coalesced(row, r, i)
        /\ UNCHANGED <<request, parents>>

Enqueue(r, deps, lag) == EnqueueNew(r, deps, lag) \/ EnqueueAgain(r, deps)

Reconcile(lag) == row' = Reconciled(lag) /\ UNCHANGED <<request, parents>>

Claim(o, lag) ==
    LET t     == Reconciled(lag)
        ready == Claimable(t, o, lag)
    IN /\ \/ ready = {} /\ row' = t
          \/ \E i \in Foremost(ready) : row' = [t EXCEPT ![i] = Leased(t[i], o, lag)]
       /\ UNCHANGED <<request, parents>>

Heartbeat(o, i, lag) ==
    /\ Owns(o, i, lag)
    /\ row' = [row EXCEPT ![i].left = LeaseTicks - lag]
    /\ UNCHANGED <<request, parents>>

Succeed(o, i, output, lag) ==
    /\ Owns(o, i, lag)
    /\ row' = [row EXCEPT ![i] = [Settled(row[i], "succeeded") EXCEPT !.output = output]]
    /\ UNCHANGED <<request, parents>>

Fail(o, i, retry, lag) ==
    /\ Owns(o, i, lag)
    /\ row' = [row EXCEPT ![i] =
                  IF retry /\ row[i].attempt < request[i].max
                  THEN LET delay == Backoff(row[i].attempt) - lag
                       IN [Settled(row[i], "retry_wait") EXCEPT !.wait = delay]
                  ELSE Settled(row[i], "failed")]
    /\ UNCHANGED <<request, parents>>

\* Mutant of Cancel: everything that does not run may be cancelled.
CancelUnlessRunning(i) ==
    /\ row[i].state \notin {"running", "absent"}
    /\ row' = [row EXCEPT ![i] = Settled(row[i], "cancelled")]
    /\ UNCHANGED <<request, parents>>

Cancel(i) ==
    /\ row[i].state \in Pending
    /\ row' = [row EXCEPT ![i] = Settled(row[i], "cancelled")]
    /\ UNCHANGED <<request, parents>>

\* Row 0 does not exist: no row of the cohort is spared.
CancelCoalescedPending(r) ==
    /\ r.cohort # NoCohort
    /\ row' = Coalesced(row, r, 0)
    /\ UNCHANGED <<request, parents>>

Tick ==
    /\ row' = [i \in Ids |->
                  [row[i] EXCEPT !.left = IF row[i].state # "running" \/ row[i].left = Expired
                                          THEN row[i].left ELSE row[i].left - 1,
                                 !.wait = IF row[i].wait = Due THEN Due ELSE row[i].wait - 1]]
    /\ UNCHANGED <<request, parents>>

Report(o, i, lag) == \/ \E output \in Outputs \cup {NoOutput} : Succeed(o, i, output, lag)
                     \/ \E retry \in BOOLEAN : Fail(o, i, retry, lag)

Next == \/ \E lag \in 0 .. Lag :
              \/ \E r \in Requests, deps \in SUBSET Ids : Enqueue(r, deps, lag)
              \/ Reconcile(lag)
              \/ \E o \in Owners : Claim(o, lag)
              \/ \E o \in Owners, i \in Ids : Heartbeat(o, i, lag) \/ Report(o, i, lag)
        \/ \E i \in Ids : Cancel(i)
        \/ \E r \in Requests : CancelCoalescedPending(r)
        \/ Tick

Spec == Init /\ [][Next]_vars

----------------------------------------------------------------------------
(* Safety                                                                  *)

\* A row carries an owner and a lease exactly while it runs: no path out of
\* "running" (succeed, fail, expiry) and none into it forgets either column.
LeaseIffRunning ==
    \A i \in Ids : /\ row[i].state = "running" <=> row[i].owner # NoOwner
                   /\ row[i].state # "running" => row[i].left = 0

\* Attempts never exceed max_attempts, and a job waits for another attempt only
\* while one is left, whichever way the attempts before it ended.
AttemptBudget ==
    \A i \in Existing : /\ row[i].attempt <= request[i].max
                        /\ row[i].state \in Pending => row[i].attempt < request[i].max

\* No attempt was ever charged to a job before every job it depends on had
\* succeeded; and those successes stand.
AttemptAfterParents ==
    \A i \in Existing : row[i].attempt > 0 => \A p \in parents[i] : row[p].state = "succeeded"

\* Coalescing leaves one submission of a cohort that has not started yet: two
\* datasets never both wait for a first attempt at the same tuning or training.
OneFreshPerCohort ==
    \A i, j \in Existing :
        /\ row[i].state \in Pending /\ row[i].attempt = 0
        /\ row[j].state \in Pending /\ row[j].attempt = 0
        /\ request[i].type = request[j].type
        /\ request[i].cohort = request[j].cohort /\ request[i].cohort # NoCohort
        => i = j

\* While a lease has time left by the clock, nobody but its owner moves the row:
\* not a reconciliation, not another worker's claim, not a cancellation or a
\* coalescing submission, however stale the timestamp they work with.
LiveLeaseKept ==
    [][\A i \in Ids :
          row[i].state = "running" /\ row[i].left >= 0
          => \/ row'[i].state = "running" /\ row'[i].owner = row[i].owner
                                          /\ row'[i].attempt = row[i].attempt
             \/ \E lag \in 0 .. Lag : Report(row[i].owner, i, lag)]_vars

\* succeeded, failed and cancelled are final: no late report, retry, repeated
\* submission or reconciliation changes such a row's outcome again.
EndedStays ==
    [][\A i \in Ids : row[i].state \in Terminal
                     => /\ row'[i].state = row[i].state /\ row'[i].output = row[i].output
                        /\ row'[i].attempt = row[i].attempt]_vars

(* Refinement: what the table says of each job, as JobLedger sees it.      *)

PhaseOf(s) == CASE s \in Pending    -> "waiting"
                [] s = "running"    -> "held"
                [] s = "succeeded"  -> "done"
                [] OTHER            -> s

LedgerView == [i \in Ids |-> [phase  |-> PhaseOf(row[i].state),
                              tries  |-> row[i].attempt,
                              limit  |-> request[i].max,
                              holder |-> row[i].owner,
                              live   |-> row[i].state = "running" /\ row[i].left >= 0,
                              needs  |-> parents[i]]]

Ledger == INSTANCE JobLedger
              WITH Jobs <- Ids, Workers <- Owners, NoWorker <- NoOwner, ledger <- LedgerView

\* The queue keeps the promises of JobLedger: every transaction is, job by job,
\* one of the moves its clients may count on.
ImplementsLedger == Ledger!Spec

(* Liveness                                                                *)

\* Time passes; some lane polls, and every poll and every stats() call reconciles;
\* attempts go on ending in a report.  No particular owner has to report: one that
\* crashed lets its lease run out, and cannot report any more.
Fairness ==
    /\ WF_vars(Tick)
    /\ WF_vars(\E lag \in 0 .. Lag : Reconcile(lag))
    /\ WF_vars(\E o \in Owners, lag \in 0 .. Lag : Claim(o, lag))
    /\ WF_vars(\E o \in Owners, i \in Ids, lag \in 0 .. Lag : Report(o, i, lag))

FairSpec == Spec /\ Fairness

\* No job is left behind: again and again every submitted job has ended, whether
\* it succeeded, ran out of attempts, was cancelled, or descends from a lost job.
EveryJobEnds == []<>(\A i \in Existing : row[i].state \in Terminal)
=============================================================================
