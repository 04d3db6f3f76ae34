----------------------------- MODULE JobLedger -----------------------------
(***************************************************************************)
(* What the durable queue of the learning pipeline promises to the parties *)
(* that use it, stated without SQL, clocks or back-off: each job has a     *)
(* life cycle of its own, a budget of attempts, at most one holder, and    *)
(* the jobs it needs.  One step may move several jobs at once, because one *)
(* queue transaction (claim, above all) first settles every other job.     *)
(*                                                                         *)
(* DurableQueue implements this module; see Ledger!Spec there.             *)
(***************************************************************************)
EXTENDS Integers

CONSTANTS Jobs,       \* job identities
          Workers,    \* owner labels of worker processes
          NoWorker    \* what a job that nobody holds has for a holder

VARIABLE ledger       \* [Jobs -> Entry]

Phases == {"absent", "waiting", "held", "done", "failed", "cancelled"}
Lost   == {"failed", "cancelled"}
Ended  == Lost \cup {"done"}

Entry == [phase  : Phases,
          tries  : Nat,                         \* attempts charged so far
          limit  : Nat,                         \* attempts allowed
          holder : Workers \cup {NoWorker},
          live   : BOOLEAN,                     \* the holder's lease has not run out
          needs  : SUBSET Jobs]

TypeOK == ledger \in [Jobs -> Entry]

Blank == [phase |-> "absent", tries |-> 0, limit |-> 0,
          holder |-> NoWorker, live |-> FALSE, needs |-> {}]

Init == ledger = [j \in Jobs |-> Blank]

----------------------------------------------------------------------------
(* The moves of one job.  e is its entry before the step, f after it.      *)

SameTerms(e, f) == f.limit = e.limit /\ f.needs = e.needs
Unheld(f)       == f.holder = NoWorker /\ f.live = FALSE

\* The job enters the ledger; it can only need jobs that are already in it.
Submitted(e, f) ==
    /\ e.phase = "absent" /\ f.phase = "waiting"
    /\ f.tries = 0 /\ f.limit > 0 /\ Unheld(f)
    /\ \A p \in f.needs : ledger[p].phase # "absent"

\* A worker starts an attempt.  Nobody is displaced while its lease is live,
\* the budget is not exhausted, and everything the job needs is done.
Started(e, f) ==
    /\ e.phase = "waiting" \/ (e.phase = "held" /\ ~ e.live)
    /\ e.tries < e.limit
    /\ \A p \in e.needs : ledger[p].phase = "done"
    /\ f.phase = "held" /\ f.holder # NoWorker /\ f.tries = e.tries + 1
    /\ SameTerms(e, f)

\* The holder keeps the job; its lease is renewed or runs out.
Kept(e, f) ==
    /\ e.phase = "held" /\ f.phase = "held"
    /\ f.holder = e.holder /\ f.tries = e.tries /\ SameTerms(e, f)

\* The attempt ends: well, for good, or with attempts left for another one.
Finished(e, f) ==
    /\ e.phase = "held"
    /\ \/ f.phase = "done"
       \/ f.phase = "failed"
       \/ f.phase = "waiting" /\ e.tries < e.limit
    /\ f.tries = e.tries /\ Unheld(f) /\ SameTerms(e, f)

\* A job nobody holds is withdrawn.
Withdrawn(e, f) ==
    /\ e.phase = "waiting" /\ f.phase = "cancelled"
    /\ f.tries = e.tries /\ Unheld(f) /\ SameTerms(e, f)

\* A job nobody holds is given up, because something it needs is lost.
GivenUp(e, f) ==
    /\ e.phase = "waiting" /\ f.phase = "failed"
    /\ \E p \in e.needs : ledger'[p].phase \in Lost
    /\ f.tries = e.tries /\ Unheld(f) /\ SameTerms(e, f)

Move(e, f) == \/ Submitted(e, f) \/ Started(e, f)   \/ Kept(e, f)
              \/ Finished(e, f)  \/ Withdrawn(e, f) \/ GivenUp(e, f)

Next == /\ ledger' = [j \in Jobs |-> ledger'[j]]
        /\ \A j \in Jobs : ledger'[j] = ledger[j] \/ Move(ledger[j], ledger'[j])

Spec == Init /\ [][Next]_ledger
=============================================================================
