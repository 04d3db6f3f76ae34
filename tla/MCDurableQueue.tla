--------------------------- MODULE MCDurableQueue ---------------------------
(* Instances of DurableQueue for TLC.                                      *)
EXTENDS DurableQueue

Request(type, key, cohort, priority, max) ==
    [type |-> type, key |-> key, body |-> "b", cohort |-> cohort,
     priority |-> priority, max |-> max]

\* Two tunings of one cohort, as two datasets cause them, and a verification.
MCRequests == {Request("tune", 1, "tuning", 70, 2),
               Request("tune", 2, "tuning", 70, 1),
               Request("verify", 1, NoCohort, 45, 1)}

\* A worker that serves every lane and one that serves only tuning.
MCServes == [o \in Owners |-> IF o = "all" THEN {"tune", "verify"} ELSE {"tune"}]
=============================================================================
