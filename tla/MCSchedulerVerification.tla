---------------------- MODULE MCSchedulerVerification ----------------------
(* Instances of SchedulerVerification for TLC.                             *)
EXTENDS SchedulerVerification

\* A scheduler that knows dedupe keys, with late POSTs, and one that does not.
MCSchedulers == {[dedupes |-> TRUE, late |-> TRUE], [dedupes |-> FALSE, late |-> FALSE]}
=============================================================================
