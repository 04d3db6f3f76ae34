------------------------- MODULE MCPipelineWorkers -------------------------
(* Instances of PipelineWorkers for TLC.                                   *)
EXTENDS PipelineWorkers

\* The first supervisor runs a worker in each lane, the second one in one lane only.
MCOwners == {<<"optimize", 1>>, <<"verify", 1>>, <<"optimize", 2>>}

\* One job that may be attempted twice.
MCOneJob == {[type |-> "optimize", key |-> 1, body |-> "b", cohort |-> NoCohort,
              priority |-> 1, max |-> 2]}

MCServes == [o \in Owners |-> {o[1]}]
=============================================================================
