------------------------- MODULE MCPipelinePlanner -------------------------
(* Instances of PipelinePlanner for TLC.                                   *)
EXTENDS PipelinePlanner

\* Deployments: A, and B elsewhere with the same tuning script.
At(root, script) == [root |-> root, script |-> script]
A == At("a", 1)
B == At("b", 1)

From(rows, launches, completed, promoted, lanes) ==
    [rows |-> rows, launches |-> launches, done |-> completed, active |-> promoted,
     lanes |-> lanes]

\* A rollover while the dataset grows by what tuning waits for.
Tuning == From(<<4000, 6000>>, <<A, B>>, {500, 1000, 2000, 3000}, NoModel, {"tuner"})

\* A restart while the first model is promoted and the dataset grows.
Training == From(<<3000, 3500>>, <<A, A>>, {500, 1000, 2000}, NoModel, {"trainer"})

\* Tuning and training side by side, with the model of the 3000 rows of version 1.
Both == From(<<3000, 4000>>, <<A>>, {500, 1000, 2000, 3000},
             [checkpoint |-> 3000, data |-> 1], {"tuner", "trainer"})

\* A rollover that is rolled back.
Back == From(<<3000>>, <<A, B, A>>, {500, 1000, 2000}, NoModel, {"trainer"})

MCSettings == {Tuning, Training, Both, Back}

MCServes == [o \in Owners |-> IF o = "tuner" THEN {"tune"} ELSE {"train"}]
=============================================================================
