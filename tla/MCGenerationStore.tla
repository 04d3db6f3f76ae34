------------------------- MODULE MCGenerationStore -------------------------
(* Instances of GenerationStore for TLC.                                   *)
EXTENDS GenerationStore, TLC

Symmetry == Permutations(Publishers) \cup Permutations(Files)

\* Bound: at most two generations, of which one is damaged, and one publisher
\* goes on after that.
OneLoss ==
    /\ Cardinality(store) <= 2
    /\ Damaged # {} =>
          /\ Cardinality(Damaged) = 1
          /\ \E p \in Publishers : call[p].step = "idle" /\ call[p].outcome = "raised"
=============================================================================
