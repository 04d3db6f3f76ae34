--------------------------- MODULE MCDatasetMerge ---------------------------
(* Instances of DatasetMerge for TLC.                                      *)
EXTENDS DatasetMerge
=============================================================================
