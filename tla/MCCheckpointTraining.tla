------------------------ MODULE MCCheckpointTraining ------------------------
(* Instances of CheckpointTraining for TLC.                                *)
EXTENDS CheckpointTraining

\* The dataset grows by one checkpoint, and by enough to end a deferral.
MCRows == <<3000, 4000>>

\* One checkpoint is due and the dataset stays as it is.
MCSame == <<3000>>
=============================================================================
