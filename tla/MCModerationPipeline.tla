------------------------- MODULE MCModerationPipeline -------------------------
(* Small instances of ModerationPipeline for TLC.                          *)
EXTENDS ModerationPipeline, TLC

WorkerSymmetry == Permutations(Worker)
=============================================================================
