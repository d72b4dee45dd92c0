-------------------------- MODULE MCTaskPipeline --------------------------
(* The pipeline with queues of length 1, which a fast sensor overruns, and *)
(* a handful of samples.                                                   *)
EXTENDS TaskPipeline
=============================================================================
