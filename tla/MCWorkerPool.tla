---------------------------- MODULE MCWorkerPool ----------------------------
(* The jobs are model values of the configuration.                         *)
EXTENDS WorkerPool
=============================================================================
