---------------------------- MODULE MCWorkerFence ----------------------------
(* Model-checking instances of WorkerFence: the configurations give delays *)
(* in ticks.                                                               *)
EXTENDS WorkerFence
=============================================================================
