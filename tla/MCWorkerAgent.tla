---------------------------- MODULE MCWorkerAgent ----------------------------
(* Instances of WorkerAgent for TLC.                                       *)
EXTENDS WorkerAgent, TLC
=============================================================================
