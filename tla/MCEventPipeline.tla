-------------------------- MODULE MCEventPipeline ---------------------------
(* Instances of EventPipeline for TLC. *)
EXTENDS EventPipeline, SequencesExt

(* The pushes of init, one after the other, leave the free queue as Init   *)
(* has it: the queue refuses the last entry of the pool.                   *)
ASSUME InitFillsQueue ==
  FoldLeft(LAMBDA queue, e : Push(queue, QueueSize, e), << >>, [e \in Event |-> e])
    = [e \in 1 .. QueueSize - 1 |-> e]
=============================================================================
