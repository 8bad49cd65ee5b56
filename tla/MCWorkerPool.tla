---------------------------- MODULE MCWorkerPool ----------------------------
(* Two workers, a batch of two jobs and a batch of one: the second batch   *)
(* can be added before, while and after the first is being handed out.     *)
EXTENDS WorkerPool

CONSTANTS w1, w2, j1, j2, j3

MCWorkers == {w1, w2}
MCJob     == {j1, j2, j3}
MCBatches == {{j1, j2}, {j3}}
=============================================================================
