---------------------------- MODULE MCWorkerPool ----------------------------
(* Small instances of WorkerPool for TLC: five jobs, of which the first    *)
(* two each submit one from inside.                                        *)
EXTENDS WorkerPool, TLC

CONSTANTS j1, j2, j3, j4, j5

MCJobs   == {j1, j2, j3, j4, j5}
MCParent == [j \in MCJobs |-> CASE j = j4 -> j1 [] j = j5 -> j2 [] OTHER -> NoJob]
=============================================================================
