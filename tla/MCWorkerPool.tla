--------------------------- MODULE MCWorkerPool -----------------------------
(* Small instances of WorkerPool.                                          *)
EXTENDS WorkerPool

CONSTANTS t1, t2, t3, t4, t5, vc1, vc2

\* Three operations and a deployment on one vCenter, an operation on another.
TwoVcs == [t \in Tasks |-> IF t = t5 THEN vc2 ELSE vc1]
MixedTypes == [t \in Tasks |-> IF t = t4 THEN "deployment" ELSE "operation"]

\* Deployments are not bounded (routineCount.deployment missing, or 0).
OneEach == [y \in Types |-> IF y = "operation" THEN 1 ELSE 0]

=============================================================================
