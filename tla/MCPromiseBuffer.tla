-------------------------- MODULE MCPromiseBuffer --------------------------
(* Model-checking instance of PromiseBuffer: four calls of add(), two with *)
(* native promises, one with a SyncPromise, one with either, and a drain.  *)
EXTENDS PromiseBuffer

CONSTANTS t1, t2, t3, t4, d1

MCTasks == {t1, t2, t3, t4}
MCSyncTasks == {t3, t4}
MCNativeTasks == {t1, t2, t3}
MCDrains == {d1}
=============================================================================
