---------------------------- MODULE MCTaskQueue ----------------------------
(* Small instances of TaskQueue for TLC.                                   *)
EXTENDS TaskQueue, TLC

CONSTANTS w1, w2, t1

\* Workers that may be deployed alike are interchangeable.
WorkerSymmetry == Permutations({w1, w2})
=============================================================================
