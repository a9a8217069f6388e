---------------------------- MODULE MCImportWorker ----------------------------
(* Instances of ImportWorker for TLC: workers are interchangeable.         *)
EXTENDS ImportWorker, TLC

WorkerSymmetry == Permutations(Workers)
===============================================================================
