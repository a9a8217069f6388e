----------------------------- MODULE MCJobDeletion -----------------------------
(* An instance of JobDeletion for TLC: deletion requests are interchangeable. *)
EXTENDS JobDeletion, TLC

RequestSymmetry == Permutations(Requests)
===============================================================================
