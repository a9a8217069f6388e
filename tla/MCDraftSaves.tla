----------------------------- MODULE MCDraftSaves -----------------------------
(* An instance of DraftSaves for TLC: two processes, one of them with two of  *)
(* the three saves.  The first answer has two lines, the others one.          *)
EXTENDS DraftSaves, TLC

CONSTANTS s1, s2, s3, p, q, c1, c2

HomeOf   == s1 :> p @@ s2 :> q @@ s3 :> p
ParsedBy == s1 :> {1, 2} @@ s2 :> {3} @@ s3 :> {4}

ClientSymmetry == Permutations(Clients)
===============================================================================
