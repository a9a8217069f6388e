----------------------------- MODULE MCCloudImport -----------------------------
(* Instances of CloudImport for TLC: owner ids are interchangeable, and so   *)
(* are uploads and files.                                                    *)
EXTENDS CloudImport, TLC

CloudSymmetry ==
  Permutations(Owners) \cup Permutations(Requests) \cup Permutations(Contents)
===============================================================================
