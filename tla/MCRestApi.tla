----------------------------- MODULE MCRestApi -----------------------------
(* Instances of RestApi for TLC.                                           *)
EXTENDS RestApi, TLC

(* Requests, names and addresses are interchangeable.                      *)
Symmetry == Permutations(Requests) \cup Permutations(Names) \cup Permutations(Emails)
=============================================================================
