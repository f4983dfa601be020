----------------------------- MODULE MCHistory -----------------------------
(* Instances of History for TLC.                                           *)
EXTENDS History, TLC

Symmetry == Permutations(Rooms) \cup Permutations(Calls)
=============================================================================
