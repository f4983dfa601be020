----------------------------- MODULE MCPresence -----------------------------
(* Instances of Presence for TLC.                                          *)
EXTENDS Presence, TLC

CONSTANTS s1, s2, s3, u1, u2, i1, i2

(* A user with an old and a new session, and a user who looks on.          *)
TwoUsers == [s \in {s1, s2, s3} |-> IF s = s3 THEN u2 ELSE u1]

(* The user's sessions are on one instance, the onlooker on another, whose *)
(* clock is ahead.                                                         *)
Apart == [s \in {s1, s2, s3} |-> IF s = s3 THEN i2 ELSE i1]
Ahead == [i \in {i1, i2} |-> IF i = i2 THEN 1 ELSE 0]

(* The two sessions of one user on one instance are interchangeable.       *)
Symmetry == Permutations({s1, s2})
=============================================================================
