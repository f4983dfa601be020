------------------------- MODULE MCMessageDelivery -------------------------
(* Instances of MessageDelivery for TLC: two sessions of one or of two     *)
(* users.                                                                  *)
EXTENDS MessageDelivery
=============================================================================
