--------------------------- MODULE MCRedisBroker ---------------------------
(* Instances of RedisBroker for TLC: rooms, and two sessions that join     *)
(* them.                                                                   *)
EXTENDS RedisBroker
=============================================================================
