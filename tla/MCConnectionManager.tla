------------------------ MODULE MCConnectionManager ------------------------
(* Instances of ConnectionManager for TLC.                                 *)
EXTENDS ConnectionManager

CONSTANTS u1, c1, c2

(* One user whose client reconnects, or opens a second tab.                *)
Reconnecting == [c \in {c1, c2} |-> u1]
=============================================================================
