--------------------------- MODULE MCRateLimiter ---------------------------
(* Instances of RateLimiter for TLC.                                       *)
EXTENDS RateLimiter, TLC

CONSTANTS p1, p2

(* Two instances whose clocks differ by two seconds.                        *)
Skewed == (p1 :> -1) @@ (p2 :> 1)
=============================================================================
