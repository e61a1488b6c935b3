---------------------------- MODULE MCIdempotency ----------------------------
(* Three callers and three keys, one of them of a permission action; a     *)
(* registry of two keys makes every third key clean it up.                 *)
EXTENDS Idempotency, TLC

CONSTANTS c1, c2, c3, r1, r2, p1, none
=============================================================================
