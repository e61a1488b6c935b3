------------------------- MODULE MCMinutesCheckpoints -------------------------
(* One selection at two epochs, two provenances (a runtime update) and two *)
(* prompts of which one may be retried.                                    *)
EXTENDS MinutesCheckpoints, TLC

CONSTANTS i1, r1, r2, q1, q2, nopath, noprompt

Symmetry == Permutations({r1, r2}) \cup Permutations({q1, q2})
=============================================================================
