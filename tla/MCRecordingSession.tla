-------------------------- MODULE MCRecordingSession --------------------------
(* One thread that starts recordings, two that stop them and the closing   *)
(* thread: a stop that waits for another one, and a new recording that     *)
(* begins meanwhile, need no more.                                         *)
EXTENDS RecordingSession, TLC

CONSTANTS m1, m2, s1, t1, t2, c1, none, nobody

(* Behaviours in which nobody closes the server. *)
OpenSpec == Init /\ [][Next /\ ~closed']_vars
=============================================================================
