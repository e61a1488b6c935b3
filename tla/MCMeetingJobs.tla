---------------------------- MODULE MCMeetingJobs ----------------------------
(* One meeting and two handlers; runtime preparations are the other jobs   *)
(* of the worker, so that a meeting's job waits behind another.            *)
EXTENDS MeetingJobs, TLC

CONSTANTS m1, a, b, plain, chosen, gone, free
=============================================================================
