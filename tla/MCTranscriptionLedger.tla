------------------------ MODULE MCTranscriptionLedger ------------------------
(***************************************************************************)
(* TLC instance: the meeting first has only a system track (plan "sys"),   *)
(* then a microphone track is added ("both"), and the system chunks are    *)
(* shared.  One run checks two scopes.  The wide one has both processes    *)
(* and both plans.  The deep one has one process and the system track, but *)
(* an epoch and an attempt more, which it takes to present a confirmation  *)
(* a second time.                                                          *)
(***************************************************************************)
EXTENDS TranscriptionLedger, TLC

CONSTANTS p1, p2

MCPlan == {"sys", "both"}
MCChunk == {"m1", "s1", "s2"}
MCTrack == {"mic", "system"}
MCChunksOf == [pl \in MCPlan |-> IF pl = "sys" THEN <<"s1", "s2">>
                                                 ELSE <<"m1", "s1", "s2">>]
MCTrackOf == [c \in MCChunk |-> IF c = "m1" THEN "mic" ELSE "system"]

VARIABLE deep

MCInit == Init /\ deep \in BOOLEAN

\* What a step may do in each scope; no step that must be taken is excluded.
Opens(p) == pc[p] = "idle" /\ pc'[p] = "opened"
Wide == \A p \in Proc : (Opens(p) => attempts < MaxAttempts - 1) /\ job'[p].epoch < MaxEpoch
Deep == \A p \in Proc : IF p = p1 THEN pc'[p] \in {"idle", "opened"} \/ job'[p].plan = "sys"
                                   ELSE ~Opens(p)

MCNext == Next /\ UNCHANGED deep /\ (IF deep THEN Deep ELSE Wide)

MCSpec == MCInit /\ [][MCNext]_<<vars, deep>> /\ \A p \in Proc : WF_vars(Step(p))
=============================================================================
