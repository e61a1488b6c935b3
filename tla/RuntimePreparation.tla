------------------------- MODULE RuntimePreparation -------------------------
(***************************************************************************)
(* Preparing the private runtime of one provider                           *)
(* (pipeline/src/narumi/providers: runtime.py, _runtime_lease.py,          *)
(* codex/_runtime.py and runtime_catalog.py for the files, service.py for  *)
(* the start and the end of a server; server/src/narumi_server/jobs.py).   *)
(*                                                                         *)
(* A preparation is accepted in one registry transaction that submits its  *)
(* job while it holds the lock; a gate keeps the job from running before   *)
(* the acceptance is on disk.  The job inspects the installed executable,  *)
(* copies it and records what it verified, under a lock of the operating   *)
(* system.  Whoever finds the job's row ended reconciles the registry.     *)
(* A request and its job share one number.                                 *)
(***************************************************************************)
EXTENDS Integers, FiniteSets

CONSTANTS
  Version,     \* digests of executables
  NoVersion,
  MaxSetups,   \* bound on the preparations
  MaxServers,  \* bound on the server's starts
  MaxSlips     \* bound on the failures of the registry's file

Setup == 1 .. MaxSetups
NoSetup == 0

PreparationAssumption ==
  /\ NoVersion \notin Version
  /\ MaxSetups \in Nat /\ MaxServers \in Nat \ {0} /\ MaxSlips \in Nat

VARIABLES
  (* registry.json *)
  runtime,       \* state, revision, pending_submission, active_setup, server
  acceptance,    \* the receipts of the requests
  (* files *)
  installed,     \* the executable of an installed application
  binary,        \* the private copy
  verification,  \* verification.json
  (* the server process *)
  serving,       \* "up", "closing", "draining" or "down"
  server,        \* server_instance_id
  preparer,      \* the prepare call at work
  gate,          \* of a job: "shut", "accepted" or "refused"
  job,           \* where a job is; its catalog row, once it ended
  target,        \* the resource a job was accepted for
  flagged,       \* jobs to cancel at their next progress call
  flock,         \* the preparation that holds .prepare.lock
  held,          \* _leases
  slips

document == <<runtime, acceptance>>
files == <<installed, binary, verification>>
jobs == <<gate, job, target, flagged>>
pvars == <<document, files, serving, server, preparer, jobs, flock, held, slips>>

Ended == {"succeeded", "failed", "cancelled"}
AtWork == {"gated", "abandon", "begin", "inspect", "copy", "verify", "check",
           "finish succeeded", "finish failed", "finish cancelled"}

Init ==
  /\ runtime = [state |-> "not_prepared", revision |-> NoVersion, pending |-> NoSetup,
                active |-> NoSetup, step |-> "none", server |-> 1]
  /\ acceptance = [r \in Setup |-> "none"]
  /\ installed = NoVersion /\ binary = NoVersion /\ verification = NoVersion
  /\ serving = "up" /\ server = 1
  /\ preparer = [pc |-> "idle", request |-> NoSetup]
  /\ gate = [r \in Setup |-> "shut"]
  /\ job = [r \in Setup |-> "none"]
  /\ target = [r \in Setup |-> NoVersion]
  /\ flagged = {}
  /\ flock = NoSetup /\ held = {}
  /\ slips = 0

\* A private copy that matches its record is preferred to an installed one.
Candidate == IF binary = verification /\ binary # NoVersion THEN binary ELSE installed

Slip == slips < MaxSlips /\ slips' = slips + 1

\* prepare() submits inside its transaction.
Locked == preparer.pc \in {"accepted", "submitted"}
Alive == serving # "down"
Live(r) == Alive /\ ~Locked /\ runtime.active = r
           /\ runtime.step \in {"queued", "running"} /\ runtime.server = server

Preparing(r, pc) == preparer' = [pc |-> pc, request |-> r]
Drop(r) == /\ held' = held \ {r}
           /\ flock' = IF r \in held /\ flock = r THEN NoSetup ELSE flock

Install(v) ==
  /\ installed # v /\ installed' = v
  /\ UNCHANGED <<document, binary, verification, serving, server, preparer, jobs, flock,
                 held, slips>>

-----------------------------------------------------------------------------
(* prepare_provider_runtime *)

Idle == runtime.pending = NoSetup /\ runtime.step \notin {"queued", "running"}

\* The acceptance is committed before the job may exist; a commit that
\* failed may have been written all the same.  Whether the service is closed
\* was asked before the lock was taken.
Prepare(r, saved, written) ==
  /\ Alive /\ preparer.pc = "idle"
  /\ \A q \in Setup : q < r <=> acceptance[q] # "none" \/ target[q] # NoVersion
  /\ Idle /\ flock = NoSetup
  /\ IF saved THEN UNCHANGED slips ELSE Slip
  /\ saved => written
  /\ flock' = r
  /\ target' = [target EXCEPT ![r] = Candidate]
  /\ runtime' = IF ~written THEN runtime
                ELSE [runtime EXCEPT !.state = "preparing", !.revision = Candidate,
                                     !.pending = r, !.server = server]
  /\ acceptance' = IF written THEN [acceptance EXCEPT ![r] = "pending"] ELSE acceptance
  /\ Preparing(r, IF saved THEN "accepted" ELSE "abort")
  /\ UNCHANGED <<files, serving, server, gate, job, flagged, held>>

Submit ==
  /\ preparer.pc = "accepted"
  /\ serving # "draining"
  /\ job' = [job EXCEPT ![preparer.request] = "queued"]
  /\ Preparing(preparer.request, "submitted")
  /\ UNCHANGED <<document, files, serving, server, gate, target, flagged, flock, held, slips>>

\* The job manager is shut down.
SubmitRefused ==
  /\ preparer.pc = "accepted"
  /\ serving = "draining"
  /\ runtime' = [runtime EXCEPT !.state = "failed", !.pending = NoSetup]
  /\ acceptance' = [acceptance EXCEPT ![preparer.request] = "failed"]
  /\ Preparing(preparer.request, "abort")
  /\ UNCHANGED <<files, serving, server, jobs, flock, held, slips>>

Accept(saved, written) ==
  /\ preparer.pc = "submitted"
  /\ saved => written
  /\ LET r == preparer.request
     IN /\ runtime' = IF ~written THEN runtime
                      ELSE [runtime EXCEPT !.pending = NoSetup, !.active = r, !.step = "queued"]
        /\ acceptance' = IF written THEN [acceptance EXCEPT ![r] = "job"] ELSE acceptance
        /\ IF saved
           THEN /\ held' = held \cup {r}
                /\ gate' = [gate EXCEPT ![r] = "accepted"]
                /\ Preparing(NoSetup, "idle")
                /\ UNCHANGED slips
           ELSE Slip /\ Preparing(r, "abort") /\ UNCHANGED <<held, gate>>
  /\ UNCHANGED <<files, serving, server, job, target, flagged, flock>>

AbortedFailed(r) ==  \* a plausible bug: a submitted job is called failed as well
  IF runtime.server = server /\ (runtime.pending = r \/ runtime.active = r)
  THEN /\ runtime' = [runtime EXCEPT !.pending = NoSetup, !.active = NoSetup,
                                     !.step = "none", !.state = "failed"]
       /\ acceptance' = [acceptance EXCEPT ![r] = "failed"]
  ELSE UNCHANGED document

\* _abort_submission removes only the acceptance of its own request.
Aborted(r) ==
  IF runtime.server = server /\ (runtime.pending = r \/ runtime.active = r)
  THEN /\ runtime' = [runtime EXCEPT !.pending = NoSetup, !.active = NoSetup,
                                     !.step = "none", !.state = "failed"]
       /\ acceptance' = [acceptance EXCEPT ![r] = IF job[r] = "none" THEN "failed" ELSE "job"]
  ELSE UNCHANGED document

Abort(saved) ==
  /\ preparer.pc = "abort"
  /\ IF saved THEN Aborted(preparer.request) /\ UNCHANGED slips
     ELSE Slip /\ UNCHANGED document
  /\ Preparing(preparer.request, "release")
  /\ UNCHANGED <<files, serving, server, jobs, flock, held>>

Release ==
  /\ preparer.pc = "release"
  /\ LET r == preparer.request
     IN /\ flock' = IF flock = r THEN NoSetup ELSE flock
        /\ gate' = [gate EXCEPT ![r] = "refused"]
  /\ Preparing(NoSetup, "idle")
  /\ UNCHANGED <<document, files, serving, server, job, target, flagged, held, slips>>

-----------------------------------------------------------------------------
(* The job *)

Move(r, step) == job' = [job EXCEPT ![r] = step]

Take(r) ==
  /\ Alive /\ job[r] = "queued" /\ \A q \in Setup : job[q] \notin AtWork
  /\ Move(r, "gated")
  /\ UNCHANGED <<document, files, serving, server, preparer, gate, target, flagged, flock,
                 held, slips>>

\* The wait at the gate has a limit.
PassGate(r) ==
  /\ job[r] = "gated"
  /\ \/ gate[r] = "accepted" /\ Move(r, "begin")
     \/ gate[r] # "accepted" /\ Move(r, "abandon")
  /\ UNCHANGED <<document, files, serving, server, preparer, gate, target, flagged, flock,
                 held, slips>>

Abandon(r, saved) ==
  /\ job[r] = "abandon" /\ ~Locked
  /\ IF saved THEN Aborted(r) /\ UNCHANGED slips ELSE Slip /\ UNCHANGED document
  /\ Drop(r) /\ Move(r, "failed")
  /\ UNCHANGED <<files, serving, server, preparer, gate, target, flagged>>

Begin(r, saved) ==
  /\ job[r] = "begin" /\ ~Locked
  /\ LET current == serving = "up" /\ Live(r) /\ runtime.step = "queued"
     IN IF ~saved THEN Slip /\ Move(r, "finish failed") /\ UNCHANGED runtime
        ELSE /\ runtime' = IF current THEN [runtime EXCEPT !.step = "running"] ELSE runtime
             /\ Move(r, IF current THEN "inspect" ELSE "finish cancelled")
             /\ UNCHANGED slips
  /\ UNCHANGED <<acceptance, files, serving, server, preparer, gate, target, flagged, flock,
                 held>>

\* The resource must still be the one that was accepted.
Inspect(r) ==
  /\ job[r] = "inspect"
  /\ Move(r, IF r \in flagged THEN "finish cancelled"
             ELSE IF target[r] = Candidate /\ target[r] # NoVersion THEN "copy"
             ELSE "finish failed")
  /\ UNCHANGED <<document, files, serving, server, preparer, gate, target, flagged, flock,
                 held, slips>>

\* The copy replaces the executable, then its record; each may fail.
Copy(r, done) ==
  /\ job[r] = "copy"
  /\ IF r \in flagged THEN Move(r, "finish cancelled") /\ UNCHANGED binary
     ELSE IF done THEN binary' = target[r] /\ Move(r, "verify")
     ELSE Move(r, "finish failed") /\ UNCHANGED binary
  /\ UNCHANGED <<document, installed, verification, serving, server, preparer, gate, target,
                 flagged, flock, held, slips>>

Verify(r, done) ==
  /\ job[r] = "verify"
  /\ IF done THEN verification' = target[r] /\ Move(r, "check")
     ELSE Move(r, "finish failed") /\ UNCHANGED verification
  /\ UNCHANGED <<document, installed, binary, serving, server, preparer, gate, target,
                 flagged, flock, held, slips>>

Check(r) ==
  /\ job[r] = "check"
  /\ Move(r, IF r \in flagged \/ serving # "up" THEN "finish cancelled"
             ELSE "finish succeeded")
  /\ UNCHANGED <<document, files, serving, server, preparer, gate, target, flagged, flock,
                 held, slips>>

\* _finish, for the setup that still is this server's active one.
Finished(r, state) ==
  runtime' = IF Live(r) THEN [runtime EXCEPT !.active = NoSetup, !.step = "none",
                                             !.state = state]
             ELSE runtime

Finish(r, outcome, saved) ==
  /\ ~Locked
  /\ job[r] = CASE outcome = "succeeded" -> "finish succeeded"
                [] outcome = "failed" -> "finish failed"
                [] OTHER -> "finish cancelled"
  /\ IF saved
     THEN /\ Finished(r, CASE outcome = "succeeded" -> "ready" [] outcome = "failed" -> "failed"
                           [] OTHER -> "not_prepared")
          /\ Move(r, outcome) /\ Drop(r) /\ UNCHANGED slips
     ELSE /\ Slip /\ UNCHANGED runtime
          /\ IF outcome = "succeeded"
             THEN Move(r, "finish failed") /\ UNCHANGED <<flock, held>>
             ELSE Move(r, "failed") /\ Drop(r)
  /\ UNCHANGED <<acceptance, files, serving, server, preparer, gate, target, flagged>>

-----------------------------------------------------------------------------
(* cancel_job and get_job_status *)

\* A queued job is dropped, a running one is flagged; then both tools
\* reconcile what the row says.
Cancel(r) ==
  /\ serving = "up"
  /\ \/ job[r] = "queued" /\ Move(r, "cancelled") /\ UNCHANGED flagged
     \/ job[r] \in AtWork /\ r \notin flagged /\ flagged' = flagged \cup {r} /\ UNCHANGED job
  /\ UNCHANGED <<document, files, serving, server, preparer, gate, target, flock, held, slips>>

Observe(r) ==
  /\ Alive /\ job[r] \in {"cancelled", "failed"} /\ Live(r)
  /\ Finished(r, "not_prepared")
  /\ Drop(r)
  /\ UNCHANGED <<acceptance, files, serving, server, preparer, jobs, slips>>

-----------------------------------------------------------------------------
(* The server closes, dies and starts *)

\* close cancels what is still queued.
Close ==
  /\ serving = "up" /\ ~Locked
  /\ serving' = "closing"
  /\ LET r == runtime.active
     IN IF r # NoSetup /\ Live(r) /\ runtime.step = "queued"
        THEN Finished(r, "not_prepared") /\ Drop(r)
        ELSE UNCHANGED <<runtime, flock, held>>
  /\ UNCHANGED <<acceptance, files, server, preparer, jobs, slips>>

\* The job manager drops its queue and waits for the job at work.
Shutdown ==
  /\ serving = "closing" /\ serving' = "draining"
  /\ job' = [r \in Setup |-> IF job[r] = "queued" THEN "failed" ELSE job[r]]
  /\ UNCHANGED <<document, files, server, preparer, gate, target, flagged, flock, held, slips>>

Die ==
  /\ Alive /\ server < MaxServers
  /\ serving' = "down"
  /\ preparer' = [pc |-> "idle", request |-> NoSetup]
  /\ flock' = NoSetup /\ held' = {} /\ flagged' = {}
  /\ UNCHANGED <<document, files, server, gate, job, target, slips>>

\* mark_stale_jobs and _recover.
Start ==
  /\ serving = "down"
  /\ serving' = "up" /\ server' = server + 1
  /\ job' = [r \in Setup |-> IF job[r] = "queued" \/ job[r] \in AtWork THEN "failed" ELSE job[r]]
  /\ runtime' = IF Idle THEN runtime
                ELSE [runtime EXCEPT !.state = "unknown", !.pending = NoSetup,
                        !.step = IF @ \in {"queued", "running"} THEN "unknown" ELSE @]
  /\ acceptance' = [r \in Setup |-> IF acceptance[r] = "pending" THEN "unknown"
                                    ELSE acceptance[r]]
  /\ UNCHANGED <<files, preparer, gate, target, flagged, flock, held, slips>>

-----------------------------------------------------------------------------
Work(r) ==
  /\ Alive
  /\ \/ Take(r) \/ PassGate(r) \/ Inspect(r) \/ Check(r)
     \/ \E saved \in BOOLEAN : \/ Abandon(r, saved) \/ Begin(r, saved)
                               \/ Copy(r, saved) \/ Verify(r, saved)
                               \/ \E outcome \in Ended : Finish(r, outcome, saved)

Accepting ==
  \/ Submit \/ SubmitRefused \/ Release
  \/ \E saved \in BOOLEAN : Abort(saved) \/ \E written \in BOOLEAN : Accept(saved, written)

Next ==
  \/ \E v \in Version \cup {NoVersion} : Install(v)
  \/ \E r \in Setup :
       \/ \E saved, written \in BOOLEAN : Prepare(r, saved, written)
       \/ Work(r) \/ Cancel(r) \/ Observe(r)
  \/ Accepting \/ Close \/ Shutdown \/ Die \/ Start

\* Threads run on.
Fairness == WF_pvars(Accepting) /\ \A r \in Setup : WF_pvars(Work(r))

Spec == Init /\ [][Next]_pvars /\ Fairness

-----------------------------------------------------------------------------
(* Properties *)

\* Where requests, jobs, servers and files may stand.
TypeOK ==
  /\ runtime \in [state : {"not_prepared", "preparing", "ready", "failed", "unknown"},
                  revision : Version \cup {NoVersion}, pending : Setup \cup {NoSetup},
                  active : Setup \cup {NoSetup},
                  step : {"none", "queued", "running", "unknown"}, server : 1 .. MaxServers]
  /\ acceptance \in [Setup -> {"none", "pending", "job", "failed", "unknown"}]
  /\ {installed, binary, verification} \subseteq Version \cup {NoVersion}
  /\ job \in [Setup -> {"none", "queued"} \cup AtWork \cup Ended]
  /\ flock \in Setup \cup {NoSetup} /\ held \subseteq Setup /\ slips \in 0 .. MaxSlips

\* The runtime a provider calls ready is the one a job copied and verified for
\* the revision that was accepted: no interrupted, cancelled or repeated
\* preparation leaves a ready record beside other files (runtime.py _run and
\* _finish, _runtime.py prepare).
ReadyIsVerified ==
  runtime.state = "ready" => /\ runtime.revision # NoVersion
                             /\ binary = runtime.revision /\ verification = binary

\* A job that changes the runtime's files holds the operating system's lock:
\* neither a refused acceptance, a poll nor the end of the service takes it
\* away under the job.
WriterHoldsLock ==
  Alive => \A r \in Setup : job[r] \in {"copy", "verify"} => flock = r /\ r \in held

\* The lock is never left to nobody: a call or a job will release it, or the
\* next look at the ended job does.
LockIsOwned ==
  flock # NoSetup =>
    \/ preparer.request = flock
    \/ job[flock] = "queued" \/ job[flock] \in AtWork
    \/ job[flock] \in {"cancelled", "failed"} /\ Live(flock)

\* A provider is refused as busy with a preparation only while a call or a
\* job will end it, or its job has ended and the next look at it frees the
\* provider - whatever one write of the registry does.
BusyIsExplained ==
  Alive /\ ~Idle /\ slips < 2 =>
    LET r == IF runtime.pending # NoSetup THEN runtime.pending ELSE runtime.active
    IN \/ preparer.request = r
       \/ job[r] = "queued" \/ job[r] \in AtWork
       \/ job[r] \in {"cancelled", "failed"} /\ runtime.active = r

\* A request that is answered "failed" submitted nothing.
RefusedDidNothing == \A r \in Setup : acceptance[r] = "failed" => job[r] = "none"

\* All of these, checked together.
RuntimeSafe ==
  ReadyIsVerified /\ WriterHoldsLock /\ LockIsOwned /\ BusyIsExplained /\ RefusedDidNothing

\* A job that was accepted ends, whichever side of the gate it was on:
\* Unfinished(r) leads to Returned(r).
Unfinished(r) == job[r] \in {"queued"} \cup AtWork
Returned(r) == job[r] \in Ended \/ ~Alive
=============================================================================
