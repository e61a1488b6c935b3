--------------------------- MODULE RecordingSession ---------------------------
(***************************************************************************)
(* Starting, stopping and shutting down a recording                        *)
(* (server/src/narumi_server: recording.py, handlers/recording.py,         *)
(* locks.py, ServerContext.close in context.py).                           *)
(*                                                                         *)
(* Tool handlers run on threads of one server process.  They share the     *)
(* RecordingController (a fail-fast operation gate, a lock held while it   *)
(* talks to the recorder process, and the fields _proc and                 *)
(* _active_meeting_id, which others read without the lock), one lock per   *)
(* meeting, and the manifests on disk.  The thread that closes the server  *)
(* may run while handlers are still at work: uvicorn gives up on them      *)
(* after its grace period and does not stop their threads.                 *)
(*                                                                         *)
(* A step is what a thread does between two points where another thread's  *)
(* step matters: taking a lock, reading the active meeting, launching or   *)
(* stopping the recorder, saving the manifest.                             *)
(***************************************************************************)
EXTENDS FiniteSets

CONSTANTS
  Meeting,    \* the ids new_meeting_id can return; one start uses up one id
  Starter,    \* threads that call start_recording, list_recording_displays...
  Stopper,    \* threads that call stop_recording
  Closer,     \* the thread that runs ServerContext.close, once
  NoMeeting,
  NoThread

Thread == Starter \cup Stopper \cup {Closer}
Stopping == Stopper \cup {Closer}

ASSUME SessionAssumption ==
  /\ Starter \cap Stopper = {} /\ Closer \notin Starter \cup Stopper
  /\ NoMeeting \notin Meeting /\ NoThread \notin Thread

VARIABLES
  (* RecordingController *)
  gate,      \* _operation_gate: the thread that holds it
  control,   \* _lock, while a start waits for its recorder
  active,    \* _active_meeting_id
  proc,      \* _proc: the meeting whose recorder it points to
  recorder,  \* the operating system's recorder process of each meeting
  (* MeetingLocks, the bundles and the queued jobs *)
  unused,    \* ids not given out yet
  lock,      \* the thread that holds each meeting's lock
  manifest,  \* manifest.json: its status, "absent" when there is no bundle
  queued,    \* meetings with a process or playback job
  (* threads *)
  closed,    \* ServerContext._closed
  pc,
  target,    \* the meeting_id a call works on
  got        \* the meeting whose recorder a stop call ended

vars == <<gate, control, active, proc, recorder, unused, lock, manifest, queued,
          closed, pc, target, got>>

controller == <<gate, control, active, proc, recorder>>
bundles == <<unused, manifest, queued>>

Alive == {"starting", "capturing"}
Captured == {"capturing", "ended", "lost"}
StartSteps == {"reserved", "created", "launching", "started"}
StopSteps == {"waiting", "locked", "finalizing", "recorded", "failing"}

Init ==
  /\ gate = NoThread /\ control = NoThread
  /\ active = NoMeeting /\ proc = NoMeeting
  /\ recorder = [m \in Meeting |-> "none"]
  /\ unused = Meeting
  /\ lock = [m \in Meeting |-> NoThread]
  /\ manifest = [m \in Meeting |-> "absent"]
  /\ queued = {}
  /\ closed = FALSE
  /\ pc = [t \in Thread |-> "idle"]
  /\ target = [t \in Thread |-> NoMeeting]
  /\ got = [t \in Thread |-> NoMeeting]

-----------------------------------------------------------------------------
(* start_recording *)

(* The call ends: pc and target only, and the locks the caller names. *)
Return(t) ==
  /\ pc' = [pc EXCEPT ![t] = "idle"]
  /\ target' = [target EXCEPT ![t] = NoMeeting]
  /\ got' = [got EXCEPT ![t] = NoMeeting]

(* Leaving `with ctx.locks.hold(...)` and `with recording_operation()`. *)
ReleaseStart(s) ==
  /\ lock' = [lock EXCEPT ![target[s]] = NoThread]
  /\ gate' = NoThread

(* recording_operation: a busy gate or an active recording refuses at once. *)
EnterGate(s) ==
  /\ pc[s] = "idle"
  /\ gate = NoThread /\ active = NoMeeting
  /\ gate' = s

Reserve(s, m) ==
  /\ EnterGate(s)
  /\ m \in unused /\ unused' = unused \ {m}
  /\ lock' = [lock EXCEPT ![m] = s]
  /\ pc' = [pc EXCEPT ![s] = "reserved"]
  /\ target' = [target EXCEPT ![s] = m]
  /\ UNCHANGED <<control, active, proc, recorder, manifest, queued, closed, got>>

(* list_displays and configure_permission hold the gate while their helper *)
(* process runs.                                                           *)
EnterSideOperation(s) ==
  /\ EnterGate(s)
  /\ pc' = [pc EXCEPT ![s] = "side"]
  /\ UNCHANGED <<control, active, proc, recorder, bundles, lock, closed, target, got>>

LeaveSideOperation(s) ==
  /\ pc[s] = "side"
  /\ gate' = NoThread
  /\ Return(s)
  /\ UNCHANGED <<control, active, proc, recorder, bundles, lock, closed>>

(* No recorder, microphone denied, unknown profile, invalid configuration. *)
RefuseStart(s) ==
  /\ pc[s] = "reserved"
  /\ ReleaseStart(s) /\ Return(s)
  /\ UNCHANGED <<control, active, proc, recorder, bundles, closed>>

(* Bundle.create: a manifest is born with the status "recording". *)
CreateBundle(s) ==
  /\ pc[s] = "reserved"
  /\ manifest' = [manifest EXCEPT ![target[s]] = "recording"]
  /\ pc' = [pc EXCEPT ![s] = "created"]
  /\ UNCHANGED <<controller, unused, lock, queued, closed, target, got>>

(* RecordingController.start up to Popen; _lock stays taken. *)
Launch(s) ==
  /\ pc[s] = "created"
  /\ control = NoThread /\ active = NoMeeting
  /\ control' = s
  /\ proc' = target[s]
  /\ recorder' = [recorder EXCEPT ![target[s]] = "starting"]
  /\ pc' = [pc EXCEPT ![s] = "launching"]
  /\ UNCHANGED <<gate, active, bundles, lock, closed, target, got>>

Started(s) ==
  /\ pc[s] = "launching"
  /\ recorder' = [recorder EXCEPT ![target[s]] = "capturing"]
  /\ active' = target[s]
  /\ control' = NoThread
  /\ pc' = [pc EXCEPT ![s] = "started"]
  /\ UNCHANGED <<gate, proc, bundles, lock, closed, target, got>>

StartFailsLocked(s) ==  \* a plausible bug: _lock is not released on an error
  /\ pc[s] = "launching"
  /\ recorder' = [recorder EXCEPT ![target[s]] = "failed"]
  /\ proc' = NoMeeting
  /\ manifest' = [manifest EXCEPT ![target[s]] = "absent"]
  /\ ReleaseStart(s) /\ Return(s)
  /\ UNCHANGED <<control, active, unused, queued, closed>>

(* No `started` event in time, an error event, the recorder exits: it is   *)
(* killed, the controller cleaned up and the bundle removed.               *)
StartFails(s) ==
  /\ pc[s] = "launching"
  /\ recorder' = [recorder EXCEPT ![target[s]] = "failed"]
  /\ proc' = NoMeeting
  /\ control' = NoThread
  /\ manifest' = [manifest EXCEPT ![target[s]] = "absent"]
  /\ ReleaseStart(s) /\ Return(s)
  /\ UNCHANGED <<active, unused, queued, closed>>

(* Popen fails, or the recorder vanished: the bundle is removed. *)
LaunchFails(s) ==
  /\ pc[s] = "created"
  /\ control = NoThread
  /\ manifest' = [manifest EXCEPT ![target[s]] = "absent"]
  /\ ReleaseStart(s) /\ Return(s)
  /\ UNCHANGED <<control, active, proc, recorder, unused, queued, closed>>

SaveStarted(s) ==
  /\ pc[s] = "started"
  /\ manifest' = [manifest EXCEPT ![target[s]] = "recording"]
  /\ ReleaseStart(s) /\ Return(s)
  /\ UNCHANGED <<control, active, proc, recorder, unused, queued, closed>>

FailAfterStartedRemoves(s) ==  \* a plausible bug: the except covers too much
  /\ pc[s] = "started"
  /\ manifest' = [manifest EXCEPT ![target[s]] = "absent"]
  /\ ReleaseStart(s) /\ Return(s)
  /\ UNCHANGED <<control, active, proc, recorder, unused, queued, closed>>

(* A track outside the bundle or a failed save: the call fails, and the    *)
(* recording goes on under the manifest Bundle.create saved.               *)
FailAfterStarted(s) ==
  /\ pc[s] = "started"
  /\ ReleaseStart(s) /\ Return(s)
  /\ UNCHANGED <<control, active, proc, recorder, bundles, closed>>

-----------------------------------------------------------------------------
(* stop_recording, by a tool call or by the closing thread *)

(* The call ends, after its `with` block was left. *)
Finish(t) ==
  /\ IF t = Closer
       THEN /\ pc' = [pc EXCEPT ![t] = "closed"]
            /\ UNCHANGED <<target, got>>
       ELSE Return(t)

(* An error: ServerContext.finalize_recording catches it and aborts. *)
Raise(t) ==
  /\ IF t = Closer
       THEN /\ pc' = [pc EXCEPT ![t] = "aborting"]
            /\ UNCHANGED <<target, got>>
       ELSE Return(t)

Unlock(t) == lock' = [lock EXCEPT ![target[t]] = NoThread]

(* active_meeting_id is read without any lock. *)
ReadActive(t) ==
  /\ pc[t] = IF t = Closer THEN "closing" ELSE "idle"
  /\ active # NoMeeting
  /\ target' = [target EXCEPT ![t] = active]
  /\ pc' = [pc EXCEPT ![t] = "waiting"]
  /\ UNCHANGED <<controller, bundles, lock, closed, got>>

NothingActive ==
  /\ pc[Closer] = "closing"
  /\ active = NoMeeting
  /\ Raise(Closer)
  /\ UNCHANGED <<controller, bundles, lock, closed>>

TakeLock(t) ==
  /\ pc[t] = "waiting"
  /\ lock[target[t]] = NoThread
  /\ lock' = [lock EXCEPT ![target[t]] = t]
  /\ pc' = [pc EXCEPT ![t] = "locked"]
  /\ UNCHANGED <<controller, bundles, closed, target, got>>

(* HANDLER_WAIT_SECONDS went by: busy. *)
LockTimeout(t) ==
  /\ pc[t] = "waiting"
  /\ lock[target[t]] # NoThread
  /\ Raise(t)
  /\ UNCHANGED <<controller, bundles, lock, closed>>

(* find_bundle under the lock: the meeting went to the trash meanwhile. *)
BundleGone(t) ==
  /\ pc[t] = "locked"
  /\ manifest[target[t]] \in {"absent", "deleted"}
  /\ Unlock(t) /\ Raise(t)
  /\ UNCHANGED <<controller, bundles, closed>>

(* _cleanup; _lock is free again when it returns. *)
Cleanup ==
  /\ active' = NoMeeting
  /\ proc' = NoMeeting
  /\ UNCHANGED <<gate, control>>

(* RecordingController.stop: whatever recording is active is stopped. *)
StopRecorder(t) ==
  /\ pc[t] = "locked"
  /\ manifest[target[t]] \notin {"absent", "deleted"}
  /\ control = NoThread /\ active # NoMeeting
  /\ recorder[active] \in {"capturing", "ended"}
  /\ recorder' = [recorder EXCEPT ![active] = "ended"]
  /\ Cleanup
  /\ got' = [got EXCEPT ![t] = active]
  /\ pc' = [pc EXCEPT ![t] = "finalizing"]
  /\ UNCHANGED <<bundles, lock, closed, target>>

StopFailsAlive(t) ==  \* a plausible bug: a timed-out stop does not _terminate
  /\ pc[t] = "locked"
  /\ control = NoThread /\ active # NoMeeting
  /\ Cleanup
  /\ got' = [got EXCEPT ![t] = active]
  /\ pc' = [pc EXCEPT ![t] = "failing"]
  /\ UNCHANGED <<recorder, bundles, lock, closed, target>>

(* No usable `stopped` event: the recorder is killed if it still runs. *)
StopFails(t) ==
  /\ pc[t] = "locked"
  /\ manifest[target[t]] \notin {"absent", "deleted"}
  /\ control = NoThread /\ active # NoMeeting
  /\ recorder' = [recorder EXCEPT ![active] = IF @ = "capturing" THEN "lost" ELSE @]
  /\ Cleanup
  /\ got' = [got EXCEPT ![t] = active]
  /\ pc' = [pc EXCEPT ![t] = "failing"]
  /\ UNCHANGED <<bundles, lock, closed, target>>

(* stop() finds no recording: its NotFoundError is a NarumiError too. *)
NothingToStop(t) ==
  /\ pc[t] = "locked"
  /\ manifest[target[t]] \notin {"absent", "deleted"}
  /\ control = NoThread /\ active = NoMeeting
  /\ pc' = [pc EXCEPT ![t] = "failing"]
  /\ UNCHANGED <<controller, bundles, lock, closed, target, got>>

MarkRecorded(t) ==
  /\ pc[t] = "finalizing"
  /\ manifest' = [manifest EXCEPT ![target[t]] = "recorded"]
  /\ pc' = [pc EXCEPT ![t] = "recorded"]
  /\ UNCHANGED <<controller, unused, queued, lock, closed, target, got>>

MarkFailedOther(t) ==  \* a plausible bug: a status outside MeetingStatus
  /\ pc[t] \in {"finalizing", "failing"}
  /\ manifest' = [manifest EXCEPT ![target[t]] = "error"]
  /\ Unlock(t) /\ Raise(t)
  /\ UNCHANGED <<controller, unused, queued, closed>>

(* _mark_failed after stop() or finalize_tracks raised a NarumiError. *)
MarkFailed(t) ==
  /\ pc[t] \in {"finalizing", "failing"}
  /\ manifest' = [manifest EXCEPT ![target[t]] = "failed"]
  /\ Unlock(t) /\ Raise(t)
  /\ UNCHANGED <<controller, unused, queued, closed>>

(* Any other exception (reading a track, saving the manifest) is not caught. *)
Unexpected(t) ==
  /\ pc[t] \in {"finalizing", "failing", "recorded"}
  /\ Unlock(t) /\ Raise(t)
  /\ UNCHANGED <<controller, bundles, closed>>

(* enqueue_process or enqueue_playback, unless shutting down or not wanted. *)
Enqueue(t) ==
  /\ pc[t] = "recorded"
  /\ ~closed /\ target[t] \notin queued
  /\ queued' = queued \cup {target[t]}
  /\ Unlock(t) /\ Finish(t)
  /\ UNCHANGED <<controller, unused, manifest, closed>>

SkipJob(t) ==
  /\ pc[t] = "recorded"
  /\ Unlock(t) /\ Finish(t)
  /\ UNCHANGED <<controller, bundles, closed>>

-----------------------------------------------------------------------------
(* ServerContext.close *)

(* _closed is set; finalize_recording then looks at is_active. *)
Close ==
  /\ pc[Closer] = "idle"
  /\ closed' = TRUE
  /\ pc' = [pc EXCEPT ![Closer] = IF active = NoMeeting THEN "aborting" ELSE "closing"]
  /\ UNCHANGED <<controller, bundles, lock, target, got>>

(* The recorder gets SIGINT and EOF and exits in time, or is killed. *)
Abort(final) ==
  /\ pc[Closer] = "aborting"
  /\ control = NoThread
  /\ recorder' = IF proc = NoMeeting THEN recorder
                 ELSE [recorder EXCEPT ![proc] = IF @ = "capturing" THEN final ELSE @]
  /\ Cleanup
  /\ pc' = [pc EXCEPT ![Closer] = "closed"]
  /\ UNCHANGED <<bundles, lock, closed, target, got>>

-----------------------------------------------------------------------------
(* The recorder process and the rest of the server *)

(* A capture that fails by itself ends with `stopped`, or dies without it. *)
RecorderExits(m) ==
  /\ recorder[m] = "capturing"
  /\ \E final \in {"ended", "lost"} : recorder' = [recorder EXCEPT ![m] = final]
  /\ UNCHANGED <<gate, control, active, proc, bundles, lock, closed, pc, target, got>>

(* delete_meeting: refused while recording or while a job is queued.  The  *)
(* handler holds the meeting's lock from its last check to the move.       *)
DeleteMeeting(m) ==
  /\ manifest[m] \notin {"absent", "deleted"}
  /\ lock[m] = NoThread
  /\ active # m /\ m \notin queued
  /\ manifest' = [manifest EXCEPT ![m] = "deleted"]
  /\ UNCHANGED <<controller, unused, queued, lock, closed, pc, target, got>>

StartStep(s) ==
  \/ LeaveSideOperation(s) \/ RefuseStart(s) \/ CreateBundle(s)
  \/ Launch(s) \/ LaunchFails(s) \/ Started(s) \/ StartFails(s)
  \/ SaveStarted(s) \/ FailAfterStarted(s)

StopStep(t) ==
  \/ TakeLock(t) \/ LockTimeout(t) \/ BundleGone(t)
  \/ StopRecorder(t) \/ StopFails(t) \/ NothingToStop(t)
  \/ MarkRecorded(t) \/ MarkFailed(t) \/ Unexpected(t)
  \/ Enqueue(t) \/ SkipJob(t)

CloseStep ==
  \/ ReadActive(Closer) \/ NothingActive \/ StopStep(Closer)
  \/ \E final \in {"ended", "lost"} : Abort(final)

Next ==
  \/ \E s \in Starter :
       \/ \E m \in Meeting : Reserve(s, m)
       \/ EnterSideOperation(s)
       \/ StartStep(s)
  \/ \E t \in Stopper : ReadActive(t) \/ StopStep(t)
  \/ Close \/ CloseStep
  \/ \E m \in Meeting : RecorderExits(m) \/ DeleteMeeting(m)

Spec == Init /\ [][Next]_vars

(* Threads that are in a call keep running: every wait in it has a timeout *)
(* (the meeting lock, the events, the exit of the recorder).  Nobody has   *)
(* to start, stop or close anything.                                       *)
FairSpec ==
  /\ Spec
  /\ \A s \in Starter : WF_vars(StartStep(s))
  /\ \A t \in Stopper : WF_vars(StopStep(t))
  /\ WF_vars(CloseStep)

-----------------------------------------------------------------------------
(* Where calls, recorders and bundles may stand. *)
TypeOK ==
  /\ gate \in Starter \cup {NoThread}
  /\ control \in Starter \cup {NoThread}
  /\ active \in Meeting \cup {NoMeeting}
  /\ proc \in Meeting \cup {NoMeeting}
  /\ recorder \in [Meeting -> {"none", "failed"} \cup Alive \cup Captured]
  /\ unused \subseteq Meeting
  /\ lock \in [Meeting -> Thread \cup {NoThread}]
  /\ manifest \in [Meeting -> {"absent", "recording", "recorded", "failed", "deleted"}]
  /\ queued \subseteq Meeting
  /\ closed \in BOOLEAN
  /\ pc \in [Thread -> {"idle", "side", "closing", "aborting", "closed"}
                         \cup StartSteps \cup StopSteps]
  /\ target \in [Thread -> Meeting \cup {NoMeeting}]
  /\ got \in [Thread -> Meeting \cup {NoMeeting}]

(* No recorder process is ever left behind: whichever way a start, a stop  *)
(* or a shutdown goes wrong, a process that may still capture is the one   *)
(* the controller points to, so a later stop can reach it, and of a        *)
(* meeting that has not left "recording".  And while a recording is active *)
(* its bundle stands under that status: no other stop, deletion or failed  *)
(* start touches it.                                                       *)
NoStrayRecorder ==
  /\ \A m \in Meeting : recorder[m] \in Alive =>
       proc = m /\ manifest[m] \notin {"recorded", "failed"}
  /\ active # NoMeeting => /\ manifest[active] = "recording"
                           /\ recorder[active] \in Captured

(* "No orphan bundle for a failed start", and what was captured is never   *)
(* thrown away by the clean-up of a start: a bundle exists just for the    *)
(* recorders that reported `started`, or while a start is still at work,   *)
(* and stays until it is deleted on request.                               *)
BundlesAreOfCaptures ==
  \A m \in Meeting :
    /\ manifest[m] # "absent" /\ recorder[m] \in {"none", "failed"}
         => \E s \in Starter : target[s] = m /\ pc[s] = "created"
    /\ recorder[m] \in Captured => manifest[m] # "absent"

(* Every start and stop call returns and a shutdown finishes, whatever     *)
(* they wait for.                                                          *)
CallsEnd ==
  /\ \A t \in Starter \cup Stopper : pc[t] # "idle" ~> pc[t] = "idle"
  /\ closed ~> pc[Closer] = "closed"

(* The contract of stop_recording: what it stopped is what it finalizes    *)
(* and describes in the manifest.                                          *)
StopRecordsWhatItStopped ==
  \A t \in Stopping : pc[t] = "finalizing" => got[t] = target[t]

(* ServerContext.close: the recorder is aborted only when stopping that    *)
(* recording through the handler has failed.                               *)
AbortOnlyAfterFailedStop ==
  [][pc[Closer] = "aborting" /\ pc'[Closer] = "closed"
       => active \in {NoMeeting, target[Closer]}]_vars
=============================================================================
