----------------------------- MODULE MeetingJobs -----------------------------
(***************************************************************************)
(* Jobs of a meeting and the tool handlers that write it                   *)
(* (server/src/narumi_server: jobs.py, locks.py, handlers/common.py's      *)
(* locked_bundle, handlers/processing.py's run_pipeline_job).              *)
(*                                                                         *)
(* A handler checks that the meeting has no job, takes the meeting's lock, *)
(* checks again and submits a job, writes the configuration or moves the   *)
(* meeting to the trash.  One worker runs the jobs in order: it marks the  *)
(* row running, takes the meeting's lock, saves status "processing", runs  *)
(* the stages, saves the new status, and writes the row's end after the    *)
(* lock is released.  A provider's runtime is prepared by a job without a  *)
(* meeting.  Users cancel jobs, the catalog may fail to write, and the     *)
(* server closes, dies and starts again.                                   *)
(***************************************************************************)
EXTENDS Integers, FiniteSets

CONSTANTS
  Meeting,
  Caller,      \* threads that run tool handlers
  Config,      \* meeting configurations
  Selected,    \* those that select a connected model
  Deleted,     \* in place of the configuration: the bundle is in the trash
  Free,        \* a lock nobody holds, no meeting
  MaxJobs,     \* bound on the jobs submitted
  MaxCrashes,  \* bound on the server's deaths
  MaxFaults    \* bound on the writes of bookkeeping that fail

Job == 1 .. MaxJobs

ASSUME JobsAssumption ==
  /\ Selected \subseteq Config /\ Deleted \notin Config
  /\ Free \notin Meeting \cup Caller \cup Job
  /\ Caller \cap Job = {}
  /\ MaxJobs \in Nat /\ MaxCrashes \in Nat /\ MaxFaults \in Nat

VARIABLES
  (* on disk *)
  row,        \* status of a job's catalog row
  target,     \* its meeting, Free for a provider_setup job
  config,     \* manifest.config of a meeting
  status,     \* manifest.status of a meeting
  (* the server process *)
  mode,       \* "up", "closing" (shutdown has begun) or "down"
  future,     \* the executor's future of a job; "none" when forgotten
  flagged,    \* jobs whose cancel event is set
  lock,       \* holder of a meeting's lock
  step,       \* where the worker is in a job
  before,     \* run_pipeline_job's previous_status
  outcome,    \* how the job's function ended
  cpc, at, seen,  \* a handler's place, meeting, and the configuration shown
  crashes, faults,
  (* observation *)
  accepted,   \* the configuration a job was accepted with
  orphans,    \* jobs whose row a failed write left behind
  abandoned   \* meetings whose status a death or failed write left behind

disk == <<row, target, config, status>>
handlers == <<cpc, at, seen>>
worker == <<step, before, outcome>>
bounds == <<crashes, faults>>
history == <<accepted, orphans, abandoned>>
vars == <<disk, mode, future, flagged, lock, handlers, worker, bounds, history>>

Active == {"queued", "running"}
Terminal == {"succeeded", "failed", "cancelled"}

Init ==
  /\ row = [j \in Job |-> "none"]
  /\ target = [j \in Job |-> Free]
  /\ config \in [Meeting -> Config]
  /\ status = [m \in Meeting |-> "recorded"]
  /\ mode = "up"
  /\ future = [j \in Job |-> "none"]
  /\ flagged = {}
  /\ lock = [m \in Meeting |-> Free]
  /\ step = [j \in Job |-> "none"]
  /\ before = [j \in Job |-> "recorded"]
  /\ outcome = [j \in Job |-> "none"]
  /\ cpc = [c \in Caller |-> "idle"]
  /\ at = [c \in Caller |-> Free]
  /\ seen = [c \in Caller |-> Deleted]
  /\ crashes = 0 /\ faults = 0
  /\ accepted = [j \in Job |-> Deleted]
  /\ orphans = {} /\ abandoned = {}

Alive(j) == future[j] \in {"pending", "running"}

(* has_active: a future of this process or an active row of the catalog. *)
HasActive(m) == \E j \in Job : target[j] = m /\ (Alive(j) \/ row[j] \in Active)

Fault == faults < MaxFaults /\ faults' = faults + 1

-----------------------------------------------------------------------------
(* Handlers: locked_bundle and its bodies. *)

(* The checks before the lock; a handler that fails them returns. *)
Begin(c, m) ==
  /\ mode # "down" /\ cpc[c] = "idle"
  /\ config[m] # Deleted /\ ~HasActive(m)
  /\ cpc' = [cpc EXCEPT ![c] = "locking"]
  /\ at' = [at EXCEPT ![c] = m]
  /\ seen' = [seen EXCEPT ![c] = config[m]]
  /\ UNCHANGED <<disk, mode, future, flagged, lock, worker, bounds, history>>

TakeLock(c) ==
  /\ cpc[c] = "locking" /\ lock[at[c]] = Free
  /\ lock' = [lock EXCEPT ![at[c]] = c]
  /\ cpc' = [cpc EXCEPT ![c] = "locked"]
  /\ UNCHANGED <<disk, mode, future, flagged, at, seen, worker, bounds, history>>

Return(c) ==
  /\ cpc' = [cpc EXCEPT ![c] = "idle"]
  /\ at' = [at EXCEPT ![c] = Free]
  /\ seen' = [seen EXCEPT ![c] = Deleted]

(* Five seconds have passed. *)
GiveUp(c) ==
  /\ cpc[c] = "locking" /\ lock[at[c]] # Free
  /\ Return(c)
  /\ UNCHANGED <<disk, mode, future, flagged, lock, worker, bounds, history>>

RecheckNothing(c) ==  \* a plausible bug: the checks before the lock are trusted
  /\ cpc[c] = "locked" /\ config[at[c]] # Deleted
  /\ cpc' = [cpc EXCEPT ![c] = "writing"]
  /\ UNCHANGED <<disk, mode, future, flagged, lock, at, seen, worker, bounds, history>>

Recheck(c) ==
  /\ cpc[c] = "locked"
  /\ config[at[c]] # Deleted /\ ~HasActive(at[c])
  /\ cpc' = [cpc EXCEPT ![c] = "writing"]
  /\ UNCHANGED <<disk, mode, future, flagged, lock, at, seen, worker, bounds, history>>

(* The handler's with-block ends: it returns and releases the lock. *)
Leave(c) ==
  /\ lock' = [lock EXCEPT ![at[c]] = Free]
  /\ Return(c)

(* Busy, not found, or any refused argument. *)
Raise(c) ==
  /\ cpc[c] \in {"locked", "writing"}
  /\ Leave(c)
  /\ UNCHANGED <<disk, mode, future, flagged, worker, bounds, history>>

SetConfig(c) ==
  /\ cpc[c] = "writing"
  /\ \E new \in Config : config' = [config EXCEPT ![at[c]] = new]
  /\ Leave(c)
  /\ UNCHANGED <<row, target, status, mode, future, flagged, worker, bounds, history>>

Delete(c) ==
  /\ cpc[c] = "writing"
  /\ config' = [config EXCEPT ![at[c]] = Deleted]
  /\ Leave(c)
  /\ UNCHANGED <<row, target, status, mode, future, flagged, worker, bounds, history>>

Enqueue(j, m, setting) ==
  /\ \A k \in Job : row[k] = "none" <=> k >= j
  /\ row' = [row EXCEPT ![j] = "queued"]
  /\ target' = [target EXCEPT ![j] = m]
  /\ future' = [future EXCEPT ![j] = "pending"]
  /\ accepted' = [accepted EXCEPT ![j] = setting]

(* regenerate: a selected model demands the configuration that was shown;  *)
(* submit demands an open manager and no live future of the meeting.       *)
Submit(c) ==
  LET m == at[c] IN
  /\ cpc[c] = "writing"
  /\ config[m] \in Selected => seen[c] = config[m]
  /\ mode = "up"
  /\ \A j \in Job : target[j] = m => ~Alive(j)
  /\ \E j \in Job : Enqueue(j, m, config[m])
  /\ Leave(c)
  /\ UNCHANGED <<config, status, mode, flagged, worker, bounds, orphans, abandoned>>

(* The provider service submits the preparation of a runtime.              *)
SubmitSetup ==
  /\ mode = "up"
  /\ \E j \in Job : Enqueue(j, Free, Deleted)
  /\ UNCHANGED <<config, status, mode, flagged, lock, handlers, worker, bounds,
                 orphans, abandoned>>

-----------------------------------------------------------------------------
(* cancel_job *)

(* Future.cancel of a job that has not started, and its row; when the row  *)
(* cannot be written the future is gone all the same.                      *)
CancelQueued(j) ==
  /\ future[j] = "pending" /\ row[j] \in Active
  /\ future' = [future EXCEPT ![j] = "none"]
  /\ \/ row' = [row EXCEPT ![j] = "cancelled"] /\ UNCHANGED <<faults, orphans>>
     \/ Fault /\ orphans' = orphans \cup {j} /\ UNCHANGED row
  /\ UNCHANGED <<target, config, status, mode, flagged, lock, handlers, worker,
                 crashes, accepted, abandoned>>

CancelRunning(j) ==
  /\ future[j] = "running" /\ row[j] \in Active /\ j \notin flagged
  /\ flagged' = flagged \cup {j}
  /\ UNCHANGED <<disk, mode, future, lock, handlers, worker, bounds, history>>

-----------------------------------------------------------------------------
(* The worker *)

Start(j) ==
  /\ future[j] = "pending"
  /\ \A k \in Job : future[k] # "running" /\ (future[k] = "pending" => k >= j)
  /\ future' = [future EXCEPT ![j] = "running"]
  /\ step' = [step EXCEPT ![j] = "starting"]
  /\ UNCHANGED <<disk, mode, flagged, lock, handlers, before, outcome, bounds, history>>

(* The job leaves the manager. *)
Forget(j) ==
  /\ future' = [future EXCEPT ![j] = "none"]
  /\ flagged' = flagged \ {j}
  /\ step' = [step EXCEPT ![j] = "none"]
  /\ before' = [before EXCEPT ![j] = "recorded"]
  /\ outcome' = [outcome EXCEPT ![j] = "none"]

(* update_job(status="running"), outside of _run's try: when it fails the  *)
(* future ends and the row stays queued.                                   *)
MarkRunning(j) ==
  /\ step[j] = "starting"
  /\ \/ /\ row' = [row EXCEPT ![j] = "running"]
        /\ step' = [step EXCEPT ![j] = IF target[j] = Free THEN "setup" ELSE "locking"]
        /\ UNCHANGED <<future, flagged, before, outcome, faults, orphans>>
     \/ /\ Fault
        /\ Forget(j)
        /\ orphans' = orphans \cup {j}
        /\ UNCHANGED row
  /\ UNCHANGED <<target, config, status, mode, lock, handlers, crashes, accepted, abandoned>>

(* A job without a meeting: no lock and no status. *)
Setup(j) ==
  /\ step[j] = "setup"
  /\ \E end \in Terminal :
       /\ end = "cancelled" => j \in flagged
       /\ outcome' = [outcome EXCEPT ![j] = end]
  /\ step' = [step EXCEPT ![j] = "ending"]
  /\ UNCHANGED <<disk, mode, future, flagged, lock, handlers, before, bounds, history>>

(* The lock, the bundle read again, and status "processing".  (The bundle  *)
(* is there: AcceptedJobStands.)                                           *)
Open(j) ==
  LET m == target[j] IN
  /\ step[j] = "locking" /\ lock[m] = Free /\ config[m] # Deleted
  /\ lock' = [lock EXCEPT ![m] = j]
  /\ before' = [before EXCEPT ![j] = status[m]]
  /\ status' = [status EXCEPT ![m] = "processing"]
  /\ step' = [step EXCEPT ![j] = "stage"]
  /\ UNCHANGED <<row, target, config, mode, future, flagged, handlers, outcome, bounds, history>>

(* The job's function ends with `end`, the lock is released.               *)
EndStage(j, end) ==
  /\ lock' = [lock EXCEPT ![target[j]] = Free]
  /\ step' = [step EXCEPT ![j] = "ending"]
  /\ outcome' = [outcome EXCEPT ![j] = end]

(* The meeting's status becomes s, unless saving it fails.                 *)
SaveStatus(j, s) ==
  LET m == target[j] IN
  \/ /\ status' = [status EXCEPT ![m] = s]
     /\ abandoned' = IF s = "processing" THEN abandoned ELSE abandoned \ {m}
     /\ UNCHANGED faults
  \/ Fault /\ abandoned' = abandoned \cup {m} /\ UNCHANGED status

StageSucceeds(j) ==
  /\ step[j] = "stage"
  /\ {config[target[j]], accepted[j]} \cap Selected # {} => config[target[j]] = accepted[j]
  /\ SaveStatus(j, "ready")
  /\ EndStage(j, IF faults' = faults THEN "succeeded" ELSE "failed")
  /\ UNCHANGED <<row, target, config, mode, future, flagged, handlers, before,
                 crashes, accepted, orphans>>

(* An error of a stage, a changed configuration, a refused selection. *)
StageFails(j) ==
  /\ step[j] = "stage"
  /\ SaveStatus(j, "failed")
  /\ EndStage(j, "failed")
  /\ UNCHANGED <<row, target, config, mode, future, flagged, handlers, before,
                 crashes, accepted, orphans>>

StageCancelledUnrestored(j) ==  \* a plausible bug: the status is left as it is
  /\ step[j] = "stage" /\ j \in flagged
  /\ EndStage(j, "cancelled")
  /\ UNCHANGED <<disk, mode, future, flagged, handlers, before, bounds, history>>

(* A checkpoint sees the flag: the status from before the job comes back.  *)
StageCancelled(j) ==
  /\ step[j] = "stage" /\ j \in flagged
  /\ SaveStatus(j, before[j])
  /\ EndStage(j, "cancelled")
  /\ UNCHANGED <<row, target, config, mode, future, flagged, handlers, before,
                 crashes, accepted, orphans>>

FinishForgetsRow(j) ==  \* a plausible bug: the row of a failed job is not written
  /\ step[j] = "ending"
  /\ Forget(j)
  /\ row' = [row EXCEPT ![j] = IF outcome[j] = "failed" THEN @ ELSE outcome[j]]
  /\ UNCHANGED <<target, config, status, mode, lock, handlers, bounds, history>>

FinishKeepsFlag(j) ==  \* a plausible bug: the cancel event outlives the job
  /\ step[j] = "ending"
  /\ future' = [future EXCEPT ![j] = "none"]
  /\ step' = [step EXCEPT ![j] = "none"]
  /\ row' = [row EXCEPT ![j] = outcome[j]]
  /\ UNCHANGED <<target, config, status, mode, flagged, lock, handlers, before, outcome,
                 bounds, history>>

(* The row's end.  When success cannot be written the handler of that very *)
(* error writes failure, and may fail again.                               *)
Finish(j) ==
  /\ step[j] = "ending"
  /\ Forget(j)
  /\ \/ row' = [row EXCEPT ![j] = outcome[j]] /\ UNCHANGED <<faults, orphans>>
     \/ /\ outcome[j] = "succeeded" /\ Fault
        /\ row' = [row EXCEPT ![j] = "failed"]
        /\ UNCHANGED orphans
     \/ Fault /\ orphans' = orphans \cup {j} /\ UNCHANGED row
  /\ UNCHANGED <<target, config, status, mode, lock, handlers, crashes, accepted, abandoned>>

-----------------------------------------------------------------------------
(* The server *)

(* JobManager.shutdown: no more submissions, and the futures that have not *)
(* started are cancelled.                                                  *)
Close ==
  /\ mode = "up"
  /\ mode' = "closing"
  /\ future' = [j \in Job |-> IF future[j] = "pending" THEN "dropped" ELSE future[j]]
  /\ UNCHANGED <<disk, flagged, lock, handlers, worker, bounds, history>>

(* What the process held is gone. *)
Vanish ==
  /\ mode' = "down"
  /\ future' = [j \in Job |-> "none"]
  /\ flagged' = {}
  /\ lock' = [m \in Meeting |-> Free]
  /\ step' = [j \in Job |-> "none"]
  /\ before' = [j \in Job |-> "recorded"]
  /\ outcome' = [j \in Job |-> "none"]
  /\ cpc' = [c \in Caller |-> "idle"]
  /\ at' = [c \in Caller |-> Free]
  /\ seen' = [c \in Caller |-> Deleted]

Fail(jobs) == row' = [j \in Job |-> IF j \in jobs THEN "failed" ELSE row[j]]

(* The running job has ended; the rows of the dropped ones fail. *)
Exit ==
  /\ mode = "closing"
  /\ \A j \in Job : future[j] # "running"
  /\ Fail({j \in Job : future[j] = "dropped" /\ row[j] \in Active})
  /\ Vanish
  /\ UNCHANGED <<target, config, status, bounds, history>>

Crash ==
  /\ mode # "down" /\ crashes < MaxCrashes
  /\ crashes' = crashes + 1
  /\ abandoned' = abandoned \cup {target[j] : j \in {k \in Job : step[k] = "stage"}}
  /\ Vanish
  /\ UNCHANGED <<disk, faults, accepted, orphans>>

RestartFailingAll ==  \* a plausible bug: finished rows are marked as well
  /\ mode = "down"
  /\ mode' = "up"
  /\ Fail({j \in Job : row[j] # "none"})
  /\ UNCHANGED <<target, config, status, future, flagged, lock, handlers, worker, bounds, history>>

(* mark_stale_jobs *)
Restart ==
  /\ mode = "down"
  /\ mode' = "up"
  /\ Fail({j \in Job : row[j] \in Active})
  /\ UNCHANGED <<target, config, status, future, flagged, lock, handlers, worker, bounds, history>>

-----------------------------------------------------------------------------
Handle(c) ==
  \/ TakeLock(c) \/ GiveUp(c) \/ Recheck(c) \/ Raise(c)
  \/ SetConfig(c) \/ Delete(c) \/ Submit(c)

Work(j) ==
  \/ Start(j) \/ MarkRunning(j) \/ Setup(j) \/ Open(j)
  \/ StageSucceeds(j) \/ StageFails(j) \/ StageCancelled(j) \/ Finish(j)

Next ==
  \/ \E c \in Caller : Handle(c) \/ \E m \in Meeting : Begin(c, m)
  \/ \E j \in Job : Work(j) \/ CancelQueued(j) \/ CancelRunning(j)
  \/ SubmitSetup \/ Close \/ Exit \/ Crash \/ Restart

(* Handler and worker threads keep running, a stage ends (every external   *)
(* call it makes has a timeout), and a shutdown that has begun completes.  *)
Spec ==
  /\ Init /\ [][Next]_vars
  /\ \A c \in Caller : WF_vars(Handle(c))
  /\ \A j \in Job : WF_vars(Work(j))
  /\ WF_vars(Exit)

-----------------------------------------------------------------------------
(* Where jobs, callers, the worker and a meeting may stand. *)
TypeOK ==
  /\ row \in [Job -> {"none"} \cup Active \cup Terminal]
  /\ target \in [Job -> Meeting \cup {Free}]
  /\ config \in [Meeting -> Config \cup {Deleted}]
  /\ status \in [Meeting -> {"recorded", "processing", "ready", "failed"}]
  /\ mode \in {"up", "closing", "down"}
  /\ future \in [Job -> {"none", "pending", "running", "dropped"}]
  /\ flagged \subseteq {j \in Job : future[j] = "running"}
  /\ lock \in [Meeting -> Job \cup Caller \cup {Free}]
  /\ step \in [Job -> {"none", "starting", "setup", "locking", "stage", "ending"}]
  /\ before \in [Job -> {"recorded", "processing", "ready", "failed"}]
  /\ outcome \in [Job -> {"none"} \cup Terminal]
  /\ cpc \in [Caller -> {"idle", "locking", "locked", "writing"}]
  /\ at \in [Caller -> Meeting \cup {Free}]
  /\ seen \in [Caller -> Config \cup {Deleted}]
  /\ crashes \in 0 .. MaxCrashes /\ faults \in 0 .. MaxFaults
  /\ accepted \in [Job -> Config \cup {Deleted}]
  /\ orphans \subseteq Job /\ abandoned \subseteq Meeting

(* "One meeting has at most one queued / running job" (jobs.py:109): no    *)
(* two rows of a meeting are ever active, whichever handlers passed their  *)
(* first check together and whatever rows failed writes left behind.  And  *)
(* a waiting handler's "pre-lock checks must not authorize a later write   *)
(* over the accepted job config" (common.py:104-105): from its acceptance  *)
(* to its end a job's meeting is there and configured as it was accepted.  *)
AcceptedJobStands ==
  /\ \A j, k \in Job :
       j # k /\ row[j] \in Active /\ row[k] \in Active /\ target[j] \in Meeting
         => target[j] # target[k]
  /\ \A j \in Job :
       target[j] \in Meeting /\ (Alive(j) \/ row[j] \in Active)
         => config[target[j]] = accepted[j]

(* A finished job's row never changes again: neither a cancellation, the   *)
(* shutdown's reconciliation nor a restart overwrites a result.            *)
FinishedIsFinal ==
  [][\A j \in Job : row[j] \in Terminal => row'[j] = row[j]]_vars

(* What the server says of its work is true across crashes and restarts:   *)
(* after a start, an active row belongs to a job this process will finish, *)
(* unless a write of its own row failed; and a meeting shows "processing"  *)
(* only while its job is at work, or since a death or a failed write       *)
(* interrupted that job, so a cancellation brings the earlier status back. *)
ShownWorkIsReal ==
  /\ mode = "up" => \A j \in Job : row[j] \in Active => Alive(j) \/ j \in orphans
  /\ \A m \in Meeting :
       status[m] = "processing" =>
         m \in abandoned \/ \E j \in Job : target[j] = m /\ step[j] = "stage"

(* An accepted job ends while the server runs: neither the locks of        *)
(* handlers, a cancellation nor a shutdown leaves its row active.  And     *)
(* every handler returns, with busy when a job has the lock.               *)
WorkEnds ==
  /\ \A j \in Job :
       row[j] \in Active ~> row[j] \in Terminal \/ j \in orphans \/ mode = "down"
  /\ \A c \in Caller : cpc[c] # "idle" ~> cpc[c] = "idle"
=============================================================================
