--------------------------- MODULE MeetingJobsProofs ---------------------------
(***************************************************************************)
(* Proofs about MeetingJobs, for any number of meetings, handlers, jobs,   *)
(* deaths and failed writes: the types, AcceptedJobStands, ShownWorkIsReal *)
(* and FinishedIsFinal hold of the specification.                          *)
(*                                                                         *)
(* Neither AcceptedJobStands nor ShownWorkIsReal is inductive.  That a     *)
(* configuration is never written under an accepted job rests on what a    *)
(* handler knows between its second check and its write (WritersAreAlone), *)
(* which rests on the lock being its own (Locks) and on a worker being in  *)
(* a stage only under the same lock (Steps); that a row that is active has *)
(* a job to end it rests on what a future and a step say of the row        *)
(* (WorkHasRow, Ends); and a cancelled job may bring "processing" back     *)
(* only where a death left it (Interrupted).                               *)
(***************************************************************************)
EXTENDS MeetingJobs, TLAPS

(* The worker is in the one job that runs, and an ending job has a result. *)
Steps ==
  \A j \in Job :
    /\ step[j] # "none" <=> future[j] = "running"
    /\ step[j] \in {"locking", "stage"} => target[j] \in Meeting
    /\ step[j] = "stage" => lock[target[j]] = j

Ends == \A j \in Job : step[j] = "ending" => outcome[j] \in Terminal

(* A handler in a call has a meeting, and its lock once it was given it. *)
Locks ==
  \A c \in Caller :
    /\ cpc[c] # "idle" => at[c] \in Meeting
    /\ cpc[c] \in {"locked", "writing"} => lock[at[c]] = c

(* A handler that may write is at a meeting that is there and has no job. *)
WritersAreAlone ==
  \A c \in Caller : cpc[c] = "writing" =>
    /\ config[at[c]] # Deleted
    /\ ~HasActive(at[c])

(* What a live job has in the catalog is not an end, and a server that is *)
(* down has no jobs.                                                       *)
WorkHasRow ==
  \A j \in Job :
    /\ Alive(j) => row[j] \in Active
    /\ mode = "down" => future[j] = "none"

(* A meeting has one job, which stands as it was accepted. *)
OneJob ==
  /\ \A j, k \in Job :
       j # k /\ row[j] \in Active /\ row[k] \in Active /\ target[j] \in Meeting
         => target[j] # target[k]
  /\ \A j \in Job : target[j] \in Meeting /\ row[j] \in Active => config[target[j]] = accepted[j]

(* The status a job would bring back was itself left by a death. *)
Interrupted ==
  \A j \in Job : step[j] = "stage" /\ before[j] = "processing" => target[j] \in abandoned

IInv ==
  /\ TypeOK /\ Ends /\ Steps /\ Locks /\ WritersAreAlone /\ WorkHasRow /\ OneJob
  /\ ShownWorkIsReal /\ Interrupted

(* At first no job is known, no lock held and no meeting shown at work. *)
LEMMA InitIInv == Init => IInv
<1> SUFFICES ASSUME Init PROVE IInv
  OBVIOUS
<1>1. TypeOK
  BY JobsAssumption DEF Init, TypeOK
<1>2. Ends
  BY DEF Init, Ends
<1>3. Steps
  BY DEF Init, Steps
<1>4. Locks
  BY DEF Init, Locks
<1>5. WritersAreAlone
  BY DEF Init, WritersAreAlone
<1>6. WorkHasRow
  BY DEF Init, Alive, WorkHasRow
<1>7. OneJob
  BY JobsAssumption DEF Init, OneJob
<1>8. ShownWorkIsReal
  BY DEF Init, Active, ShownWorkIsReal
<1>9. Interrupted
  BY DEF Init, Interrupted
<1> QED
  BY <1>1, <1>2, <1>3, <1>4, <1>5, <1>6, <1>7, <1>8, <1>9 DEF IInv

(* A handler enters a call; what its checks saw is not relied upon. *)
LEMMA BeginKeeps ==
  ASSUME IInv, NEW c \in Caller, NEW m \in Meeting, Begin(c, m)
  PROVE  IInv'
<1>1. (Ends /\ Steps /\ WorkHasRow /\ OneJob /\ ShownWorkIsReal /\ Interrupted)'
  BY DEF Begin, Alive, disk, worker, history, IInv, Ends, Steps, WorkHasRow, OneJob,
         ShownWorkIsReal, Interrupted
<1>2. TypeOK'
  BY DEF Begin, disk, worker, bounds, history, IInv, TypeOK
<1>3. Locks'
  BY DEF Begin, IInv, Locks, TypeOK
<1>4. WritersAreAlone'
  BY DEF Begin, HasActive, Alive, disk, IInv, WritersAreAlone
<1> QED
  BY <1>1, <1>2, <1>3, <1>4 DEF IInv

(* A handler is given a lock that nobody holds. *)
LEMMA TakeLockKeeps ==
  ASSUME IInv, NEW c \in Caller, TakeLock(c)
  PROVE  IInv'
<1>1. (Ends /\ WorkHasRow /\ OneJob /\ ShownWorkIsReal /\ Interrupted)'
  BY DEF TakeLock, disk, worker, history, IInv, Ends, WorkHasRow, Alive, OneJob,
         ShownWorkIsReal, Interrupted
<1>2. TypeOK'
  BY DEF TakeLock, disk, worker, bounds, history, IInv, TypeOK, Locks
<1>3. Steps'
  BY JobsAssumption DEF TakeLock, disk, worker, IInv, Steps
<1>4. Locks'
  BY JobsAssumption DEF TakeLock, IInv, Locks, TypeOK
<1>5. WritersAreAlone'
  BY DEF TakeLock, disk, IInv, WritersAreAlone, HasActive, Alive
<1> QED
  BY <1>1, <1>2, <1>3, <1>4, <1>5 DEF IInv

(* A handler that waited too long for the lock returns. *)
LEMMA GiveUpKeeps ==
  ASSUME IInv, NEW c \in Caller, GiveUp(c)
  PROVE  IInv'
<1>1. (Ends /\ Steps /\ WorkHasRow /\ OneJob /\ ShownWorkIsReal /\ Interrupted)'
  BY DEF GiveUp, disk, worker, history, IInv, Ends, Steps, WorkHasRow, Alive, OneJob,
         ShownWorkIsReal, Interrupted
<1>2. TypeOK'
  BY DEF GiveUp, Return, disk, worker, bounds, history, IInv, TypeOK
<1>3. Locks'
  BY DEF GiveUp, Return, IInv, Locks, TypeOK
<1>4. WritersAreAlone'
  BY DEF GiveUp, Return, disk, IInv, WritersAreAlone, HasActive, Alive
<1> QED
  BY <1>1, <1>2, <1>3, <1>4 DEF IInv

(* Under the lock the meeting is looked at again: from here on it is there *)
(* and has no job.                                                         *)
LEMMA RecheckKeeps ==
  ASSUME IInv, NEW c \in Caller, Recheck(c)
  PROVE  IInv'
<1>1. (Ends /\ Steps /\ WorkHasRow /\ OneJob /\ ShownWorkIsReal /\ Interrupted)'
  BY DEF Recheck, Alive, disk, worker, history, IInv, Ends, Steps, WorkHasRow, OneJob,
         ShownWorkIsReal, Interrupted
<1>2. TypeOK'
  BY DEF Recheck, disk, worker, bounds, history, IInv, TypeOK
<1>3. Locks'
  BY DEF Recheck, IInv, Locks
<1>4. WritersAreAlone'
  BY DEF Recheck, HasActive, Alive, disk, IInv, WritersAreAlone
<1> QED
  BY <1>1, <1>2, <1>3, <1>4 DEF IInv

(* A handler that refuses returns its lock. *)
LEMMA RaiseKeeps ==
  ASSUME IInv, NEW c \in Caller, Raise(c)
  PROVE  IInv'
<1>1. (Ends /\ WorkHasRow /\ OneJob /\ ShownWorkIsReal /\ Interrupted)'
  BY DEF Raise, disk, worker, history, IInv, Ends, WorkHasRow, Alive, OneJob, ShownWorkIsReal,
         Interrupted
<1>2. TypeOK'
  BY DEF Raise, Leave, Return, disk, worker, bounds, history, IInv, TypeOK, Locks
<1>3. Steps'
  BY JobsAssumption DEF Raise, Leave, disk, worker, IInv, Steps, Locks
<1>4. Locks'
  BY DEF Raise, Leave, Return, IInv, Locks, TypeOK
<1>5. WritersAreAlone'
  BY DEF Raise, Leave, Return, disk, IInv, WritersAreAlone, HasActive, Alive, TypeOK
<1> QED
  BY <1>1, <1>2, <1>3, <1>4, <1>5 DEF IInv

(* A configuration is written while no job of the meeting is active. *)
LEMMA SetConfigKeeps ==
  ASSUME IInv, NEW c \in Caller, SetConfig(c)
  PROVE  IInv'
<1>1. (Ends /\ WorkHasRow /\ ShownWorkIsReal /\ Interrupted)'
  BY DEF SetConfig, worker, history, IInv, Ends, WorkHasRow, Alive, ShownWorkIsReal, Interrupted
<1>2. TypeOK'
  BY DEF SetConfig, Leave, Return, worker, bounds, history, IInv, TypeOK, Locks
<1>3. Steps'
  BY JobsAssumption DEF SetConfig, Leave, worker, IInv, Steps, Locks
<1>4. Locks'
  BY DEF SetConfig, Leave, Return, IInv, Locks, TypeOK
<1>5. WritersAreAlone'
  BY JobsAssumption
    DEF SetConfig, Leave, Return, IInv, WritersAreAlone, HasActive, Alive, TypeOK
<1>6. OneJob'
  BY DEF SetConfig, history, IInv, OneJob, WritersAreAlone, HasActive
<1> QED
  BY <1>1, <1>2, <1>3, <1>4, <1>5, <1>6 DEF IInv

(* A meeting is deleted while no job of it is active. *)
LEMMA DeleteKeeps ==
  ASSUME IInv, NEW c \in Caller, Delete(c)
  PROVE  IInv'
<1>1. (Ends /\ WorkHasRow /\ ShownWorkIsReal /\ Interrupted)'
  BY DEF Delete, worker, history, IInv, Ends, WorkHasRow, Alive, ShownWorkIsReal, Interrupted
<1>2. TypeOK'
  BY DEF Delete, Leave, Return, worker, bounds, history, IInv, TypeOK, Locks
<1>3. Steps'
  BY JobsAssumption DEF Delete, Leave, worker, IInv, Steps, Locks
<1>4. Locks'
  BY DEF Delete, Leave, Return, IInv, Locks, TypeOK
<1>5. WritersAreAlone'
  BY DEF Delete, Leave, Return, IInv, WritersAreAlone, HasActive, Alive, TypeOK, Locks
<1>6. OneJob'
  BY DEF Delete, history, IInv, OneJob, WritersAreAlone, HasActive
<1> QED
  BY <1>1, <1>2, <1>3, <1>4, <1>5, <1>6 DEF IInv

(* A job is given a row that was never used and has no future. *)
LEMMA EnqueuedIsNew ==
  ASSUME IInv, NEW j \in Job, NEW m, NEW setting, Enqueue(j, m, setting)
  PROVE  row[j] = "none" /\ step[j] = "none" /\ ~Alive(j)
<1>1. row[j] = "none"
  BY DEF Enqueue, Job
<1>2. QED
  BY <1>1 DEF IInv, Steps, WorkHasRow, Alive, Active

(* A job is accepted under the lock of a meeting that has none. *)
LEMMA SubmitKeeps ==
  ASSUME IInv, NEW c \in Caller, Submit(c)
  PROVE  IInv'
<1>1. PICK j \in Job : Enqueue(j, at[c], config[at[c]])
  BY DEF Submit
<1>2. row[j] = "none" /\ step[j] = "none" /\ ~Alive(j)
  BY <1>1, EnqueuedIsNew
<1>3. TypeOK'
  BY <1>1, <1>2
    DEF Submit, Enqueue, Leave, Return, worker, bounds, IInv, TypeOK, Steps, Locks, Active
<1>4. Ends'
  BY DEF Submit, worker, IInv, Ends
<1>5. Steps'
  BY <1>1, <1>2, JobsAssumption DEF Submit, Enqueue, Leave, worker, IInv, Steps, Locks
<1>6. Locks'
  BY DEF Submit, Leave, Return, IInv, TypeOK, Locks
<1>7. WritersAreAlone'
  BY DEF Submit, Enqueue, Leave, Return, IInv, TypeOK, Locks, WritersAreAlone, HasActive, Alive
<1>8. WorkHasRow'
  BY DEF Submit, Enqueue, IInv, TypeOK, WorkHasRow, Alive, Active
<1>9. OneJob'
  BY DEF Submit, Enqueue, IInv, TypeOK, WritersAreAlone, OneJob, HasActive
<1>10. ShownWorkIsReal'
  BY <1>1, <1>2 DEF Submit, Enqueue, worker, IInv, TypeOK, ShownWorkIsReal, Alive
<1>11. Interrupted'
  BY <1>1, <1>2 DEF Submit, Enqueue, worker, IInv, Interrupted
<1> QED
  BY <1>3, <1>4, <1>5, <1>6, <1>7, <1>8, <1>9, <1>10, <1>11 DEF IInv

(* A job without a meeting is accepted beside every other. *)
LEMMA SubmitSetupKeeps ==
  ASSUME IInv, SubmitSetup
  PROVE  IInv'
<1>1. PICK j \in Job : Enqueue(j, Free, Deleted)
  BY DEF SubmitSetup
<1>2. row[j] = "none" /\ step[j] = "none" /\ ~Alive(j)
  BY <1>1, EnqueuedIsNew
<1>3. TypeOK'
  BY <1>1, <1>2 DEF SubmitSetup, Enqueue, handlers, worker, bounds, IInv, TypeOK, Alive, Active
<1>4. Ends'
  BY DEF SubmitSetup, worker, IInv, Ends
<1>5. Steps'
  BY <1>1, <1>2 DEF SubmitSetup, Enqueue, worker, IInv, Steps
<1>6. Locks'
  BY DEF SubmitSetup, handlers, IInv, Locks
<1>7. WritersAreAlone'
  BY JobsAssumption
    DEF SubmitSetup, Enqueue, handlers, IInv, TypeOK, Locks, WritersAreAlone, HasActive, Alive
<1>8. WorkHasRow'
  BY DEF SubmitSetup, Enqueue, IInv, TypeOK, WorkHasRow, Alive, Active
<1>9. OneJob'
  BY JobsAssumption DEF SubmitSetup, Enqueue, IInv, TypeOK, OneJob
<1>10. ShownWorkIsReal'
  BY <1>1, <1>2 DEF SubmitSetup, Enqueue, worker, IInv, TypeOK, ShownWorkIsReal, Alive
<1>11. Interrupted'
  BY <1>1, <1>2 DEF SubmitSetup, Enqueue, worker, IInv, Interrupted
<1> QED
  BY <1>3, <1>4, <1>5, <1>6, <1>7, <1>8, <1>9, <1>10, <1>11 DEF IInv

(* A queued job is cancelled: its future goes and its row ends. *)
LEMMA CancelQueuedKeeps ==
  ASSUME IInv, NEW j \in Job, CancelQueued(j)
  PROVE  IInv'
<1>1. (Ends /\ Locks /\ Interrupted)'
  BY DEF CancelQueued, handlers, worker, IInv, Ends, Locks, Interrupted
<1>2. TypeOK'
  BY JobsAssumption DEF CancelQueued, Fault, handlers, worker, IInv, TypeOK, Terminal
<1>3. Steps'
  BY DEF CancelQueued, worker, IInv, Steps
<1>4. WritersAreAlone'
  BY DEF CancelQueued, handlers, IInv, WritersAreAlone, HasActive, Alive, TypeOK
<1>5. WorkHasRow'
  BY DEF CancelQueued, IInv, WorkHasRow, Alive, TypeOK
<1>6. OneJob'
  BY DEF CancelQueued, IInv, OneJob, TypeOK
<1>7. ShownWorkIsReal'
  BY DEF CancelQueued, Active, worker, IInv, ShownWorkIsReal, Alive, TypeOK
<1> QED
  BY <1>1, <1>2, <1>3, <1>4, <1>5, <1>6, <1>7 DEF IInv

(* A running job is only told that it is cancelled. *)
LEMMA CancelRunningKeeps ==
  ASSUME IInv, NEW j \in Job, CancelRunning(j)
  PROVE  IInv'
<1>1. (/\ Ends /\ Steps /\ Locks /\ WritersAreAlone /\ WorkHasRow /\ OneJob
       /\ ShownWorkIsReal /\ Interrupted)'
  BY DEF CancelRunning, disk, handlers, worker, history, IInv, Ends, Steps, Locks,
         WritersAreAlone, HasActive, Alive, WorkHasRow, OneJob, ShownWorkIsReal, Interrupted
<1>2. TypeOK'
  BY DEF CancelRunning, disk, handlers, worker, bounds, history, IInv, TypeOK
<1> QED
  BY <1>1, <1>2 DEF IInv

(* The worker takes a queued job when it has none. *)
LEMMA StartKeeps ==
  ASSUME IInv, NEW j \in Job, Start(j)
  PROVE  IInv'
<1>1. (Locks /\ OneJob)'
  BY DEF Start, disk, handlers, history, IInv, Locks, OneJob
<1>2. TypeOK'
  BY DEF Start, disk, handlers, bounds, history, IInv, TypeOK
<1>3. Ends'
  BY DEF Start, IInv, Ends
<1>4. Steps'
  BY DEF Start, IInv, Steps, TypeOK
<1>5. WritersAreAlone'
  BY DEF Start, disk, handlers, IInv, WritersAreAlone, HasActive, Alive
<1>6. WorkHasRow'
  BY DEF Start, disk, IInv, WorkHasRow, Alive
<1>7. ShownWorkIsReal'
  BY DEF Start, disk, history, IInv, ShownWorkIsReal, Alive, Steps
<1>8. Interrupted'
  BY DEF Start, disk, history, IInv, Interrupted
<1> QED
  BY <1>1, <1>2, <1>3, <1>4, <1>5, <1>6, <1>7, <1>8 DEF IInv

(* The row is marked as running, or cannot be written and the job leaves *)
(* the manager with its row still queued: an orphan.                     *)
LEMMA MarkRunningKeeps ==
  ASSUME IInv, NEW j \in Job, MarkRunning(j)
  PROVE  IInv'
<1>1. Locks'
  BY DEF MarkRunning, handlers, IInv, Locks
<1>2. TypeOK'
  <2>1. CASE row' = [row EXCEPT ![j] = "running"] /\ UNCHANGED <<future, flagged>>
    BY JobsAssumption DEF MarkRunning, Fault, Forget, handlers, IInv, TypeOK, Active
  <2>2. CASE Fault /\ Forget(j)
    BY <2>2, JobsAssumption DEF MarkRunning, Fault, Forget, handlers, IInv, TypeOK
  <2> QED
    BY <2>1, <2>2 DEF MarkRunning
<1>3. Ends'
  BY DEF MarkRunning, Forget, IInv, Ends, TypeOK
<1>4. Steps'
  BY DEF MarkRunning, Forget, IInv, Steps, TypeOK
<1>5. WritersAreAlone'
  BY DEF MarkRunning, Forget, handlers, IInv, WritersAreAlone, HasActive, Alive, TypeOK, Steps
<1>6. WorkHasRow'
  BY DEF MarkRunning, Forget, IInv, WorkHasRow, Alive, Active, TypeOK
<1>7. OneJob'
  BY DEF MarkRunning, IInv, OneJob, Active, TypeOK, Steps, Alive, WorkHasRow
<1>8. ShownWorkIsReal'
  BY DEF MarkRunning, Forget, IInv, ShownWorkIsReal, Alive, TypeOK, Steps
<1>9. Interrupted'
  BY DEF MarkRunning, Forget, IInv, Interrupted, TypeOK
<1> QED
  BY <1>1, <1>2, <1>3, <1>4, <1>5, <1>6, <1>7, <1>8, <1>9 DEF IInv

(* A job without a meeting has its outcome. *)
LEMMA SetupKeeps ==
  ASSUME IInv, NEW j \in Job, Setup(j)
  PROVE  IInv'
<1>1. (Locks /\ WritersAreAlone /\ WorkHasRow /\ OneJob)'
  BY DEF Setup, disk, handlers, history, IInv, Locks, WritersAreAlone, HasActive, Alive,
         WorkHasRow, OneJob
<1>2. TypeOK'
  BY DEF Setup, disk, handlers, bounds, history, IInv, TypeOK
<1>3. Ends'
  BY DEF Setup, IInv, Ends, TypeOK
<1>4. Steps'
  BY DEF Setup, disk, IInv, Steps
<1>5. ShownWorkIsReal'
  BY DEF Setup, disk, history, IInv, ShownWorkIsReal, Alive
<1>6. Interrupted'
  BY DEF Setup, disk, history, IInv, Interrupted
<1> QED
  BY <1>1, <1>2, <1>3, <1>4, <1>5, <1>6 DEF IInv

(* A job takes the lock of its meeting and shows it as being processed. *)
LEMMA OpenKeeps ==
  ASSUME IInv, NEW j \in Job, Open(j)
  PROVE  IInv'
<1>1. (WritersAreAlone /\ WorkHasRow /\ OneJob)'
  BY DEF Open, handlers, history, IInv, WritersAreAlone, HasActive, Alive, WorkHasRow, OneJob
<1>2. TypeOK'
  BY DEF Open, handlers, bounds, history, IInv, TypeOK, Steps
<1>3. Ends'
  BY DEF Open, IInv, Ends
<1>4. Steps'
  BY JobsAssumption DEF Open, IInv, Steps, TypeOK
<1>5. Locks'
  BY JobsAssumption DEF Open, handlers, IInv, Locks
<1>6. ShownWorkIsReal'
  BY DEF Open, history, IInv, ShownWorkIsReal, Alive, TypeOK
<1>7. Interrupted'
  BY JobsAssumption DEF Open, history, IInv, Interrupted, TypeOK, Steps, ShownWorkIsReal
<1> QED
  BY <1>1, <1>2, <1>3, <1>4, <1>5, <1>6, <1>7 DEF IInv

(* A stage ends well: only the job's own meeting leaves "processing". *)
LEMMA StageSucceedsKeeps ==
  ASSUME IInv, NEW j \in Job, StageSucceeds(j)
  PROVE  IInv'
<1>1. (WritersAreAlone /\ WorkHasRow /\ OneJob)'
  BY DEF StageSucceeds, handlers, IInv, WritersAreAlone, HasActive, Alive, WorkHasRow, OneJob
<1>2. TypeOK'
  BY JobsAssumption
    DEF StageSucceeds, SaveStatus, Fault, EndStage, handlers, IInv, TypeOK, Terminal, Steps
<1>3. Ends'
  BY DEF StageSucceeds, EndStage, IInv, Ends, Terminal, TypeOK
<1>4. Steps'
  BY DEF StageSucceeds, EndStage, IInv, Steps, TypeOK
<1>5. Locks'
  BY JobsAssumption DEF StageSucceeds, EndStage, handlers, IInv, Locks, Steps
<1>6. ShownWorkIsReal'
  <2>1. mode' = "up" => \A k \in Job : row'[k] \in Active => Alive(k)' \/ k \in orphans'
    BY DEF StageSucceeds, IInv, ShownWorkIsReal, Alive
  <2>2. ASSUME NEW m \in Meeting, status'[m] = "processing", m \notin abandoned'
        PROVE  m # target[j] /\ status[m] = "processing" /\ m \notin abandoned
    BY <2>2 DEF StageSucceeds, SaveStatus, IInv, TypeOK
  <2>3. ASSUME NEW m \in Meeting, status'[m] = "processing", m \notin abandoned'
        PROVE  \E k \in Job : target'[k] = m /\ step'[k] = "stage"
    <3>1. PICK k \in Job : target[k] = m /\ step[k] = "stage"
      BY <2>2, <2>3 DEF IInv, ShownWorkIsReal
    <3>2. QED
      BY <2>2, <2>3, <3>1 DEF StageSucceeds, EndStage
  <2> QED
    BY <2>1, <2>3 DEF ShownWorkIsReal
<1>7. Interrupted'
  BY DEF StageSucceeds, SaveStatus, EndStage, IInv, Interrupted, TypeOK, Steps
<1> QED
  BY <1>1, <1>2, <1>3, <1>4, <1>5, <1>6, <1>7 DEF IInv

(* A stage fails: only the job's own meeting leaves "processing". *)
LEMMA StageFailsKeeps ==
  ASSUME IInv, NEW j \in Job, StageFails(j)
  PROVE  IInv'
<1>1. (WritersAreAlone /\ WorkHasRow /\ OneJob)'
  BY DEF StageFails, handlers, IInv, WritersAreAlone, HasActive, Alive, WorkHasRow, OneJob
<1>2. TypeOK'
  BY JobsAssumption
    DEF StageFails, SaveStatus, Fault, EndStage, handlers, IInv, TypeOK, Terminal, Steps
<1>3. Ends'
  BY DEF StageFails, EndStage, IInv, Ends, Terminal, TypeOK
<1>4. Steps'
  BY DEF StageFails, EndStage, IInv, Steps, TypeOK
<1>5. Locks'
  BY JobsAssumption DEF StageFails, EndStage, handlers, IInv, Locks, Steps
<1>6. ShownWorkIsReal'
  BY DEF StageFails, SaveStatus, EndStage, IInv, ShownWorkIsReal, Alive, TypeOK
<1>7. Interrupted'
  BY DEF StageFails, SaveStatus, EndStage, IInv, Interrupted, TypeOK, Steps
<1> QED
  BY <1>1, <1>2, <1>3, <1>4, <1>5, <1>6, <1>7 DEF IInv

(* A cancelled stage brings the status from before the job back, which is *)
(* "processing" only where a death had left it.                           *)
LEMMA StageCancelledKeeps ==
  ASSUME IInv, NEW j \in Job, StageCancelled(j)
  PROVE  IInv'
<1>1. (WritersAreAlone /\ WorkHasRow /\ OneJob)'
  BY DEF StageCancelled, handlers, IInv, WritersAreAlone, HasActive, Alive, WorkHasRow, OneJob
<1>2. TypeOK'
  BY JobsAssumption
    DEF StageCancelled, SaveStatus, Fault, EndStage, handlers, IInv, TypeOK, Terminal, Steps
<1>3. Ends'
  BY DEF StageCancelled, EndStage, IInv, Ends, Terminal, TypeOK
<1>4. Steps'
  BY DEF StageCancelled, EndStage, IInv, Steps, TypeOK
<1>5. Locks'
  BY JobsAssumption DEF StageCancelled, EndStage, handlers, IInv, Locks, Steps
<1>6. ShownWorkIsReal'
  BY DEF StageCancelled, SaveStatus, EndStage, IInv, ShownWorkIsReal, Alive, TypeOK, Interrupted
<1>7. Interrupted'
  BY DEF StageCancelled, SaveStatus, EndStage, IInv, Interrupted, Steps
<1> QED
  BY <1>1, <1>2, <1>3, <1>4, <1>5, <1>6, <1>7 DEF IInv

(* The outcome is written and the job leaves the manager. *)
LEMMA FinishKeeps ==
  ASSUME IInv, NEW j \in Job, Finish(j)
  PROVE  IInv'
<1>1. Locks'
  BY DEF Finish, handlers, IInv, Locks
<1>2. TypeOK'
  BY JobsAssumption DEF Finish, Forget, Fault, handlers, IInv, TypeOK, Terminal
<1>3. Ends'
  BY DEF Finish, Forget, IInv, Ends, TypeOK
<1>4. Steps'
  BY DEF Finish, Forget, IInv, Steps, TypeOK
<1>5. WritersAreAlone'
  BY DEF Finish, Forget, handlers, IInv, WritersAreAlone, HasActive, Alive, Active, TypeOK,
         Terminal
<1>6. WorkHasRow'
  BY DEF Finish, Forget, IInv, WorkHasRow, Alive, TypeOK
<1>7. OneJob'
  BY DEF Finish, IInv, OneJob, Active, TypeOK, Terminal
<1>8. ShownWorkIsReal'
  BY DEF Finish, Forget, IInv, ShownWorkIsReal, Active, Alive, TypeOK, Terminal
<1>9. Interrupted'
  BY DEF Finish, Forget, IInv, Interrupted
<1> QED
  BY <1>1, <1>2, <1>3, <1>4, <1>5, <1>6, <1>7, <1>8, <1>9 DEF IInv

(* The manager closes: queued jobs lose their futures. *)
LEMMA CloseKeeps ==
  ASSUME IInv, Close
  PROVE  IInv'
<1>1. (Ends /\ Locks /\ OneJob /\ Interrupted)'
  BY DEF Close, disk, handlers, worker, history, IInv, Ends, Locks, OneJob, Interrupted
<1>2. TypeOK'
  BY DEF Close, disk, handlers, worker, bounds, history, IInv, TypeOK
<1>3. Steps'
  BY DEF Close, disk, worker, IInv, Steps
<1>4. WritersAreAlone'
  BY DEF Close, disk, handlers, IInv, WritersAreAlone, HasActive, Alive
<1>5. WorkHasRow'
  BY DEF Close, disk, IInv, WorkHasRow, Alive
<1>6. ShownWorkIsReal'
  BY DEF Close, disk, worker, history, IInv, ShownWorkIsReal
<1> QED
  BY <1>1, <1>2, <1>3, <1>4, <1>5, <1>6 DEF IInv

(* The process ends in order: the rows it owned have ended. *)
LEMMA ExitKeeps ==
  ASSUME IInv, Exit
  PROVE  IInv'
<1>1. TypeOK'
  BY DEF Exit, Fail, Vanish, bounds, history, IInv, TypeOK, Terminal
<1>2. Ends'
  BY DEF Exit, Vanish, Ends
<1>3. Steps'
  BY DEF Exit, Vanish, Steps
<1>4. Locks'
  BY DEF Exit, Vanish, Locks
<1>5. WritersAreAlone'
  BY DEF Exit, Vanish, WritersAreAlone
<1>6. WorkHasRow'
  BY DEF Exit, Vanish, WorkHasRow, Alive
<1>7. OneJob'
  BY DEF Exit, Fail, history, IInv, OneJob
<1>8. ShownWorkIsReal'
  BY DEF Exit, Vanish, history, IInv, ShownWorkIsReal, Steps
<1>9. Interrupted'
  BY DEF Exit, Vanish, Interrupted
<1> QED
  BY <1>1, <1>2, <1>3, <1>4, <1>5, <1>6, <1>7, <1>8, <1>9 DEF IInv

(* The process dies: rows, files and statuses stay as they were. *)
LEMMA CrashKeeps ==
  ASSUME IInv, Crash
  PROVE  IInv'
<1>1. (OneJob)'
  BY DEF Crash, disk, IInv, OneJob
<1>2. TypeOK'
  BY JobsAssumption DEF Crash, Vanish, disk, IInv, TypeOK, Steps
<1>3. Ends'
  BY DEF Crash, Vanish, Ends
<1>4. Steps'
  BY DEF Crash, Vanish, Steps
<1>5. Locks'
  BY DEF Crash, Vanish, Locks
<1>6. WritersAreAlone'
  BY DEF Crash, Vanish, WritersAreAlone
<1>7. WorkHasRow'
  BY DEF Crash, Vanish, WorkHasRow, Alive
<1>8. ShownWorkIsReal'
  BY DEF Crash, Vanish, disk, IInv, ShownWorkIsReal
<1>9. Interrupted'
  BY DEF Crash, Vanish, Interrupted
<1> QED
  BY <1>1, <1>2, <1>3, <1>4, <1>5, <1>6, <1>7, <1>8, <1>9 DEF IInv

(* A start ends every active row before anything else. *)
LEMMA RestartKeeps ==
  ASSUME IInv, Restart
  PROVE  IInv'
<1>1. (Ends /\ Steps /\ Locks /\ Interrupted)'
  BY DEF Restart, handlers, worker, history, IInv, Ends, Steps, Locks, Interrupted
<1>2. TypeOK'
  BY DEF Restart, Fail, handlers, worker, bounds, history, IInv, TypeOK, Terminal
<1>3. WritersAreAlone'
  BY DEF Restart, Fail, handlers, IInv, WritersAreAlone, HasActive, Alive
<1>4. WorkHasRow'
  BY DEF Restart, IInv, WorkHasRow, Alive
<1>5. OneJob'
  BY DEF Restart, Fail, Active, OneJob
<1>6. ShownWorkIsReal'
  BY DEF Restart, Fail, Active, worker, history, IInv, ShownWorkIsReal
<1> QED
  BY <1>1, <1>2, <1>3, <1>4, <1>5, <1>6 DEF IInv

(* A step that changes no variable keeps the invariant. *)
LEMMA StutterKeeps ==
  ASSUME IInv, UNCHANGED vars
  PROVE  IInv'
<1>1. (/\ TypeOK /\ Ends /\ Steps /\ Locks /\ WritersAreAlone /\ WorkHasRow /\ OneJob
       /\ ShownWorkIsReal /\ Interrupted)'
  BY DEF vars, disk, handlers, worker, bounds, history, IInv, TypeOK, Ends, Steps, Locks,
         WritersAreAlone, HasActive, Alive, WorkHasRow, OneJob, ShownWorkIsReal, Interrupted
<1> QED
  BY <1>1 DEF IInv


(* So does every step of the server, of its handlers and of its worker. *)
LEMMA NextKeeps == ASSUME IInv, [Next]_vars PROVE IInv'
<1>1. ASSUME NEW c \in Caller, Handle(c) \/ \E m \in Meeting : Begin(c, m) PROVE IInv'
  BY <1>1, BeginKeeps, TakeLockKeeps, GiveUpKeeps, RecheckKeeps, RaiseKeeps, SetConfigKeeps,
     DeleteKeeps, SubmitKeeps
    DEF Handle
<1>2. ASSUME NEW j \in Job, Work(j) \/ CancelQueued(j) \/ CancelRunning(j) PROVE IInv'
  BY <1>2, CancelQueuedKeeps, CancelRunningKeeps, StartKeeps, MarkRunningKeeps, SetupKeeps,
     OpenKeeps, StageSucceedsKeeps, StageFailsKeeps, StageCancelledKeeps, FinishKeeps
    DEF Work
<1>3. CASE SubmitSetup \/ Close \/ Exit \/ Crash \/ Restart \/ UNCHANGED vars
  BY <1>3, SubmitSetupKeeps, CloseKeeps, ExitKeeps, CrashKeeps, RestartKeeps, StutterKeeps
<1> QED
  BY <1>1, <1>2, <1>3 DEF Next

(* The invariant holds in every reachable state, for every number of       *)
(* meetings, handlers, jobs, deaths and failed writes.                     *)
THEOREM Invariance == Spec => []IInv
<1>1. IInv /\ [Next]_vars => IInv'
  BY NextKeeps
<1> QED
  BY <1>1, InitIInv, PTL DEF Spec

(* Jobs, rows, locks, handlers and the worker stay within their types. *)
THEOREM TypeCorrect == Spec => []TypeOK
<1>1. IInv => TypeOK
  BY DEF IInv
<1> QED
  BY <1>1, Invariance, PTL

(* A meeting never has two queued or running jobs, and from its acceptance *)
(* to its end a job's meeting is there and configured as it was accepted:  *)
(* what the checks before a handler's lock saw never lets it write over    *)
(* the configuration of a job accepted meanwhile.                          *)
THEOREM AcceptedJobsStand == Spec => []AcceptedJobStands
<1>1. IInv => AcceptedJobStands
  BY DEF IInv, AcceptedJobStands, OneJob, WorkHasRow
<1> QED
  BY <1>1, Invariance, PTL

(* After a start an active row belongs to a job this process will finish,  *)
(* unless a write of its own failed, and a meeting shows "processing" only *)
(* while its job is at work or since a death or failed write cut it off.   *)
THEOREM ShownWorkIsAlwaysReal == Spec => []ShownWorkIsReal
<1>1. IInv => ShownWorkIsReal
  BY DEF IInv
<1> QED
  BY <1>1, Invariance, PTL

(* No step writes the row of a job that has ended. *)
LEMMA FinishedStays ==
  ASSUME IInv, [Next]_vars, NEW j \in Job, row[j] \in Terminal
  PROVE  row'[j] = row[j]
<1> USE DEF IInv, TypeOK, Steps, WorkHasRow, Alive, Active, Terminal
<1>1. CASE \E c \in Caller : \/ TakeLock(c) \/ GiveUp(c) \/ Recheck(c) \/ Raise(c)
                             \/ SetConfig(c) \/ Delete(c) \/ \E m \in Meeting : Begin(c, m)
  BY <1>1 DEF Begin, TakeLock, GiveUp, Recheck, Raise, SetConfig, Delete, disk
<1>2. CASE SubmitSetup \/ \E c \in Caller : Submit(c)
  <2>1. PICK k \in Job : \E m, setting : Enqueue(k, m, setting)
    BY <1>2 DEF SubmitSetup, Submit
  <2>2. row[k] = "none"
    BY <2>1 DEF Enqueue, Job
  <2>3. QED
    BY <2>1, <2>2 DEF Enqueue
<1>3. CASE \E k \in Job : \/ Start(k) \/ Setup(k) \/ Open(k) \/ StageSucceeds(k)
                          \/ StageFails(k) \/ StageCancelled(k) \/ CancelRunning(k)
  BY <1>3 DEF Start, Setup, Open, StageSucceeds, StageFails, StageCancelled, CancelRunning, disk
<1>4. CASE \E k \in Job : MarkRunning(k)
  BY <1>4 DEF MarkRunning
<1>5. CASE \E k \in Job : Finish(k)
  BY <1>5 DEF Finish
<1>6. CASE \E k \in Job : CancelQueued(k)
  BY <1>6 DEF CancelQueued
<1>7. CASE Close \/ Exit \/ Crash \/ Restart \/ UNCHANGED vars
  BY <1>7 DEF Close, Exit, Crash, Restart, vars, disk, Fail
<1> QED
  BY <1>1, <1>2, <1>3, <1>4, <1>5, <1>6, <1>7 DEF Next, Handle, Work

(* No cancellation, shutdown or restart changes the row of a finished job. *)
THEOREM FinishedRowsAreFinal == Spec => FinishedIsFinal
<1>1. IInv /\ [Next]_vars => [\A j \in Job : row[j] \in Terminal => row'[j] = row[j]]_vars
  BY FinishedStays
<1> QED
  BY <1>1, Invariance, PTL DEF Spec, FinishedIsFinal
================================================================================
