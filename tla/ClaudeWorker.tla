---------------------------- MODULE ClaudeWorker ----------------------------
(***************************************************************************)
(* A generation through the Claude Agent SDK                               *)
(* (pipeline/src/narumi/providers/claude: backend.py, transport.py,        *)
(* snapshot.py, worker.py, protocol.py).                                   *)
(*                                                                         *)
(* Each call runs in a private workspace.  A watchdog process, which learns *)
(* of the server's death through a pipe, starts the worker in a process    *)
(* group of its own; the worker starts the CLI that spends the API key.    *)
(* Watchdog and worker inherit the backend's lock on the runtime           *)
(* directory, the CLI does not; a new server that gets the lock deletes    *)
(* the workspaces its predecessor left.                                    *)
(*                                                                         *)
(* A call is one connection's and happens once.  The check of a process    *)
(* group's identity and the signal that follows are one step.              *)
(***************************************************************************)
EXTENDS Integers, FiniteSets

CONSTANTS
  Call,
  Image,      \* the name of the execution image's workspace
  MaxEpochs,  \* bound on the servers
  MaxMishaps  \* bound on the failures of the file system and of the watchdog

ClaudeAssumption ==
  Image \notin Call /\ MaxEpochs \in Nat \ {0} /\ MaxMishaps \in Nat

VARIABLES
  (* the server process *)
  epoch, running, \* which server, and whether it is alive
  backend,        \* _closed, _poison_reason, _lease_descriptor
  closer,         \* the call of close()
  image,          \* an execution image exists
  active,         \* _active
  step,           \* where a call's thread is
  outcome,        \* what its caller was told
  (* processes of a call *)
  watchdog, leader, child,
  lifeline,       \* the server holds its end
  wrote,          \* the part of the request in the worker's stdin
  (* outside the processes *)
  lock,           \* the server whose open lock file is locked, 0 if none
  dirs,           \* workspaces on disk
  submitted,      \* requests the CLI sent to the provider
  mishaps

threads == <<active, step, outcome>>
processes == <<watchdog, leader, child, lifeline, wrote, submitted>>
cvars == <<epoch, running, backend, closer, image, threads, processes, lock, dirs, mishaps>>

Listening == {"init", "assistant", "result"}       \* the next message it accepts
LeaderLives(c) == leader[c] \in {"reading", "loaded", "complete"} \cup Listening
GroupLives(c) == LeaderLives(c) \/ child[c]
WatchdogLives(c) == watchdog[c].at \notin {"none", "exited"}

\* The lock is taken while any process has the file open that locked it.
\* "born" is the server a watchdog belongs to.
LockTaken ==
  /\ lock # 0
  /\ \/ running /\ epoch = lock /\ backend.lease # "none"
     \/ \E c \in Call : watchdog[c].born = lock /\ (WatchdogLives(c) \/ LeaderLives(c))

FreshBackend == [closed |-> FALSE, poisoned |-> FALSE, lease |-> "held"]

Init ==
  /\ epoch = 1 /\ running = TRUE
  /\ backend = FreshBackend /\ closer = "none" /\ image = FALSE
  /\ active = {}
  /\ step = [c \in Call |-> "idle"]
  /\ outcome = [c \in Call |-> "none"]
  /\ watchdog = [c \in Call |-> [at |-> "none", code |-> "none", born |-> 0]]
  /\ leader = [c \in Call |-> "none"]
  /\ child = [c \in Call |-> FALSE]
  /\ lifeline = [c \in Call |-> FALSE]
  /\ wrote = [c \in Call |-> "nothing"]
  /\ lock = 1 /\ dirs = {} /\ submitted = {} /\ mishaps = 0

Mishap == mishaps < MaxMishaps /\ mishaps' = mishaps + 1
Poison == backend' = [backend EXCEPT !.poisoned = TRUE]
At(c, s) == running /\ step[c] = s
Goto(c, s) == step' = [step EXCEPT ![c] = s]
Tell(c, o) == outcome' = [outcome EXCEPT ![c] = o]
\* What an error tells the caller: the request may have been read once a byte
\* of it was written.
Doubt(c) == IF wrote[c] = "nothing" THEN "unsent" ELSE "unknown"

-----------------------------------------------------------------------------
(* The backend: the call before its worker *)

Usable == ~backend.poisoned /\ ~backend.closed

Enter(c) ==
  /\ At(c, "idle")
  /\ IF ~Usable
     THEN /\ Goto(c, "done") /\ Tell(c, "unsent") /\ UNCHANGED active
     ELSE /\ Goto(c, "space") /\ active' = active \cup {c} /\ UNCHANGED outcome
  /\ UNCHANGED <<epoch, running, backend, closer, image, processes, lock, dirs, mishaps>>

\* A workspace that cannot be made is removed, or poisons the backend.
MakeWorkspace(c) ==
  /\ At(c, "space")
  /\ \/ /\ Goto(c, "image") /\ dirs' = dirs \cup {c} /\ UNCHANGED <<backend, outcome, mishaps>>
     \/ /\ Mishap
        /\ Goto(c, "leave") /\ Tell(c, "unsent")
        /\ \/ UNCHANGED <<backend, dirs>>
           \/ Poison /\ dirs' = dirs \cup {c}
  /\ UNCHANGED <<epoch, running, closer, image, active, processes, lock>>

\* The SDK and the CLI are copied once for the server's lifetime.
CreateImage ==
  /\ image' = TRUE
  /\ dirs' = IF image THEN dirs ELSE dirs \cup {Image}

\* An image that failed and could not be removed again.
LeaveImage ==
  /\ Poison
  /\ dirs' = IF image THEN dirs ELSE dirs \cup {Image}

\* Each call verifies the image and copies the archive for itself.
Materialize(c) ==
  /\ At(c, "image")
  /\ \/ /\ ~backend.closed /\ backend.lease = "held"
        /\ CreateImage
        /\ Goto(c, "start")
        /\ UNCHANGED <<backend, outcome, mishaps>>
     \/ /\ IF backend.closed THEN UNCHANGED mishaps ELSE Mishap
        /\ Goto(c, "leave") /\ Tell(c, "unsent")
        /\ \/ dirs' = dirs \ {c} /\ UNCHANGED <<image, backend>>
           \/ ~backend.closed /\ LeaveImage /\ UNCHANGED image
  /\ UNCHANGED <<epoch, running, closer, active, processes, lock>>

-----------------------------------------------------------------------------
(* The runner: start, exchange, termination *)

StartWatchdog(c) ==
  /\ At(c, "start")
  /\ \/ /\ Goto(c, "starting")
        /\ watchdog' = [watchdog EXCEPT ![c] = [at |-> "booting", code |-> "none", born |-> epoch]]
        /\ lifeline' = [lifeline EXCEPT ![c] = TRUE]
        /\ UNCHANGED outcome
     \/ \* cancelled before a process exists
        /\ Goto(c, "verify") /\ Tell(c, "unsent")
        /\ UNCHANGED <<watchdog, lifeline>>
  /\ UNCHANGED <<epoch, running, backend, closer, image, active, leader, child, wrote, submitted,
                 lock, dirs, mishaps>>

\* The watchdog reports its worker's group; the server reads the leader's
\* identity while it lives.
WorkerStarted(c) ==
  /\ At(c, "starting") /\ watchdog[c].at # "booting" /\ LeaderLives(c)
  /\ Goto(c, "exchange")
  /\ UNCHANGED <<epoch, running, backend, closer, image, active, outcome, processes, lock, dirs,
                 mishaps>>

\* No report within three seconds, or none that can be used: every descriptor
\* is closed and the watchdog ends by itself, or is killed.
StartFails(c) ==
  /\ At(c, "starting")
  /\ watchdog[c].at # "exited" => mishaps < MaxMishaps
  /\ mishaps' = IF watchdog[c].at = "exited" THEN mishaps ELSE mishaps + 1
  /\ lifeline' = [lifeline EXCEPT ![c] = FALSE]
  /\ Goto(c, "abandon")
  /\ UNCHANGED <<epoch, running, backend, closer, image, active, outcome, watchdog, leader, child,
                 wrote, submitted, lock, dirs>>

KillWatchdog(c) ==
  /\ watchdog' = [watchdog EXCEPT ![c].at = "exited", ![c].code = "killed"]
  /\ leader' = IF LeaderLives(c) THEN leader ELSE [leader EXCEPT ![c] = "gone"]

Abandon(c) ==
  /\ At(c, "abandon")
  /\ \/ watchdog[c].at = "exited" /\ UNCHANGED <<watchdog, leader, mishaps>>
     \/ WatchdogLives(c) /\ Mishap /\ KillWatchdog(c)
  /\ Goto(c, "verify") /\ Tell(c, "unsent")
  /\ UNCHANGED <<epoch, running, backend, closer, image, active, child, lifeline, wrote, submitted,
                 lock, dirs>>

WriteRequest(c) ==
  /\ At(c, "exchange") /\ LeaderLives(c) /\ wrote[c] # "whole"
  /\ wrote' = [wrote EXCEPT ![c] = IF @ = "nothing" THEN "part" ELSE "whole"]
  /\ UNCHANGED <<epoch, running, backend, closer, image, threads, watchdog, leader, child, lifeline,
                 submitted, lock, dirs, mishaps>>

DecodedUnasked(c) ==  \* a plausible bug: the watchdog's exit code is not looked at
  watchdog[c].at = "exited" /\ Tell(c, "answer")

\* The watchdog exits with 0 only for a worker that wrote an answer.
Decoded(c) == watchdog[c].at = "exited" /\ watchdog[c].code = "ok" /\ Tell(c, "answer")

\* The exchange ends with the watchdog's exit, a cancellation, the deadline or
\* a broken pipe; only exit code 0 lets the response be decoded.
EndExchange(c) ==
  /\ At(c, "exchange")
  /\ Decoded(c) \/ Tell(c, Doubt(c))
  /\ lifeline' = [lifeline EXCEPT ![c] = FALSE]
  /\ Goto(c, "reap")
  /\ UNCHANGED <<epoch, running, backend, closer, image, active, watchdog, leader, child, wrote,
                 submitted, lock, dirs, mishaps>>

\* A group its watchdog left alive is terminated only while the leader seen at
\* the start still identifies it.
TerminateUnwatched(c) ==
  IF LeaderLives(c)
  THEN /\ leader' = [leader EXCEPT ![c] = "gone"]
       /\ child' = [child EXCEPT ![c] = FALSE]
       /\ UNCHANGED outcome
  ELSE Tell(c, Doubt(c)) /\ UNCHANGED <<leader, child>>

\* The watchdog should clean up and exit; if it does not, it is killed.
Reap(c) ==
  /\ At(c, "reap")
  /\ \/ /\ watchdog[c].at = "exited" /\ UNCHANGED <<watchdog, mishaps>>
        /\ IF GroupLives(c)
           THEN TerminateUnwatched(c)
           ELSE UNCHANGED <<leader, child, outcome>>
        /\ Goto(c, "verify")
     \/ /\ WatchdogLives(c) /\ Mishap /\ KillWatchdog(c)
        /\ UNCHANGED <<child, outcome, step>>
     \/ \* the state of the group cannot be read
        /\ watchdog[c].at = "exited" /\ Mishap
        /\ Tell(c, Doubt(c)) /\ Goto(c, "verify")
        /\ UNCHANGED <<watchdog, leader, child>>
  /\ UNCHANGED <<epoch, running, backend, closer, image, active, lifeline, wrote, submitted,
                 lock, dirs>>

-----------------------------------------------------------------------------
(* The backend: the call after its worker *)

\* The CLI's file is hashed again and the archive closed.
VerifySnapshot(c) ==
  /\ At(c, "verify")
  /\ Goto(c, "remove")
  /\ \/ UNCHANGED <<backend, outcome, mishaps>>
     \/ Mishap /\ Poison /\ Tell(c, "unknown")
  /\ UNCHANGED <<epoch, running, closer, image, active, processes, lock, dirs>>

RemoveWorkspace(c) ==
  /\ At(c, "remove")
  /\ Goto(c, "leave")
  /\ \/ dirs' = dirs \ {c} /\ UNCHANGED <<backend, outcome, mishaps>>
     \/ Mishap /\ Poison /\ Tell(c, "unknown") /\ UNCHANGED dirs
  /\ UNCHANGED <<epoch, running, closer, image, active, processes, lock>>

\* _close_backend_resources: an image that cannot be removed poisons the
\* backend, and a poisoned backend keeps the lock for the process's lifetime.
ReleaseResources(failed) ==
  LET poison == backend.poisoned \/ failed
  IN /\ failed => image
     /\ image' = FALSE
     /\ dirs' = IF failed \/ ~image THEN dirs ELSE dirs \ {Image}
     /\ backend' = [backend EXCEPT !.poisoned = poison,
                                   !.lease = IF @ # "held" THEN @
                                             ELSE IF poison THEN "retained" ELSE "none"]
     /\ lock' = IF backend.lease = "held" /\ ~poison THEN 0 ELSE lock

\* The last call of a closed backend releases what the backend holds.
Leave(c) ==
  /\ At(c, "leave")
  /\ IF backend.closed /\ active = {c}
     THEN \/ ReleaseResources(FALSE) /\ UNCHANGED <<outcome, mishaps>>
          \/ Mishap /\ ReleaseResources(TRUE) /\ Tell(c, "unknown")
     ELSE UNCHANGED <<image, dirs, backend, lock, outcome, mishaps>>
  /\ Goto(c, "discard")
  /\ UNCHANGED <<epoch, running, closer, active, processes>>

Discard(c) ==
  /\ At(c, "discard")
  /\ active' = active \ {c} /\ Goto(c, "done")
  /\ UNCHANGED <<epoch, running, backend, closer, image, outcome, processes, lock, dirs, mishaps>>

Close ==
  /\ running /\ closer \in {"none", "gaveup"}
  /\ closer' = "waiting" /\ backend' = [backend EXCEPT !.closed = TRUE]
  /\ UNCHANGED <<epoch, running, image, threads, processes, lock, dirs, mishaps>>

CloseEnds ==
  /\ running /\ closer = "waiting"
  /\ IF active = {}
     THEN /\ closer' = "done"
          /\ \/ ReleaseResources(FALSE) /\ UNCHANGED mishaps
             \/ Mishap /\ ReleaseResources(TRUE)
     ELSE /\ Mishap /\ closer' = "gaveup" \* five seconds passed
          /\ UNCHANGED <<backend, image, lock, dirs>>
  /\ UNCHANGED <<epoch, running, threads, processes>>

-----------------------------------------------------------------------------
(* The watchdog *)

WatchdogUnchanged == UNCHANGED <<epoch, running, backend, closer, image, threads, lifeline, wrote,
                                 submitted, lock, dirs>>

ExitWith(c, code) == watchdog' = [watchdog EXCEPT ![c].at = "exited", ![c].code = code]

Boot(c) ==
  /\ watchdog[c].at = "booting"
  /\ \/ /\ ~lifeline[c] /\ ExitWith(c, "unstarted") /\ UNCHANGED <<leader, mishaps>>
     \/ /\ lifeline[c]
        /\ watchdog' = [watchdog EXCEPT ![c].at = "watching"]
        /\ leader' = [leader EXCEPT ![c] = "reading"]
        /\ UNCHANGED mishaps
     \/ lifeline[c] /\ Mishap /\ ExitWith(c, "unclean") /\ UNCHANGED leader
  /\ UNCHANGED child /\ WatchdogUnchanged

\* Members of the group that obey SIGTERM; the others are killed later.
SignalTerm(c) ==
  \E obeys \in SUBSET {"leader", "child"} :
    /\ leader' = IF "leader" \in obeys /\ LeaderLives(c)
                 THEN [leader EXCEPT ![c] = "bad"] ELSE leader
    /\ child' = IF "child" \in obeys THEN [child EXCEPT ![c] = FALSE] ELSE child

\* The worker ended, or the server did: the group is terminated.  The worker
\* stays unreaped, so its group cannot be another's.
Watch(c) ==
  /\ watchdog[c].at = "watching"
  /\ ~LeaderLives(c) \/ ~lifeline[c]
  /\ watchdog' = [watchdog EXCEPT ![c].at = "terming",
                                  ![c].code = CASE leader[c] = "good" -> "ok"
                                                [] leader[c] = "bad" -> "fail"
                                                [] OTHER -> "gone"]
  /\ SignalTerm(c)
  /\ UNCHANGED mishaps /\ WatchdogUnchanged

CleanUp(c) ==
  /\ watchdog[c].at = "terming"
  /\ \/ /\ ~GroupLives(c)
        /\ ExitWith(c, watchdog[c].code)
        /\ leader' = [leader EXCEPT ![c] = "gone"]
        /\ UNCHANGED <<child, mishaps>>
     \/ /\ GroupLives(c) \* SIGKILL
        /\ leader' = IF LeaderLives(c) THEN [leader EXCEPT ![c] = "bad"] ELSE leader
        /\ child' = [child EXCEPT ![c] = FALSE]
        /\ UNCHANGED <<watchdog, mishaps>>
     \/ \* the state of the group cannot be read
        /\ Mishap /\ ExitWith(c, "unclean")
        /\ leader' = IF LeaderLives(c) THEN leader ELSE [leader EXCEPT ![c] = "gone"]
        /\ UNCHANGED child
  /\ WatchdogUnchanged

\* The operating system ends it.
WatchdogDies(c) ==
  /\ WatchdogLives(c) /\ Mishap /\ KillWatchdog(c)
  /\ UNCHANGED child /\ WatchdogUnchanged

-----------------------------------------------------------------------------
(* The worker and its CLI *)

WorkerUnchanged == UNCHANGED <<epoch, running, backend, closer, image, threads, watchdog, lifeline,
                               wrote, lock, dirs, mishaps>>

\* A worker that ends is a zombie of its watchdog, or nobody's.
Ended(c, how) ==
  leader' = [leader EXCEPT ![c] = IF WatchdogLives(c) THEN how ELSE "gone"]

ReadRequest(c) ==
  /\ leader[c] = "reading" /\ wrote[c] = "whole"
  /\ leader' = [leader EXCEPT ![c] = "loaded"]
  /\ UNCHANGED <<child, submitted>> /\ WorkerUnchanged

\* Less than the request when the server went away; or policy, snapshot, lease
\* or versions, which are checked before the CLI exists.
RefuseRequest(c) ==
  /\ leader[c] = "reading" /\ (wrote[c] = "whole" \/ ~lifeline[c])
  /\ Ended(c, "bad")
  /\ UNCHANGED <<child, submitted>> /\ WorkerUnchanged

Query(c) ==
  /\ leader[c] = "loaded"
  /\ leader' = [leader EXCEPT ![c] = "init"] /\ child' = [child EXCEPT ![c] = TRUE]
  /\ UNCHANGED submitted /\ WorkerUnchanged

Submit(c) ==
  /\ child[c] /\ c \notin submitted
  /\ submitted' = submitted \cup {c}
  /\ UNCHANGED <<leader, child>> /\ WorkerUnchanged

\* A message is accepted in its place and once; any other ends the worker.
Hear(c, message, next) ==
  /\ leader[c] \in Listening /\ child[c]
  /\ IF message = leader[c] THEN leader' = [leader EXCEPT ![c] = next] ELSE Ended(c, "bad")
  /\ UNCHANGED <<child, submitted>> /\ WorkerUnchanged

HearInit(c) == Hear(c, "init", "assistant")
HearAssistant(c) == c \in submitted /\ Hear(c, "assistant", "result")
HearResult(c) == c \in submitted /\ Hear(c, "result", "complete")

\* The stream of messages ended: the answer is validated and written.
Answer(c) ==
  /\ leader[c] \in Listening \cup {"complete"} /\ ~child[c]
  /\ \/ leader[c] = "complete" /\ Ended(c, "good")
     \/ Ended(c, "bad")
  /\ UNCHANGED <<child, submitted>> /\ WorkerUnchanged

ChildEnds(c) ==
  /\ child[c] /\ child' = [child EXCEPT ![c] = FALSE]
  /\ UNCHANGED <<leader, submitted>> /\ WorkerUnchanged

LeaderDies(c) ==
  /\ LeaderLives(c) /\ mishaps < MaxMishaps /\ mishaps' = mishaps + 1
  /\ Ended(c, "bad")
  /\ UNCHANGED <<child, submitted, epoch, running, backend, closer, image, threads, watchdog,
                 lifeline, wrote, lock, dirs>>

-----------------------------------------------------------------------------
(* The server's life *)

\* It is killed, or exits with or without a close; "dead" is a call that had
\* not removed its workspace.
ServerEnds ==
  /\ running
  /\ running' = FALSE
  /\ step' = [c \in Call |-> CASE step[c] = "idle" -> "idle"
                             [] step[c] \in {"leave", "discard", "done"} -> "done"
                             [] OTHER -> "dead"]
  /\ lifeline' = [c \in Call |-> FALSE]
  /\ active' = {}
  /\ UNCHANGED <<epoch, backend, closer, image, outcome, watchdog, leader, child, wrote, submitted,
                 lock, dirs, mishaps>>

ServerStarts ==
  /\ ~running /\ epoch < MaxEpochs
  /\ running' = TRUE /\ epoch' = epoch + 1
  /\ closer' = "none" /\ image' = FALSE
  /\ \/ /\ LockTaken
        /\ backend' = [FreshBackend EXCEPT !.poisoned = TRUE, !.lease = "none"]
        /\ UNCHANGED <<lock, dirs, mishaps>>
     \/ /\ ~LockTaken
        /\ lock' = epoch'
        /\ \/ backend' = FreshBackend /\ dirs' = {} /\ UNCHANGED mishaps
           \/ /\ Mishap \* the sweep fails
              /\ backend' = [FreshBackend EXCEPT !.poisoned = TRUE, !.lease = "retained"]
              /\ dirs' \in SUBSET dirs
  /\ UNCHANGED <<threads, processes>>

-----------------------------------------------------------------------------
Thread(c) ==
  \/ MakeWorkspace(c) \/ Materialize(c)
  \/ StartWatchdog(c) \/ WorkerStarted(c) \/ StartFails(c) \/ Abandon(c)
  \/ WriteRequest(c) \/ EndExchange(c) \/ Reap(c)
  \/ VerifySnapshot(c) \/ RemoveWorkspace(c) \/ Leave(c) \/ Discard(c)

Guard(c) == Boot(c) \/ Watch(c) \/ CleanUp(c)

Worker(c) ==
  \/ ReadRequest(c) \/ RefuseRequest(c) \/ Query(c) \/ Submit(c)
  \/ HearInit(c) \/ HearAssistant(c) \/ HearResult(c) \/ Answer(c)
  \/ ChildEnds(c) \/ LeaderDies(c)

Next ==
  \/ \E c \in Call : Enter(c) \/ Thread(c) \/ Guard(c) \/ WatchdogDies(c) \/ Worker(c)
  \/ Close \/ CloseEnds
  \/ ServerEnds \/ ServerStarts

\* Threads and watchdogs run on; an exchange ends at its deadline; a worker
\* reads what it was given.  The CLI owes nobody an answer.
Fairness ==
  \A c \in Call : /\ WF_cvars(Thread(c)) /\ WF_cvars(Guard(c))
                  /\ WF_cvars(ReadRequest(c) \/ RefuseRequest(c))

Spec == Init /\ [][Next]_cvars /\ Fairness

-----------------------------------------------------------------------------
(* Properties *)

\* Where each thread, process and file of the calls may stand.
TypeOK ==
  /\ epoch \in 1 .. MaxEpochs /\ running \in BOOLEAN /\ image \in BOOLEAN
  /\ backend \in [closed : BOOLEAN, poisoned : BOOLEAN, lease : {"held", "retained", "none"}]
  /\ closer \in {"none", "waiting", "gaveup", "done"}
  /\ active \subseteq Call
  /\ step \in [Call -> {"idle", "space", "image", "start", "starting", "abandon", "exchange",
                        "reap", "verify", "remove", "leave", "discard", "done", "dead"}]
  /\ outcome \in [Call -> {"none", "unsent", "unknown", "answer"}]
  /\ watchdog \in [Call -> [at : {"none", "booting", "watching", "terming", "exited"},
                            code : {"none", "ok", "fail", "gone", "unstarted", "unclean", "killed"},
                            born : 0 .. MaxEpochs]]
  /\ leader \in [Call -> {"none", "reading", "loaded", "complete", "good", "bad", "gone"}
                         \cup Listening]
  /\ child \in [Call -> BOOLEAN] /\ lifeline \in [Call -> BOOLEAN]
  /\ wrote \in [Call -> {"nothing", "part", "whole"}]
  /\ lock \in 0 .. MaxEpochs /\ dirs \subseteq Call \cup {Image} /\ submitted \subseteq Call
  /\ mishaps \in 0 .. MaxMishaps

\* A call whose caller may freely send it again was not sent to the provider
\* and never will be, whatever became of its watchdog and worker
\* (transport.py __call__, backend.py _run).
OutcomeHonest == \A c \in Call : outcome[c] = "unsent" => c \notin submitted

\* While a CLI of an ended call still runs, with the key, its caller has been
\* told that the outcome is unknown: never an answer, never "not sent".
SurvivorIsUnknown ==
  \A c \in Call : step[c] \in {"verify", "remove", "leave", "discard", "done"} /\ child[c]
                    => outcome[c] = "unknown"

\* An answer comes from a worker that heard all of the conversation.
AnswerWasPaid == \A c \in Call : outcome[c] = "answer" => c \in submitted /\ wrote[c] = "whole"

\* A new server deletes no workspace of a call whose watchdog or worker still
\* lives after its own server died (the lock they inherit).
SweepIsSafe ==
  \A c \in Call : step[c] = "dead" /\ (LeaderLives(c) \/ watchdog[c].at \in {"watching", "terming"})
                    => c \in dirs

\* A workspace that outlives its call has poisoned the backend, and a poisoned
\* backend never gives the lock to another server while its process lives.
LeftoversPoison ==
  /\ running /\ (\E c \in dirs \cap Call : step[c] = "done") => backend.poisoned
  /\ running /\ backend.lease = "retained" => LockTaken

\* All of these, checked together.
ClaudeSafe ==
  OutcomeHonest /\ SurvivorIsUnknown /\ AnswerWasPaid /\ SweepIsSafe /\ LeftoversPoison

\* A call returns, or its server ends: Called(c) leads to CallEnded(c).
Called(c) == step[c] = "space"
CallEnded(c) == step[c] \in {"done", "dead"}

\* A worker does not outlive its server for ever, unless its watchdog was
\* killed or could not read the group's state: Orphaned(c) leads to
\* OrphanEnded(c).
Orphaned(c) == step[c] = "dead"
OrphanEnded(c) == ~GroupLives(c) \/ watchdog[c].code \in {"killed", "unclean"}
=============================================================================
