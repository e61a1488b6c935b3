-------------------------- MODULE CodexGeneration --------------------------
(***************************************************************************)
(* A generation by the Codex App Server on one connection                  *)
(* (pipeline/src/narumi/providers/codex: backend.py, _session.py, _rpc.py, *)
(* _generation.py, _supervisor.py, _process_tree.py).                      *)
(*                                                                         *)
(* A generation opens two sessions in turn: one to read the account and    *)
(* the models, one for a single turn of text.  A session owns a process:   *)
(* a watchdog starts the app server and an anchor that keeps the process   *)
(* group's number taken; descendants that leave the group carry a marker   *)
(* in their environment.  To end them all they are first stopped, so that  *)
(* none can start another, then killed.  The thread of the generation and  *)
(* whoever cancels it both may do this; a lock puts them in order.         *)
(*                                                                         *)
(* One descendant stands for all.  The credential file is in               *)
(* ProviderSignIn.                                                         *)
(***************************************************************************)
EXTENDS Integers, FiniteSets

CONSTANTS
  MaxTurns,   \* bound on the generations
  MaxFailures \* bound on the failures of the system calls and the watchdog

CodexAssumption ==
  MaxTurns \in Nat /\ MaxFailures \in Nat

VARIABLES
  (* the backend *)
  awake,       \* the server is alive
  tainted,     \* the connection is in _poisoned_connections
  latched,     \* the operation or the backend was told to stop
  wish,        \* the caller's should_cancel
  (* the thread of the generation *)
  at, session,
  sent,        \* on_sent was called
  result,      \* what the caller is told
  turns,
  (* the transport *)
  rpc,         \* "none", "open", "cancelled" or "closed"
  terminated,  \* _termination_result
  attempt,     \* terminate() under the lifecycle lock
  canceller,   \* the thread that cancels
  (* processes *)
  dog,         \* the watchdog
  proc, exit,  \* the app server, its anchor, its descendant
  known,       \* descendant_identities
  guardLine,   \* the pipe that tells the watchdog of the server
  turn,        \* the turn, as the provider sees it
  failures

Proc == {"app", "anchor", "stray"}
thread == <<at, session, sent, result, turns>>
transport == <<rpc, terminated, attempt, canceller>>
process == <<dog, proc, exit, known, guardLine, turn>>
gvars == <<awake, tainted, latched, wish, thread, transport, process, failures>>

Alive(p) == proc[p] \in {"live", "stopped"}
Survivors == {p \in Proc : Alive(p)} \* found by their marker, wherever they are
StopAll == [p \in Proc |-> IF Alive(p) THEN "stopped" ELSE proc[p]]
KillAll == [p \in Proc |-> IF Alive(p) THEN "gone" ELSE proc[p]]
DogLives == dog.at \notin {"none", "exited"}
NoAttempt == [by |-> "nobody", step |-> "none"]

Init ==
  /\ awake = TRUE /\ tainted = FALSE /\ latched = FALSE /\ wish = FALSE
  /\ at = "idle" /\ session = 1 /\ sent = FALSE /\ result = "none" /\ turns = 0
  /\ rpc = "none" /\ terminated = "none" /\ attempt = NoAttempt /\ canceller = "idle"
  /\ dog = [at |-> "none", code |-> "none", blind |-> FALSE]
  /\ proc = [p \in Proc |-> "none"] /\ exit = "none" /\ known = {}
  /\ guardLine = FALSE /\ turn = "none" /\ failures = 0

Failure == failures < MaxFailures /\ failures' = failures + 1
Here(pc) == awake /\ at = pc
ShouldCancel == latched \/ tainted \/ wish

-----------------------------------------------------------------------------
(* The operation and its sessions *)

Begin ==
  /\ Here("idle") /\ turns < MaxTurns /\ ~tainted
  /\ turns' = turns + 1
  /\ at' = "open" /\ session' = 1 /\ sent' = FALSE /\ result' = "none"
  /\ latched' = FALSE /\ wish' = FALSE /\ canceller' = "idle"
  /\ rpc' = "none" /\ terminated' = "none"
  /\ turn' = "none"
  /\ UNCHANGED <<awake, tainted, attempt, dog, proc, exit, known, guardLine, failures>>

\* start: a watchdog with the pipes that it is to hand on.
StartDog ==
  /\ at' = "starting"
  /\ dog' = [at |-> "booting", code |-> "none", blind |-> FALSE]
  /\ guardLine' = TRUE
  /\ proc' = [p \in Proc |-> IF Alive(p) THEN proc[p] ELSE "none"]
  /\ exit' = "none" /\ known' = {}

\* Configuration and runtime are checked, leftovers removed, a private home
\* made; then the watchdog is started.
OpenSession ==
  /\ Here("open")
  /\ IF ShouldCancel
     THEN at' = "remove" /\ UNCHANGED <<dog, guardLine, proc, exit, known>>
     ELSE StartDog
  /\ UNCHANGED <<awake, tainted, latched, wish, session, sent, result, turns, transport, turn,
                 failures>>

\* attach: a cancellation that came before there was a transport is found now.
Attach ==
  /\ Here("starting") /\ dog.at \notin {"none", "booting"}
  /\ Alive("app") /\ Alive("anchor")
  /\ known' = {"app", "anchor"}
  /\ rpc' = IF ShouldCancel THEN "cancelled" ELSE "open"
  /\ terminated' = "none"
  /\ at' = IF ShouldCancel THEN "close" ELSE "talk"
  /\ UNCHANGED <<awake, tainted, latched, wish, session, sent, result, turns, attempt, canceller,
                 dog, proc, exit, guardLine, turn, failures>>

\* start() fails: its pipes are closed, the watchdog is awaited or killed, and
\* the transport, which owns no process, is closed without a doubt.
StartFails ==
  /\ Here("starting")
  /\ \/ dog.at = "exited" /\ UNCHANGED failures
     \/ DogLives /\ Failure
  /\ guardLine' = FALSE /\ at' = "abandon"
  /\ UNCHANGED <<awake, tainted, latched, wish, session, sent, result, turns, transport, dog,
                 proc, exit, known, turn>>

KillDog == dog' = [dog EXCEPT !.at = "exited", !.code = "killed"]

Abandon ==
  /\ Here("abandon")
  /\ \/ dog.at = "exited" /\ UNCHANGED <<dog, failures>>
     \/ DogLives /\ Failure /\ KillDog
  /\ proc' = [proc EXCEPT !["anchor"] = IF Alive("anchor") THEN "gone" ELSE @]
  /\ at' = "remove"
  /\ UNCHANGED <<awake, tainted, latched, wish, session, sent, result, turns, transport, exit,
                 known, guardLine, turn>>

\* A call of the protocol fails: by an error, a time-out, a cancellation, the
\* end of the app server or the watchdog's failure.
Fail(outcome) ==
  /\ result' = outcome /\ at' = "close"

Reachable == rpc = "open" /\ proc["app"] = "live"
TalkUnchanged ==
  UNCHANGED <<awake, tainted, latched, wish, session, sent, turns, transport, process, failures>>

\* The first session: the account, the configuration, the model.
TalkMetadata ==
  /\ Here("talk") /\ session = 1
  /\ \/ Reachable /\ ~ShouldCancel /\ at' = "close" /\ UNCHANGED result
     \/ Fail("unsent")
  /\ TalkUnchanged

\* The second: the thread, which must come back with the parameters sent.
TalkThread ==
  /\ Here("talk") /\ session = 2
  /\ \/ Reachable /\ ~ShouldCancel /\ at' = "send" /\ UNCHANGED result
     \/ Fail("unsent")
  /\ TalkUnchanged

\* turn/start: the caller is told "sent" before the first byte is written.
MarkSent ==
  /\ Here("send")
  /\ \/ rpc = "open" /\ ~ShouldCancel /\ sent' = TRUE /\ at' = "write" /\ UNCHANGED result
     \/ Fail("unsent") /\ UNCHANGED sent
  /\ UNCHANGED <<awake, tainted, latched, wish, session, turns, transport, process, failures>>

\* Under the gate that cancel() takes first: after it, nothing is written.
WriteTurn ==
  /\ Here("write")
  /\ \/ /\ Reachable
        /\ turn' = "running" /\ at' = "collect" /\ UNCHANGED result
     \/ Fail("unknown") /\ UNCHANGED turn
  /\ UNCHANGED <<awake, tainted, latched, wish, session, sent, turns, transport, dog, proc, exit,
                 known, guardLine, failures>>

\* The notifications of the turn are read until it is over.  A caller's wish
\* interrupts it; every failure leaves its outcome unknown, and only the
\* provider's own word makes an interruption certain.
Collect ==
  /\ Here("collect")
  /\ \/ turn = "completed" /\ rpc = "open" /\ result' = "answer" /\ at' = "close"
     \/ turn = "interrupted" /\ rpc = "open" /\ Fail("interrupted")
     \/ Fail("unknown")
     \/ wish /\ rpc = "open" /\ at' = "interrupt" /\ UNCHANGED result
  /\ TalkUnchanged

Interrupt ==
  /\ Here("interrupt")
  /\ \/ /\ Reachable /\ turn # "none"
        /\ turn' = IF turn = "running" THEN "interrupted" ELSE turn
        /\ Fail(IF turn' = "interrupted" THEN "interrupted" ELSE "unknown")
     \/ Fail("unknown") /\ UNCHANGED turn
  /\ UNCHANGED <<awake, tainted, latched, wish, session, sent, turns, transport, dog, proc, exit,
                 known, guardLine, failures>>

-----------------------------------------------------------------------------
(* Termination, by the thread (close) or by the canceller (cancel) *)

\* The lifecycle lock; a termination that succeeded is not repeated.
StartTerminate(by) ==
  /\ attempt = NoAttempt /\ terminated # "yes"
  /\ attempt' = [by |-> by, step |-> "freeze"]

\* Everything that is known or marked is stopped, if the app server still is
\* what it was; the result is not needed here.
Freeze ==
  /\ awake /\ attempt.step = "freeze"
  /\ \/ /\ Alive("app")
        /\ known' = known \cup Survivors
        /\ proc' = StopAll
        /\ UNCHANGED failures
     \/ ~Alive("app") /\ UNCHANGED <<known, proc, failures>>
     \/ Failure /\ UNCHANGED <<known, proc>>
  /\ attempt' = [attempt EXCEPT !.step = "wait"]
  /\ guardLine' = FALSE
  /\ UNCHANGED <<awake, tainted, latched, wish, thread, rpc, terminated, canceller, dog, exit,
                 turn>>

AwaitDog ==
  /\ awake /\ attempt.step = "wait"
  /\ \/ dog.at = "exited" /\ UNCHANGED <<dog, failures>>
     \/ DogLives /\ Failure /\ KillDog
  /\ attempt' = [attempt EXCEPT !.step = "finish"]
  /\ UNCHANGED <<awake, tainted, latched, wish, thread, rpc, terminated, canceller, proc, exit,
                 known, guardLine, turn>>

FinishTrusting ==  \* a plausible bug: whatever ended the watchdog is believed
  /\ awake /\ attempt.step = "finish"
  /\ IF dog.code \in {"ok", "fail", "gone", "unclean"} THEN UNCHANGED proc
     ELSE proc' = IF \E p \in known \cup {"app", "anchor"} : Alive(p) THEN KillAll ELSE proc
  /\ terminated' = "yes"
  /\ attempt' = NoAttempt
  /\ canceller' = IF attempt.by = "canceller" THEN "idle" ELSE canceller
  /\ UNCHANGED <<awake, tainted, latched, wish, thread, rpc, dog, exit, known, guardLine, turn,
                 failures>>

\* What the watchdog left is stopped and killed here; a watchdog that was
\* killed or says that its own cleanup failed is never believed.
FinishTerminate ==
  /\ awake /\ attempt.step = "finish"
  /\ \/ /\ proc' = IF \E p \in known \cup {"app", "anchor"} : Alive(p) THEN KillAll ELSE proc
        /\ terminated' = IF dog.code \in {"ok", "fail", "gone"} THEN "yes" ELSE "no"
        /\ UNCHANGED failures
     \/ /\ Failure /\ terminated' = "no" \* processes cannot be listed
        /\ proc' = [proc EXCEPT !["anchor"] = IF @ = "live" THEN "gone" ELSE @]
  /\ attempt' = NoAttempt
  /\ canceller' = IF attempt.by = "canceller" THEN "idle" ELSE canceller
  /\ UNCHANGED <<awake, tainted, latched, wish, thread, rpc, dog, exit, known, guardLine, turn>>

\* rpc.close(): one attempt if an earlier one failed, otherwise two.
CloseTransport ==
  /\ Here("close")
  /\ rpc' = "closed"
  /\ \/ terminated = "yes" /\ at' = "remove" /\ UNCHANGED <<attempt, tainted>>
     \/ terminated = "none" /\ StartTerminate("thread") /\ UNCHANGED <<at, tainted>>
     \/ /\ terminated = "no" /\ attempt = NoAttempt
        /\ \/ StartTerminate("thread") /\ at' = "reclose" /\ UNCHANGED tainted
           \/ tainted' = TRUE /\ at' = "remove" /\ UNCHANGED attempt
  /\ UNCHANGED <<awake, latched, wish, session, sent, result, turns, terminated, canceller,
                 process, failures>>

Reclose ==
  /\ Here("reclose") /\ attempt = NoAttempt
  /\ tainted' = (tainted \/ terminated # "yes")
  /\ at' = "remove"
  /\ UNCHANGED <<awake, latched, wish, session, sent, result, turns, transport, process, failures>>

\* The session's directory goes; a failure makes the connection unusable and,
\* after a turn, the outcome unknown.  An answer is not given to a caller
\* whose operation was cancelled while the credential was put back.
RemoveRun ==
  /\ Here("remove")
  /\ \E removed \in BOOLEAN :
       /\ IF removed THEN UNCHANGED failures ELSE Failure
       /\ tainted' = (tainted \/ ~removed)
       /\ LET sound == removed /\ ~tainted /\ ~ShouldCancel /\ terminated = "yes"
          IN IF session = 1 /\ result = "none" /\ sound
             THEN at' = "open" /\ session' = 2 /\ rpc' = "none" /\ terminated' = "none"
                  /\ UNCHANGED result
             ELSE /\ at' = "leave"
                  /\ result' = CASE result = "answer" /\ ~sound -> "unknown"
                                 [] result = "none" -> "unsent"
                                 [] OTHER -> result
                  /\ UNCHANGED <<session, rpc, terminated>>
  /\ UNCHANGED <<awake, latched, wish, sent, turns, attempt, canceller, process>>

\* The end of _operation cancels what is left and frees the connection.
Leave ==
  /\ Here("leave")
  /\ at' = "idle" /\ latched' = TRUE
  /\ UNCHANGED <<awake, tainted, wish, session, sent, result, turns, transport, process, failures>>

-----------------------------------------------------------------------------
(* Cancellation from outside *)

Wish ==
  /\ awake /\ at # "idle" /\ ~wish /\ wish' = TRUE
  /\ UNCHANGED <<awake, tainted, latched, thread, transport, process, failures>>

\* operation.cancel(): from the end of the server or of the connection.
Cancel ==
  /\ awake /\ at # "idle" /\ ~latched /\ canceller = "idle"
  /\ latched' = TRUE
  /\ IF rpc = "open" THEN canceller' = "stopping" ELSE UNCHANGED canceller
  /\ UNCHANGED <<awake, tainted, wish, thread, rpc, terminated, attempt, process, failures>>

CancelTransport ==
  /\ awake /\ canceller = "stopping"
  /\ rpc' = IF rpc = "open" THEN "cancelled" ELSE rpc
  /\ IF terminated = "yes" \/ rpc = "none"
     THEN canceller' = "idle" /\ UNCHANGED attempt
     ELSE StartTerminate("canceller") /\ canceller' = "terminating"
  /\ UNCHANGED <<awake, tainted, latched, wish, thread, terminated, process, failures>>

-----------------------------------------------------------------------------
(* The watchdog *)

DogUnchanged ==
  UNCHANGED <<awake, tainted, latched, wish, thread, transport, known, guardLine, turn>>
Exit(code) == dog' = [dog EXCEPT !.at = "exited", !.code = code]

Boot ==
  /\ dog.at = "booting"
  /\ \/ ~guardLine /\ Exit("unstarted") /\ UNCHANGED <<proc, failures>>
     \/ /\ guardLine
        /\ dog' = [dog EXCEPT !.at = "watching"]
        /\ proc' = [proc EXCEPT !["app"] = "live", !["anchor"] = "live"]
        /\ UNCHANGED failures
     \/ guardLine /\ Failure /\ Exit("unclean") /\ UNCHANGED proc
  /\ UNCHANGED exit /\ DogUnchanged

\* It looks for descendants as it waits; a look that fails is not forgiven.
Watch ==
  /\ dog.at = "watching"
  /\ \/ /\ ~Alive("app") \/ ~guardLine
        /\ dog' = [dog EXCEPT !.at = "freezing",
                              !.code = IF ~Alive("app") THEN exit ELSE "gone"]
        /\ UNCHANGED failures
     \/ ~dog.blind /\ Failure /\ dog' = [dog EXCEPT !.blind = TRUE]
  /\ UNCHANGED <<proc, exit>> /\ DogUnchanged

DogFreezes ==
  /\ dog.at = "freezing"
  /\ \/ /\ Survivors # {}
        /\ proc' = StopAll
        /\ dog' = [dog EXCEPT !.at = "killing"] /\ UNCHANGED failures
     \/ /\ Survivors = {} \* nobody to stop counts as not stopped
        /\ dog' = [dog EXCEPT !.at = "killing", !.blind = TRUE] /\ UNCHANGED <<proc, failures>>
     \/ /\ Failure /\ dog' = [dog EXCEPT !.at = "killing", !.blind = TRUE] /\ UNCHANGED proc
  /\ UNCHANGED exit /\ DogUnchanged

DogKills ==
  /\ dog.at = "killing"
  /\ \/ /\ proc' = KillAll
        /\ Exit(IF dog.blind THEN "unclean" ELSE dog.code)
        /\ UNCHANGED failures
     \/ Failure /\ Exit("unclean") /\ UNCHANGED proc
  /\ UNCHANGED exit /\ DogUnchanged

DogDies ==
  /\ DogLives /\ Failure /\ KillDog
  /\ UNCHANGED <<proc, exit>> /\ DogUnchanged

-----------------------------------------------------------------------------
(* The app server and what it starts *)

AppUnchanged == UNCHANGED <<awake, tainted, latched, wish, thread, transport, dog, known,
                            guardLine, failures>>

AppExits(how) ==
  /\ proc["app"] = "live"
  /\ proc' = [proc EXCEPT !["app"] = "gone"] /\ exit' = how
  /\ UNCHANGED turn /\ AppUnchanged

Fork ==
  /\ proc["app"] = "live" /\ proc["stray"] = "none"
  /\ proc' = [proc EXCEPT !["stray"] = "live"]
  /\ UNCHANGED <<exit, turn>> /\ AppUnchanged

StrayExits ==
  /\ proc["stray"] = "live"
  /\ proc' = [proc EXCEPT !["stray"] = "gone"]
  /\ UNCHANGED <<exit, turn>> /\ AppUnchanged

\* The anchor waits on a pipe whose other end only this server holds.
AnchorExits ==
  /\ ~awake /\ proc["anchor"] = "live"
  /\ proc' = [proc EXCEPT !["anchor"] = "gone"]
  /\ UNCHANGED <<exit, turn>> /\ AppUnchanged

EndTurn(how) ==
  /\ proc["app"] = "live" /\ turn = "running"
  /\ turn' = how
  /\ UNCHANGED <<proc, exit>> /\ AppUnchanged

-----------------------------------------------------------------------------
(* The server's life *)

ServerEnds ==
  /\ awake /\ awake' = FALSE
  /\ guardLine' = FALSE
  /\ at' = IF at = "idle" THEN "idle" ELSE "dead"
  /\ attempt' = NoAttempt /\ canceller' = "idle"
  /\ UNCHANGED <<tainted, latched, wish, session, sent, result, turns, rpc, terminated, dog,
                 proc, exit, known, turn, failures>>

-----------------------------------------------------------------------------
Thread ==
  \/ OpenSession \/ Attach \/ StartFails \/ Abandon
  \/ TalkMetadata \/ TalkThread \/ MarkSent \/ WriteTurn
  \/ Collect \/ Interrupt \/ CloseTransport \/ Reclose \/ RemoveRun \/ Leave

Terminate == Freeze \/ AwaitDog \/ FinishTerminate
Dog == Boot \/ Watch \/ DogFreezes \/ DogKills

Next ==
  \/ Begin \/ Thread \/ Terminate \/ Wish \/ Cancel \/ CancelTransport
  \/ Dog \/ DogDies
  \/ \E how \in {"ok", "fail"} : AppExits(how)
  \/ Fork \/ StrayExits \/ AnchorExits
  \/ \E how \in {"completed", "failed", "interrupted"} : EndTurn(how)
  \/ ServerEnds

\* Threads and watchdogs run on; every wait for the app server has a time-out.
Fairness ==
  WF_gvars(Thread) /\ WF_gvars(Terminate) /\ WF_gvars(CancelTransport) /\ WF_gvars(Dog)

Spec == Init /\ [][Next]_gvars /\ Fairness

-----------------------------------------------------------------------------
(* Properties *)

\* Where the generation, its canceller and the processes may stand.
TypeOK ==
  /\ turns \in 0 .. MaxTurns /\ session \in {1, 2}
  /\ {awake, tainted, latched, wish, sent, guardLine} \subseteq BOOLEAN
  /\ at \in {"idle", "open", "starting", "abandon", "talk", "send", "write", "collect",
             "interrupt", "close", "reclose", "remove", "leave", "dead"}
  /\ result \in {"none", "unsent", "unknown", "interrupted", "answer"}
  /\ rpc \in {"none", "open", "cancelled", "closed"} /\ terminated \in {"none", "yes", "no"}
  /\ attempt \in [by : {"nobody", "thread", "canceller"},
                  step : {"none", "freeze", "wait", "finish"}]
  /\ canceller \in {"idle", "stopping", "terminating"}
  /\ dog \in [at : {"none", "booting", "watching", "freezing", "killing", "exited"},
              code : {"none", "ok", "fail", "gone", "unstarted", "unclean", "killed"},
              blind : BOOLEAN]
  /\ proc \in [Proc -> {"none", "live", "stopped", "gone"}] /\ known \subseteq Proc
  /\ turn \in {"none", "running", "completed", "failed", "interrupted"}
  /\ failures \in 0 .. MaxFailures

\* When a generation is over, no process of it is left that could use the
\* account, unless the connection has been made unusable (backend.py
\* mark_cleanup_unverified) - after one failure of the operating system, and
\* but for a start that fails: start() returns no process, so nobody asks what
\* its watchdog left behind.
UnnoticedStart == dog.code \in {"killed", "unclean"} /\ terminated = "none"
NothingLeft ==
  awake /\ at = "idle" /\ ~tainted /\ failures < 2 /\ ~UnnoticedStart => Survivors = {}

\* A caller who may try again was not charged: "not sent" means no turn began,
\* "interrupted" that the provider said so, an answer that the turn ended.
ResultHonest ==
  /\ result = "unsent" => turn = "none"
  /\ result = "interrupted" => turn = "interrupted"
  /\ result = "answer" => turn = "completed"

\* A transport believed to be terminated has no process of its own.
TerminatedIsTrue == awake /\ rpc # "none" /\ terminated = "yes" => Survivors = {}

\* All of these, checked together.
CodexSafe == NothingLeft /\ ResultHonest /\ TerminatedIsTrue

\* A cancelled generation ends, or its server does: Cancelling leads to
\* CancelEnded.
Cancelling == latched /\ at # "idle"
CancelEnded == at \in {"idle", "dead"}

\* The processes that were stopped are killed, whoever stopped them: by the
\* watchdog if the server ends, by the server if the watchdog fails, unless
\* both do.  AnyStopped leads to StoppedKilled.
AnyStopped == \E p \in Proc : proc[p] = "stopped"
StoppedKilled == ~AnyStopped \/ failures > 1 \/ UnnoticedStart \/ (~awake /\ failures > 0)
=============================================================================
