--------------------------- MODULE ProviderSignIn ---------------------------
(***************************************************************************)
(* Signing in to, out of and away from one Codex connection                *)
(* (pipeline/src/narumi/providers: auth.py, _codex_auth.py, connections.py *)
(* for disabling and deletion, service.py for the start and the end of a   *)
(* server, codex/backend.py for the one operation a connection admits, and *)
(* codex/_session.py for its credential file).                             *)
(*                                                                         *)
(* A handler changes the registry, releases its lock and lets the backend  *)
(* act; a worker of the executor signs in or out.  Handlers that withdraw  *)
(* an operation mark it "unknown", stop the worker, delete what it may     *)
(* have installed, and only then call it "cancelled".  The backend's       *)
(* generation says whose credential the file can be and how far the        *)
(* operation came.  Any read or write of the registry and any removal of a *)
(* file may fail, and the server may die between any two steps.            *)
(***************************************************************************)
EXTENDS Integers, FiniteSets

CONSTANTS
  MaxOps,      \* bound on the authentication operations
  Handler,     \* threads that run tool handlers, and the one that closes
  Nobody,
  MaxBreaks,   \* bound on the failures of the stores
  MaxStarts,   \* bound on the server's starts
  MaxRevision  \* bound on the record's revision

Op == 1 .. MaxOps

(* What the registry, the backend and a thread hold; Nobody where there is  *)
(* nothing.                                                                 *)
ConnectionType ==
  [exists : BOOLEAN, revision : Nat, enabled : BOOLEAN, present : BOOLEAN,
   assumed : BOOLEAN, active : Op \cup {Nobody}]
OpType ==
  [state : {"pending", "succeeded", "failed", "cancelled", "unknown"},
   action : {"start", "logout"}, life : 1 .. MaxStarts, revision : Nat]
LeaseType ==
  [token : Op \cup Handler, life : 1 .. MaxStarts,
   kind : {"authentication", "logout", "authentication_cancel", "delete"}]
SlotType ==
  [kind : {"auth", "prepare", "cleanup"}, by : Op \cup Handler, stop : BOOLEAN]
PhaseType == [op : Op, at : {"registered", "prepared", "cleanup_required", "settled"}]
WorkerType ==
  {"none", "queued", "unstarted", "prepare", "erase", "erasing", "unverified", "login",
   "session", "installed", "committed", "skipped", "cancelled", "rejected", "dropped",
   "resolve", "leave", "leaving", "clearing", "done"}
HandlerType ==
  [pc : {"idle", "register", "stop", "logout", "wait", "reserve", "clear", "confirm",
         "failed", "submit", "refused", "close", "drain"},
   kind : {"none", "cancel", "disable", "logout", "delete", "close"},
   op : Op \cup {Nobody}, own : Op \cup {Nobody}, revision : Nat, required : BOOLEAN]

SignInAssumption ==
  /\ MaxOps \in Nat /\ MaxBreaks \in Nat /\ MaxStarts \in Nat \ {0} /\ MaxRevision \in Nat
  /\ Nobody \notin Nat \cup Handler /\ Handler \cap Nat = {}
  /\ Nobody \notin OpType /\ Nobody \notin LeaseType
  /\ Nobody \notin SlotType /\ Nobody \notin PhaseType

VARIABLES
  (* registry.json *)
  conn,      \* the record; assumed: present was written without a look at the file
  op,        \* authentication operations
  lease,     \* the provider's check
  (* the backend *)
  slot,      \* the operation the connection runs
  phase,     \* the registered generation
  poisoned,  \* a cleanup could not be verified
  file,      \* auth.json holds a credential
  (* the server process *)
  alive,     \* "up", "closing", "shut" (the backend too) or "down"
  life,      \* server_instance_id
  target,    \* the generation that a call of the backend's logout has read
  worker,    \* where the executor is in an operation
  handler,   \* where a handler is
  (* observation and bounds *)
  told,      \* somebody was told that a credential may remain
  breaks

registered == <<conn, op, lease>>
backend == <<slot, phase, poisoned, file>>
server == <<alive, life, target>>
svars == <<registered, backend, server, worker, handler, told, breaks>>

Idle == [pc |-> "idle", kind |-> "none", op |-> Nobody, own |-> Nobody, revision |-> 0,
         required |-> FALSE]

Init ==
  /\ conn = [exists |-> TRUE, revision |-> 1, enabled |-> TRUE, present |-> FALSE,
             assumed |-> FALSE, active |-> Nobody]
  /\ op = [o \in Op |-> Nobody]
  /\ lease = Nobody
  /\ slot = Nobody /\ phase = Nobody /\ poisoned = FALSE /\ file = FALSE
  /\ alive = "up" /\ life = 1 /\ target = [x \in Op \cup Handler |-> Nobody]
  /\ worker = [o \in Op |-> "none"]
  /\ handler = [h \in Handler |-> Idle]
  /\ told = FALSE /\ breaks = 0

Running == alive \in {"up", "closing", "shut"}
Break == breaks < MaxBreaks /\ breaks' = breaks + 1
Open(o) == op[o] # Nobody /\ op[o].state \in {"pending", "unknown"}
Unused(o) == \A p \in Op : p < o <=> op[p] # Nobody

Free(token) == IF lease # Nobody /\ lease.token = token THEN Nobody ELSE lease
Lease(token, kind) == lease' = [token |-> token, life |-> life, kind |-> kind]
State(o, state) == op' = [op EXCEPT ![o].state = state]
Generation == IF phase = Nobody THEN Nobody ELSE phase.op

\* The record says that there is a credential, or none, for sure.
Present(rec, present) == [rec EXCEPT !.present = present, !.assumed = FALSE]

\* _matches: the worker's operation still is the connection's.
Matches(o) ==
  /\ conn.exists /\ conn.active = o
  /\ op[o].state = "pending" /\ op[o].life = life
  /\ conn.revision = op[o].revision
  /\ conn.enabled \/ op[o].action = "logout"

\* _pending, polled while an operation runs; a read that fails says no as well.
Pending(o) == alive = "up" /\ Matches(o)

Revisable == conn.exists /\ conn.revision < MaxRevision

-----------------------------------------------------------------------------
(* Handlers: the first transaction *)

\* The handler goes on with an operation, and with the sign-out it began.
Occupy(h, pc, kind, o, own, required) ==
  handler' = [handler EXCEPT ![h] =
    [pc |-> pc, kind |-> kind, op |-> o, own |-> own, revision |-> conn'.revision,
     required |-> required]]

NewOp(o, action, revision) ==
  op' = [op EXCEPT ![o] = [state |-> "pending", action |-> action, life |-> life,
                           revision |-> revision]]

ProviderFree == lease = Nobody /\ (conn.active # Nobody => ~Open(conn.active))

\* authenticate_provider_connection "start".  If the executor takes no more
\* work the operation fails at once.
StartSignIn(o, accepted) ==
  /\ alive = "up" /\ Unused(o)
  /\ conn.exists /\ conn.enabled /\ ProviderFree
  /\ slot = Nobody
  /\ phase' = [op |-> o, at |-> "registered"]
  /\ IF accepted
     THEN /\ NewOp(o, "start", conn.revision)
          /\ conn' = [conn EXCEPT !.active = o]
          /\ Lease(o, "authentication")
          /\ worker' = [worker EXCEPT ![o] = "queued"]
          /\ UNCHANGED breaks
     ELSE /\ Break
          /\ op' = [op EXCEPT ![o] = [state |-> "failed", action |-> "start",
                                      life |-> life, revision |-> conn.revision]]
          /\ conn' = [conn EXCEPT !.active = Nobody]
          /\ UNCHANGED <<lease, worker>>
  /\ UNCHANGED <<slot, poisoned, file, server, handler, told>>

\* _mark_codex_cancellation_unknown, and a lease for the withdrawal.
Withdraw(h, o, kind, rec) ==
  /\ State(o, "unknown")
  /\ conn' = [rec EXCEPT !.active = o]
  /\ Lease(h, "authentication_cancel")
  /\ Occupy(h, IF kind = "cancel" /\ op[o].action = "logout" THEN "logout" ELSE "register",
            kind, o, Nobody, (kind = "disable" \/ op[o].action = "start") /\ ~rec.present)

\* authenticate_provider_connection "cancel"
Cancel(h, o) ==
  /\ alive = "up" /\ handler[h] = Idle
  /\ conn.exists /\ op[o] # Nobody /\ Open(o)
  /\ IF conn.active = o
     THEN /\ lease # Nobody =>
               lease.token = o /\ lease.kind = IF op[o].action = "start"
                                               THEN "authentication" ELSE "logout"
          /\ Withdraw(h, o, "cancel", conn)
     ELSE State(o, "cancelled") /\ UNCHANGED <<conn, lease, handler>>
  /\ UNCHANGED <<backend, server, worker, told, breaks>>

\* set_provider_connection with "enabled: false" withdraws a sign-in too.
Disable(h) ==
  /\ alive = "up" /\ handler[h] = Idle
  /\ Revisable /\ conn.enabled
  /\ lease # Nobody => lease.kind \notin {"logout", "delete", "authentication_cancel"}
  /\ LET rec == [conn EXCEPT !.enabled = FALSE, !.revision = @ + 1]
     IN IF conn.active # Nobody /\ Open(conn.active)
        THEN Withdraw(h, conn.active, "disable", rec)
        ELSE conn' = [rec EXCEPT !.active = Nobody] /\ UNCHANGED <<op, lease, handler>>
  /\ UNCHANGED <<backend, server, worker, told, breaks>>

Enable ==
  /\ alive = "up" /\ Revisable /\ ~conn.enabled /\ ProviderFree
  /\ conn' = [conn EXCEPT !.enabled = TRUE, !.revision = @ + 1]
  /\ UNCHANGED <<op, lease, backend, server, worker, handler, told, breaks>>

\* authenticate_provider_connection "logout" takes over from a sign-in.
LogOut(h, o) ==
  /\ alive = "up" /\ handler[h] = Idle /\ Unused(o)
  /\ Revisable
  /\ lease # Nobody => lease.kind = "authentication"
  /\ LET earlier == conn.active
         ops == IF earlier # Nobody /\ Open(earlier)
                THEN [op EXCEPT ![earlier].state = "cancelled"] ELSE op
     IN /\ op' = [ops EXCEPT ![o] = [state |-> "pending", action |-> "logout", life |-> life,
                                     revision |-> conn.revision + 1]]
        /\ conn' = Present([conn EXCEPT !.active = o, !.revision = @ + 1], FALSE)
        /\ Lease(o, "logout")
        /\ IF earlier = Nobody THEN Occupy(h, "submit", "logout", o, o, TRUE)
           ELSE Occupy(h, "register", "logout", earlier, o, TRUE)
  /\ UNCHANGED <<backend, server, worker, told, breaks>>

\* delete_provider_connection
Delete(h) ==
  /\ alive = "up" /\ handler[h] = Idle
  /\ Revisable /\ ProviderFree
  /\ conn' = Present([conn EXCEPT !.enabled = FALSE, !.revision = @ + 1], FALSE)
  /\ Lease(h, "delete")
  /\ Occupy(h, "logout", "delete", Nobody, Nobody, TRUE)
  /\ UNCHANGED <<op, backend, server, worker, told, breaks>>

-----------------------------------------------------------------------------
(* Handlers: the backend, which admits nothing once it is shut *)

To(h, pc) == handler' = [handler EXCEPT ![h].pc = pc]
Failed(h) == IF handler[h].kind = "logout" THEN "refused" ELSE "failed"

\* The handler calls the backend's logout, not cancel_auth.
SigningOut(h) ==
  \/ handler[h].kind = "delete"
  \/ handler[h].kind \in {"cancel", "close"} /\ op[handler[h].op].action = "logout"

\* The generation it is about.
Target(h) == IF SigningOut(h) THEN target[h] ELSE handler[h].op

\* register_auth_generation with replace=False
Register(h) ==
  /\ Running /\ handler[h].pc = "register"
  /\ LET o == handler[h].op
         mine == phase # Nobody /\ phase.op = o
         worked == slot # Nobody /\ slot.kind \in {"auth", "prepare"} /\ slot.by = o
     IN IF /\ alive # "shut"
           /\ (slot = Nobody /\ phase = Nobody) \/ (mine /\ (slot = Nobody \/ worked))
        THEN /\ phase' = [op |-> o, at |->
                  CASE phase = Nobody /\ ~handler[h].required -> "registered"
                    [] handler[h].required /\ (phase = Nobody \/ phase.at = "registered")
                         -> "cleanup_required"
                    [] OTHER -> phase.at]
             /\ To(h, "stop")
        ELSE UNCHANGED phase /\ To(h, Failed(h))
  /\ UNCHANGED <<registered, slot, poisoned, file, server, worker, told, breaks>>

\* cancel_auth, first part: signal the worker.
StopWorker(h) ==
  /\ Running /\ handler[h].pc = "stop"
  /\ LET o == handler[h].op
         mine == phase # Nobody /\ phase.op = o /\ (slot = Nobody \/ slot.by = o)
     IN IF ~mine THEN UNCHANGED slot /\ To(h, Failed(h))
        ELSE IF slot = Nobody THEN UNCHANGED slot /\ To(h, "reserve")
        ELSE slot' = [slot EXCEPT !.stop = TRUE] /\ To(h, "wait")
  /\ UNCHANGED <<registered, phase, poisoned, file, server, worker, told, breaks>>

\* logout, first part: whose generation there is, and a signal to its worker;
\* another kind of operation makes the backend busy.
SignOut(h) ==
  /\ Running /\ handler[h].pc = "logout"
  /\ IF slot # Nobody /\ slot.kind # "auth"
     THEN UNCHANGED <<slot, target>> /\ To(h, "failed")
     ELSE /\ target' = [target EXCEPT ![h] = Generation]
          /\ IF slot = Nobody THEN UNCHANGED slot /\ To(h, "reserve")
             ELSE slot' = [slot EXCEPT !.stop = TRUE] /\ To(h, "wait")
  /\ UNCHANGED <<registered, phase, poisoned, file, alive, life, worker, told, breaks>>

\* Both wait for the worker, which has a limit.
AwaitWorker(h) ==
  /\ Running /\ handler[h].pc = "wait"
  /\ \/ /\ ~(slot # Nobody /\ slot.by = Target(h))
        /\ To(h, "reserve") /\ UNCHANGED breaks
     \/ slot # Nobody /\ Break /\ To(h, Failed(h))
  /\ UNCHANGED <<registered, backend, server, worker, told>>

\* And hold the slot while the files are removed, if the generation still is
\* the same.
Reserve(h) ==
  /\ Running /\ handler[h].pc = "reserve"
  /\ IF slot = Nobody /\ alive # "shut" /\ Generation = Target(h)
     THEN slot' = [kind |-> "cleanup", by |-> h, stop |-> FALSE] /\ To(h, "clear")
     ELSE UNCHANGED slot /\ To(h, Failed(h))
  /\ UNCHANGED <<registered, phase, poisoned, file, server, worker, told, breaks>>

ClearAll(h, cleared) ==  \* a plausible bug: every withdrawal deletes the credential
  /\ Running /\ handler[h].pc = "clear"
  /\ slot' = Nobody
  /\ IF cleared
     THEN /\ file' = FALSE /\ phase' = Nobody
          /\ To(h, IF poisoned THEN Failed(h)
                   ELSE IF handler[h].kind = "logout" THEN "submit" ELSE "confirm")
          /\ told' = FALSE /\ UNCHANGED breaks
     ELSE /\ Break /\ UNCHANGED <<file, phase>> /\ To(h, Failed(h)) /\ told' = TRUE
  /\ UNCHANGED <<registered, poisoned, server, worker>>

\* A generation that is only registered has touched nothing: cancel_auth keeps
\* what was there before.
Clear(h, cleared) ==
  /\ Running /\ handler[h].pc = "clear"
  /\ slot' = Nobody
  /\ LET kept == ~SigningOut(h) /\ phase.at = "registered"
     IN IF cleared
        THEN /\ file' = (file /\ kept) /\ told' = (told /\ kept)
             /\ phase' = Nobody
             /\ To(h, IF poisoned THEN Failed(h)
                      ELSE IF handler[h].kind = "logout" THEN "submit" ELSE "confirm")
             /\ UNCHANGED breaks
        ELSE /\ ~kept /\ Break
             /\ file' \in {file, FALSE} /\ told' = TRUE
             /\ UNCHANGED phase /\ To(h, Failed(h))
  /\ UNCHANGED <<registered, poisoned, server, worker>>

-----------------------------------------------------------------------------
(* Handlers: the last transaction *)

\* _finish_codex_cancellation
Cancelled(o) ==
  /\ State(o, "cancelled")
  /\ conn' = IF conn.active = o THEN [conn EXCEPT !.active = Nobody] ELSE conn

\* The handler returns; the closing thread goes on to the backend.
Return(h) ==
  IF handler[h].kind = "close" THEN To(h, "close")
  ELSE handler' = [handler EXCEPT ![h] = Idle]

Confirm(h, saved) ==
  /\ Running /\ handler[h].pc = "confirm"
  /\ LET kind == handler[h].kind
     IN IF ~saved
        THEN Break /\ UNCHANGED registered /\ To(h, "failed")
        ELSE IF kind = "close" /\ (~conn.exists \/ op[handler[h].op].state # "unknown")
        THEN UNCHANGED <<registered, breaks>> /\ To(h, "failed")
        ELSE IF kind \in {"cancel", "disable", "delete"}
                /\ (~conn.exists \/ conn.revision # handler[h].revision)
        THEN UNCHANGED <<registered, breaks>> /\ To(h, "failed")
        ELSE /\ lease' = Free(IF kind = "close" THEN handler[h].op ELSE h)
             /\ IF kind = "delete"
                THEN conn' = [conn EXCEPT !.exists = FALSE, !.active = Nobody] /\ UNCHANGED op
                ELSE Cancelled(handler[h].op)
             /\ Return(h)
             /\ UNCHANGED breaks
  /\ UNCHANGED <<backend, server, worker, told>>

\* _codex_cancellation_failed: the lease goes, the operation stays unknown.
GiveUp(h, saved) ==
  /\ Running /\ handler[h].pc = "failed"
  /\ IF saved THEN lease' = Free(h) /\ UNCHANGED breaks ELSE Break /\ UNCHANGED lease
  /\ told' = TRUE
  /\ Return(h)
  /\ UNCHANGED <<conn, op, backend, server, worker>>

Submit(h) ==
  /\ Running /\ handler[h].pc = "submit"
  /\ worker' = [worker EXCEPT ![handler[h].own] = "leave"]
  /\ handler' = [handler EXCEPT ![h] = Idle]
  /\ UNCHANGED <<registered, backend, server, told, breaks>>

\* _submission_failed: a sign-out that did not happen stays unknown and keeps
\* its lease; a sign-in has failed.
Dropped(o) ==
  IF op[o].state # "pending" THEN UNCHANGED registered
  ELSE IF op[o].action = "logout" THEN State(o, "unknown") /\ UNCHANGED <<conn, lease>>
  ELSE /\ State(o, "failed")
       /\ lease' = Free(o)
       /\ conn' = IF conn.active = o THEN [conn EXCEPT !.active = Nobody] ELSE conn

Refuse(h, saved) ==
  /\ Running /\ handler[h].pc = "refused"
  /\ IF saved THEN Dropped(handler[h].own) /\ UNCHANGED breaks
     ELSE Break /\ UNCHANGED registered
  /\ handler' = [handler EXCEPT ![h] = Idle]
  /\ UNCHANGED <<backend, server, worker, told>>

-----------------------------------------------------------------------------
(* Workers *)

At(o, pc) == Running /\ worker[o] = pc
Go(o, pc) == worker' = [worker EXCEPT ![o] = pc]

Dequeue(o, read) ==
  /\ At(o, "queued")
  /\ IF read THEN Go(o, IF Pending(o) THEN "prepare" ELSE "unstarted") /\ UNCHANGED breaks
     ELSE Break /\ Go(o, "unstarted")
  /\ UNCHANGED <<registered, backend, server, handler, told>>

\* _prepare_login: the record loses the old session before the file does.
PrepareRecord(o, saved) ==
  /\ At(o, "prepare")
  /\ IF ~saved THEN Break /\ Go(o, "unverified") /\ UNCHANGED conn
     ELSE /\ UNCHANGED breaks
          /\ IF Matches(o) THEN conn' = Present(conn, FALSE) /\ Go(o, "erase")
             ELSE UNCHANGED conn /\ Go(o, "done")
  /\ UNCHANGED <<op, lease, backend, server, handler, told>>

Admitted(o, at) == /\ slot = Nobody /\ ~poisoned /\ alive # "shut"
                   /\ phase # Nobody /\ phase.op = o /\ phase.at = at

BeginErase(o) ==
  /\ At(o, "erase")
  /\ IF Admitted(o, "registered")
     THEN slot' = [kind |-> "prepare", by |-> o, stop |-> FALSE] /\ Go(o, "erasing")
     ELSE UNCHANGED slot /\ Go(o, "unverified")
  /\ UNCHANGED <<registered, phase, poisoned, file, server, handler, told, breaks>>

EndErase(o, cleared) ==
  /\ At(o, "erasing")
  /\ slot' = Nobody
  /\ IF cleared THEN file' = FALSE /\ told' = FALSE /\ UNCHANGED breaks
     ELSE Break /\ file' \in {file, FALSE} /\ UNCHANGED told
  /\ phase' = IF phase # Nobody /\ phase.op = o
              THEN [op |-> o, at |-> IF cleared THEN "prepared" ELSE "cleanup_required"]
              ELSE phase
  /\ Go(o, IF cleared THEN "login" ELSE "unverified")
  /\ UNCHANGED <<registered, poisoned, server, handler>>

\* _mark_login_cleanup_unknown
MarkUnknown(o, saved) ==
  /\ At(o, "unverified")
  /\ IF saved THEN UNCHANGED breaks ELSE Break
  /\ IF saved /\ Matches(o) THEN State(o, "unknown") ELSE UNCHANGED op
  /\ Go(o, "done")
  /\ UNCHANGED <<conn, lease, backend, server, handler, told>>

BeginLogin(o) ==
  /\ At(o, "login")
  /\ IF Admitted(o, "prepared")
     THEN slot' = [kind |-> "auth", by |-> o, stop |-> FALSE] /\ Go(o, "session")
     ELSE /\ UNCHANGED slot
          /\ Go(o, IF poisoned \/ slot # Nobody \/ alive = "shut" THEN "dropped"
                   ELSE "cancelled")
  /\ UNCHANGED <<registered, phase, poisoned, file, server, handler, told, breaks>>

Stopped(o) == slot.stop \/ ~Pending(o)

Leave(o) ==
  /\ slot' = Nobody
  /\ phase' = IF phase # Nobody /\ phase.op = o THEN [op |-> o, at |-> "settled"] ELSE phase

EndSessionHolding(o, result, failed) ==  \* a plausible bug: a broken session keeps its slot
  /\ At(o, "session")
  /\ IF failed THEN Break
     ELSE UNCHANGED breaks /\ (result \in {"cancelled", "skipped"} => Stopped(o))
  /\ IF result = "dropped" THEN UNCHANGED <<slot, phase>> ELSE Leave(o)
  /\ Go(o, result)
  /\ UNCHANGED <<registered, poisoned, file, server, handler, told>>

\* The session ends before the credential is in place: refused by the user or
\* the provider, broken, cancelled - or stopped just before it would persist
\* the credential, which CodexSession.close passes over in silence.  A poll
\* whose read fails stops it as well, and a process or a directory that may be
\* left poisons the connection.
EndSession(o, result, failed) ==
  /\ At(o, "session")
  /\ IF failed THEN Break
     ELSE UNCHANGED breaks /\ (result \in {"cancelled", "skipped"} => Stopped(o))
  /\ poisoned' \in {poisoned, poisoned \/ (failed /\ result # "skipped")}
  /\ Leave(o)
  /\ Go(o, result)
  /\ UNCHANGED <<registered, file, server, handler, told>>

\* install_credentials holds the operation's lock; afterwards a cancellation
\* that came too late to prevent the installation undoes it.  An error after
\* the file is in place leaves the outcome unknown, or the temporary's.
Install(o, sure) ==
  /\ At(o, "session") /\ ~Stopped(o)
  /\ file' = TRUE
  /\ IF sure THEN Go(o, "installed") /\ UNCHANGED <<slot, phase, poisoned, breaks, told>>
     ELSE /\ Break /\ Leave(o) /\ poisoned' = TRUE /\ told' = TRUE
          /\ Go(o, "resolve") \/ Go(o, "dropped")
  /\ UNCHANGED <<registered, server, handler>>

EndInstall(o, result) ==
  /\ At(o, "installed")
  /\ Leave(o) /\ Go(o, result)
  /\ \/ result = "committed" /\ ~Stopped(o) /\ UNCHANGED <<file, poisoned, breaks, told>>
     \/ /\ result = "cancelled" /\ file' = FALSE
        /\ (Stopped(o) /\ UNCHANGED breaks) \/ Break
        /\ UNCHANGED <<poisoned, told>>
     \/ /\ result = "dropped" /\ file' \in {file, FALSE}
        /\ Break /\ poisoned' = TRUE /\ told' = TRUE
  /\ UNCHANGED <<registered, server, handler>>

\* The outcome is told without a look at the file: the session passed over its
\* credential, or nothing was begun.
Unlooked(o) ==
  worker[o] \in {"skipped", "unstarted"} \/ (op[o].action = "logout" /\ worker[o] = "cancelled")

\* _finish: an operation nobody withdrew takes the outcome.
Finish(o, saved) ==
  /\ Running /\ worker[o] \in {"committed", "skipped", "cancelled", "rejected", "unstarted"}
  /\ LET taken == alive = "up" /\ Matches(o)
         outcome == CASE alive # "up" -> "unknown"
                      [] taken /\ worker[o] \in {"committed", "skipped"} -> "succeeded"
                      [] taken /\ worker[o] = "rejected" -> "failed"
                      [] OTHER -> "cancelled"
     IN IF ~saved
        THEN /\ Break /\ UNCHANGED registered
             /\ Go(o, IF worker[o] \in {"cancelled", "rejected"} THEN "done"
                      ELSE IF worker[o] = "unstarted" \/ op[o].action = "logout" THEN "dropped"
                      ELSE "resolve")
        ELSE /\ lease' = Free(o)
             /\ Go(o, "done")
             /\ IF op[o].state # "pending" THEN UNCHANGED <<op, conn>>
                ELSE /\ State(o, outcome)
                     /\ conn' = IF conn.active # o \/ outcome = "unknown" THEN conn
                                ELSE [conn EXCEPT !.active = Nobody,
                                        !.present = outcome = "succeeded"
                                                    /\ op[o].action = "start",
                                        !.assumed = Unlooked(o)]
             /\ UNCHANGED breaks
  /\ UNCHANGED <<backend, server, handler, told>>

\* _resolve_login_commit_failure: the outcome of a login that could not be
\* recorded is failed once its credential is gone, unknown otherwise.  It
\* holds the registry while cancel_auth removes the credential.
Resolve(o, cleared, saved) ==
  /\ At(o, "resolve") /\ Go(o, "done")
  /\ LET owns == /\ conn.exists /\ conn.revision = op[o].revision
                 /\ conn.active \in {Nobody, o} /\ Generation = o
         able == owns /\ slot = Nobody /\ alive # "shut"
         clean == able /\ cleared /\ ~poisoned
     IN IF op[o].state \notin {"pending", "succeeded"}
        THEN cleared /\ saved /\ UNCHANGED <<registered, file, phase, breaks>>
        ELSE /\ IF cleared /\ saved THEN UNCHANGED breaks ELSE Break
             /\ file' \in IF ~able THEN {file} ELSE IF cleared THEN {FALSE} ELSE {file, FALSE}
             /\ phase' = IF able /\ cleared THEN Nobody ELSE phase
             /\ IF ~saved THEN UNCHANGED registered
                ELSE /\ State(o, IF clean THEN "failed" ELSE "unknown")
                     /\ lease' = IF clean THEN Free(o) ELSE lease
                     /\ conn' = IF ~owns THEN conn
                                ELSE Present([conn EXCEPT !.active = IF clean THEN Nobody
                                                                    ELSE o], FALSE)
  /\ UNCHANGED <<slot, poisoned, server, handler, told>>

Drop(o, saved) ==
  /\ At(o, "dropped") /\ Go(o, "done")
  /\ IF saved THEN Dropped(o) /\ UNCHANGED breaks ELSE Break /\ UNCHANGED registered
  /\ UNCHANGED <<backend, server, handler, told>>

\* The worker of a sign-out calls the backend's logout.
BeginSignOut(o, read) ==
  /\ At(o, "leave")
  /\ IF read THEN UNCHANGED breaks ELSE Break
  /\ IF ~read \/ ~Pending(o) THEN Go(o, "unstarted") /\ UNCHANGED <<slot, target>>
     ELSE IF slot # Nobody /\ slot.kind # "auth"
     THEN Go(o, "dropped") /\ UNCHANGED <<slot, target>>
     ELSE /\ Go(o, "leaving")
          /\ target' = [target EXCEPT ![o] = Generation]
          /\ slot' = IF slot = Nobody THEN Nobody ELSE [slot EXCEPT !.stop = TRUE]
  /\ UNCHANGED <<registered, phase, poisoned, file, alive, life, handler, told>>

\* It waits for the sign-in, for a limited time, and takes the slot.
AwaitSignOut(o) ==
  /\ At(o, "leaving")
  /\ LET awaited == slot # Nobody /\ slot.by = target[o]
     IN IF awaited THEN Break /\ Go(o, "dropped") /\ UNCHANGED slot
        ELSE /\ UNCHANGED breaks
             /\ IF slot # Nobody \/ alive = "shut" THEN Go(o, "dropped") /\ UNCHANGED slot
                ELSE IF Generation # target[o] THEN Go(o, "cancelled") /\ UNCHANGED slot
                ELSE Go(o, "clearing")
                     /\ slot' = [kind |-> "cleanup", by |-> o, stop |-> FALSE]
  /\ UNCHANGED <<registered, phase, poisoned, file, server, handler, told>>

EndSignOut(o, cleared) ==
  /\ At(o, "clearing")
  /\ slot' = Nobody
  /\ IF cleared
     THEN /\ file' = FALSE /\ told' = FALSE /\ phase' = Nobody /\ UNCHANGED breaks
          /\ Go(o, IF poisoned THEN "dropped" ELSE "committed")
     ELSE /\ Break /\ file' \in {file, FALSE} /\ Go(o, "dropped")
          /\ UNCHANGED <<phase, told>>
  /\ UNCHANGED <<registered, poisoned, server, handler>>

-----------------------------------------------------------------------------
(* The server closes, dies and starts *)

\* _interrupt_owned_operations: the closing thread withdraws the operation.
Close(h, saved) ==
  /\ alive = "up" /\ handler[h] = Idle
  /\ alive' = "closing"
  /\ UNCHANGED <<conn, lease, backend, life, target, worker, told>>
  /\ LET o == conn.active
     IN IF ~saved THEN /\ Break /\ UNCHANGED op
                       /\ Occupy(h, "close", "close", Nobody, Nobody, FALSE)
        ELSE /\ UNCHANGED breaks
             /\ op' = [p \in Op |-> IF op[p] # Nobody /\ op[p].state = "pending"
                                       /\ op[p].life = life
                                    THEN [op[p] EXCEPT !.state = "unknown"] ELSE op[p]]
             /\ IF o # Nobody /\ Open(o) /\ op[o].life = life /\ conn.exists
                THEN Occupy(h, IF op[o].action = "logout" THEN "logout" ELSE "register",
                            "close", o, Nobody, ~conn.present)
                ELSE Occupy(h, "close", "close", Nobody, Nobody, FALSE)

\* CodexBackend.close: nothing is admitted any more, and what runs is cancelled.
CloseBackend(h) ==
  /\ Running /\ handler[h].pc = "close"
  /\ alive' = "shut"
  /\ IF slot = Nobody THEN UNCHANGED slot /\ handler' = [handler EXCEPT ![h] = Idle]
     ELSE /\ slot' = [slot EXCEPT !.stop = TRUE]
          /\ handler' = [handler EXCEPT ![h].pc = "drain", ![h].op =
                           IF slot.kind \in {"auth", "prepare"} THEN slot.by ELSE Nobody]
  /\ UNCHANGED <<registered, phase, poisoned, file, life, target, worker, told, breaks>>

\* A sign-in that ends within the limit has its credential removed.
Drain(h, cleared) ==
  /\ Running /\ handler[h].pc = "drain"
  /\ handler' = [handler EXCEPT ![h] = Idle]
  /\ \/ /\ slot = Nobody /\ cleared
        /\ IF handler[h].op = Nobody THEN UNCHANGED <<file, told>>
           ELSE file' = FALSE /\ told' = FALSE
        /\ UNCHANGED <<poisoned, breaks>>
     \/ /\ slot = Nobody /\ ~cleared /\ handler[h].op # Nobody
        /\ Break /\ poisoned' = TRUE /\ told' = TRUE /\ file' \in {file, FALSE}
     \/ /\ slot # Nobody /\ ~cleared
        /\ Break /\ told' = TRUE /\ UNCHANGED <<poisoned, file>>
  /\ UNCHANGED <<registered, slot, phase, server, worker>>

\* A deletion cut short is told by its request, which stays unresolved.
Die ==
  /\ Running /\ life < MaxStarts
  /\ alive' = "down"
  /\ slot' = Nobody /\ phase' = Nobody /\ poisoned' = FALSE
  /\ worker' = [o \in Op |-> "none"]
  /\ handler' = [h \in Handler |-> Idle]
  /\ target' = [x \in Op \cup Handler |-> Nobody]
  /\ told' = (told \/ \E h \in Handler : handler[h].kind = "delete")
  /\ UNCHANGED <<registered, file, life, breaks>>

\* _recover: crash copies are removed (_recover_codex_artifacts) - a record
\* whose could not be is taken to have a credential - an operation of another
\* server is unknown, its lease is void.
Start(recovered) ==
  /\ alive = "down" /\ alive' = "up" /\ life' = life + 1
  /\ IF recovered THEN UNCHANGED <<conn, breaks>>
     ELSE /\ Break /\ conn.exists
          /\ conn' = [conn EXCEPT !.present = TRUE, !.assumed = TRUE]
  /\ op' = [o \in Op |-> IF op[o] # Nobody /\ op[o].state = "pending"
                         THEN [op[o] EXCEPT !.state = "unknown"] ELSE op[o]]
  /\ lease' = Nobody
  /\ UNCHANGED <<backend, target, worker, handler, told>>

-----------------------------------------------------------------------------
Handle(h) ==
  \/ Register(h) \/ StopWorker(h) \/ SignOut(h) \/ AwaitWorker(h) \/ Reserve(h) \/ Submit(h)
  \/ CloseBackend(h)
  \/ \E ok \in BOOLEAN :
       Clear(h, ok) \/ Confirm(h, ok) \/ GiveUp(h, ok) \/ Refuse(h, ok) \/ Drain(h, ok)

Work(o) ==
  \/ BeginErase(o) \/ BeginLogin(o) \/ AwaitSignOut(o)
  \/ \E result \in {"cancelled", "rejected", "skipped", "dropped"}, failed \in BOOLEAN :
       EndSession(o, result, failed)
  \/ \E result \in {"committed", "cancelled", "dropped"} : EndInstall(o, result)
  \/ \E ok \in BOOLEAN :
       \/ Dequeue(o, ok) \/ PrepareRecord(o, ok) \/ EndErase(o, ok) \/ MarkUnknown(o, ok)
       \/ Install(o, ok) \/ Finish(o, ok) \/ Drop(o, ok)
       \/ BeginSignOut(o, ok) \/ EndSignOut(o, ok)
       \/ \E saved \in BOOLEAN : Resolve(o, ok, saved)

Next ==
  \/ \E o \in Op : Work(o) \/ \E accepted \in BOOLEAN : StartSignIn(o, accepted)
  \/ \E h \in Handler :
       \/ Handle(h) \/ Disable(h) \/ Delete(h)
       \/ \E o \in Op : Cancel(h, o) \/ LogOut(h, o)
       \/ \E saved \in BOOLEAN : Close(h, saved)
  \/ Enable \/ Die
  \/ \E recovered \in BOOLEAN : Start(recovered)

\* Threads run on and a session has a deadline.
Fairness ==
  /\ \A o \in Op : WF_svars(Work(o))
  /\ \A h \in Handler : WF_svars(Handle(h))

Spec == Init /\ [][Next]_svars /\ Fairness

-----------------------------------------------------------------------------
(* Properties *)

\* Sessions, the credential file and the threads under way.
TypeOK ==
  /\ conn \in ConnectionType /\ op \in [Op -> OpType \cup {Nobody}]
  /\ lease \in LeaseType \cup {Nobody} /\ slot \in SlotType \cup {Nobody}
  /\ phase \in PhaseType \cup {Nobody}
  /\ worker \in [Op -> WorkerType] /\ handler \in [Handler -> HandlerType]
  /\ poisoned \in BOOLEAN /\ file \in BOOLEAN /\ told \in BOOLEAN
  /\ alive \in {"up", "closing", "shut", "down"} /\ life \in 1 .. MaxStarts
  /\ target \in [Op \cup Handler -> Op \cup {Nobody}]
  /\ breaks \in 0 .. MaxBreaks

\* No credential survives unnoticed: once a record shows neither a session
\* nor an unresolved operation, or is gone, the file holds no credential,
\* unless a deletion is at work, an error said that it may, or the record was
\* written without a look.
NoSilentCredential ==
  file => \/ conn.exists /\ (conn.present \/ conn.assumed)
          \/ conn.exists /\ conn.active # Nobody /\ Open(conn.active)
          \/ lease # Nobody /\ lease.kind = "delete"
          \/ told

\* A sign-out was cancelled.  Its handler may still be at work, and may delete
\* the credential of a later session.
SignOutCancelled ==
  \E o \in Op : op[o] # Nobody /\ op[o].action = "logout" /\ op[o].state = "cancelled"

\* A connection that shows a session has the credential.
SessionHasCredential == conn.exists /\ conn.present => file

\* It has, as long as no sign-out was cancelled and the record was written by
\* who had seen the file.
ShownSessionExists == SessionHasCredential \/ conn.assumed \/ SignOutCancelled

\* The record is written without a look only after a failure: of a start to
\* remove crash copies, of a poll to read the registry - or where a cancelled
\* sign-out was still at work.
AssumedForAReason == conn.assumed => breaks > 0 \/ SignOutCancelled

\* The connection's active operation is an unresolved one, and nothing but a
\* withdrawal, its own worker or a restart resolves it.
ActiveIsOpen == conn.active # Nobody => Open(conn.active)

\* The sign-in that holds the connection's slot is the one whose generation
\* is registered: no second sign-in began under it.
SlotIsCurrent ==
  slot # Nobody /\ slot.kind \in {"auth", "prepare"} => phase # Nobody /\ phase.op = slot.by

\* All of these, checked together.
SignInSafe ==
  /\ NoSilentCredential /\ ShownSessionExists /\ AssumedForAReason
  /\ ActiveIsOpen /\ SlotIsCurrent
=============================================================================
