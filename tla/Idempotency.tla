----------------------------- MODULE Idempotency -----------------------------
(***************************************************************************)
(* Replay of tool calls by request_id                                      *)
(* (server/src/narumi_server/idempotency.py, called by app.py's dispatch   *)
(* for every tool but the provider tools).                                 *)
(*                                                                         *)
(* A call looks its key's lock up in a bounded registry, under the         *)
(* registry's guard, takes the lock, replays the saved response or runs    *)
(* the handler and saves its response, and releases the lock.  Recording   *)
(* permission actions take the lock while they still hold the guard, and   *)
(* return busy when they cannot.  The registry drops old unlocked keys     *)
(* when it outgrows its limit, so a key may come back with another lock.   *)
(* Lock objects are numbered as they are made, so that the numbers of the  *)
(* registry's locks also tell in which order its keys were inserted.       *)
(***************************************************************************)
EXTENDS Integers, FiniteSets

CONSTANTS
  Caller,      \* threads that dispatch calls
  Request,     \* request_ids
  Permission,  \* those used for NONBLOCKING_TOOLS
  Limit,       \* 4096 in the code: keys the registry keeps before a cleanup
  Drop,        \* 2048 in the code: the oldest keys a cleanup looks at
  MaxCalls,    \* bound on the calls made
  NoRequest

ASSUME StoreAssumption ==
  /\ Permission \subseteq Request /\ NoRequest \notin Request
  /\ Limit \in Nat /\ Drop \in 0 .. Limit /\ MaxCalls \in Nat

VARIABLES
  inflight,    \* _inflight: the lock object of each key, 0 for a key it lacks
  made,        \* lock objects made since the process started
  held,        \* lock objects that are locked
  saved,       \* rows of the requests table (on disk)
  pc, req, mine,
  calls,
  (* observation *)
  evicted,     \* keys a cleanup dropped
  unsaved,     \* keys whose handler succeeded and whose row was not written
  effects      \* handlers that succeeded, per key

registry == <<inflight, made, evicted>>
vars == <<registry, held, saved, pc, req, mine, calls, unsaved, effects>>

Init ==
  /\ inflight = [r \in Request |-> 0] /\ made = 0
  /\ held = {}
  /\ saved = {}
  /\ pc = [c \in Caller |-> "idle"]
  /\ req = [c \in Caller |-> NoRequest]
  /\ mine = [c \in Caller |-> 0]
  /\ calls = 0
  /\ evicted = {} /\ unsaved = {}
  /\ effects = [r \in Request |-> 0]

(* The keys a cleanup drops from the grown registry: of its Drop oldest    *)
(* keys those whose lock is free.                                          *)
Dropped(grown) ==
  LET keys   == {k \in Request : grown[k] # 0}
      Older(k) == {j \in keys : grown[j] < grown[k]}
  IN  {k \in keys : /\ Cardinality(keys) > Limit
                    /\ Cardinality(Older(k)) < Drop
                    /\ grown[k] \notin held}

LockForShared(r) ==  \* a plausible bug: the new key gets the lock made last
  LET grown == [inflight EXCEPT ![r] = IF made = 0 THEN 1 ELSE made]
  IN  IF inflight[r] # 0 THEN UNCHANGED registry
      ELSE /\ inflight' = grown /\ made' = grown[r] /\ UNCHANGED evicted

(* _lock_for: find the key's lock or insert a new one and clean up; the    *)
(* key at hand is put back when the cleanup took it.                       *)
LockFor(r) ==
  LET grown == [inflight EXCEPT ![r] = made + 1]
      gone  == Dropped(grown) \ {r}
  IN  IF inflight[r] # 0 THEN UNCHANGED registry
      ELSE /\ made' = made + 1
           /\ inflight' = [k \in Request |-> IF k \in gone THEN 0 ELSE grown[k]]
           /\ evicted' = evicted \cup gone

Begin(c, r) ==
  /\ pc[c] = "idle" /\ calls < MaxCalls
  /\ calls' = calls + 1
  /\ req' = [req EXCEPT ![c] = r]
  /\ mine' = [mine EXCEPT ![c] = inflight'[r]]

LookupBlocking(c, r) ==
  /\ r \notin Permission
  /\ LockFor(r)
  /\ Begin(c, r)
  /\ pc' = [pc EXCEPT ![c] = "waiting"]
  /\ UNCHANGED <<held, saved, unsaved, effects>>

LookupPermissionLater(c, r) ==  \* a plausible bug: acquired outside the guard
  /\ r \in Permission
  /\ LockFor(r)
  /\ Begin(c, r)
  /\ pc' = [pc EXCEPT ![c] = "waiting"]
  /\ UNCHANGED <<held, saved, unsaved, effects>>

LookupPermission(c, r) ==
  /\ r \in Permission
  /\ LockFor(r)
  /\ inflight'[r] \notin held
  /\ Begin(c, r)
  /\ held' = held \cup {inflight'[r]}
  /\ pc' = [pc EXCEPT ![c] = "checking"]
  /\ UNCHANGED <<saved, unsaved, effects>>

Acquire(c) ==
  /\ pc[c] = "waiting"
  /\ mine[c] \notin held
  /\ held' = held \cup {mine[c]}
  /\ pc' = [pc EXCEPT ![c] = "checking"]
  /\ UNCHANGED <<registry, saved, req, mine, calls, unsaved, effects>>

(* The `finally`: the lock is released and the call returns. *)
Release(c) ==
  /\ held' = held \ {mine[c]}
  /\ pc' = [pc EXCEPT ![c] = "idle"]
  /\ req' = [req EXCEPT ![c] = NoRequest]
  /\ mine' = [mine EXCEPT ![c] = 0]

(* The saved response, or an error when the key served something else. *)
Replay(c) ==
  /\ pc[c] = "checking" /\ req[c] \in saved
  /\ Release(c)
  /\ UNCHANGED <<registry, saved, calls, unsaved, effects>>

Start(c) ==
  /\ pc[c] = "checking" /\ req[c] \notin saved
  /\ pc' = [pc EXCEPT ![c] = "running"]
  /\ UNCHANGED <<registry, held, saved, req, mine, calls, unsaved, effects>>

HandlerFailsKeepingLock(c) ==  \* a plausible bug: an error skips the release
  /\ pc[c] = "running"
  /\ pc' = [pc EXCEPT ![c] = "idle"]
  /\ UNCHANGED <<registry, held, saved, req, mine, calls, unsaved, effects>>

(* Errors are not stored. *)
HandlerFails(c) ==
  /\ pc[c] = "running"
  /\ Release(c)
  /\ UNCHANGED <<registry, saved, calls, unsaved, effects>>

HandlerSucceeds(c) ==
  /\ pc[c] = "running"
  /\ effects' = [effects EXCEPT ![req[c]] = @ + 1]
  /\ pc' = [pc EXCEPT ![c] = "ran"]
  /\ UNCHANGED <<registry, held, saved, req, mine, calls, unsaved>>

SaveNothing(c) ==  \* a plausible bug: the row is not written
  /\ pc[c] = "ran"
  /\ Release(c)
  /\ UNCHANGED <<registry, saved, calls, unsaved, effects>>

Save(c) ==
  /\ pc[c] = "ran"
  /\ saved' = saved \cup {req[c]}
  /\ Release(c)
  /\ UNCHANGED <<registry, calls, unsaved, effects>>

(* save_request raises: the handler's work is done, the row is not there. *)
SaveFails(c) ==
  /\ pc[c] = "ran"
  /\ unsaved' = unsaved \cup {req[c]}
  /\ Release(c)
  /\ UNCHANGED <<registry, saved, calls, effects>>

(* The server dies and starts again: only the requests table remains. *)
Restart ==
  /\ \E c \in Caller : pc[c] # "idle"
  /\ inflight' = [r \in Request |-> 0] /\ made' = 0
  /\ held' = {}
  /\ pc' = [c \in Caller |-> "idle"]
  /\ req' = [c \in Caller |-> NoRequest]
  /\ mine' = [c \in Caller |-> 0]
  /\ unsaved' = unsaved \cup {req[c] : c \in {d \in Caller : pc[d] = "ran"}}
  /\ UNCHANGED <<evicted, saved, calls, effects>>

Return(c) ==
  \/ Acquire(c) \/ Replay(c) \/ Start(c) \/ HandlerFails(c)
  \/ HandlerSucceeds(c) \/ Save(c) \/ SaveFails(c)

Next ==
  \/ \E c \in Caller :
       \/ \E r \in Request : LookupBlocking(c, r) \/ LookupPermission(c, r)
       \/ Return(c)
  \/ Restart

(* A dispatched call keeps running: its handler returns or raises. *)
Spec == Init /\ [][Next]_vars /\ \A c \in Caller : WF_vars(Return(c))

-----------------------------------------------------------------------------
Busy == {"running", "ran"}

(* Locks in the registry, locks held, saved rows and calls refer to what exists. *)
TypeOK ==
  /\ made \in Nat
  /\ inflight \in [Request -> 0 .. made]
  /\ \A j, k \in Request : inflight[j] # 0 /\ inflight[j] = inflight[k] => j = k
  /\ held \subseteq 1 .. made
  /\ saved \subseteq Request /\ evicted \subseteq Request /\ unsaved \subseteq Request
  /\ pc \in [Caller -> {"idle", "waiting", "checking"} \cup Busy]
  /\ req \in [Caller -> Request \cup {NoRequest}]
  /\ mine \in [Caller -> 0 .. made]
  /\ calls \in 0 .. MaxCalls
  /\ effects \in [Request -> Nat]

(* "Concurrent calls sharing one key are serialized so at most one of them *)
(* executes" (idempotency.py:5-6), with one exception: two calls of one key *)
(* are at work at once if a cleanup dropped the key between one call's     *)
(* lookup and its acquire; permission actions not even then.               *)
SerializedUnlessEvicted ==
  \A c, d \in Caller :
    c # d /\ pc[c] \in Busy /\ pc[d] \in Busy /\ req[c] = req[d]
      => req[c] \in evicted \ Permission

(* A key takes effect once, whatever retries, restarts and cleanups happen, *)
(* except when the row of a successful call could not be written, and for   *)
(* a blocking tool whose lock a cleanup dropped.                            *)
TakesEffectOnce ==
  \A r \in Request :
    r \notin unsaved /\ (r \in Permission \/ r \notin evicted) => effects[r] <= 1

(* Every call returns, also one that waits for another call of its key. *)
CallsReturn == \A c \in Caller : pc[c] # "idle" ~> pc[c] = "idle"
=============================================================================
