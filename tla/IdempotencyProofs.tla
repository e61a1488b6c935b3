-------------------------- MODULE IdempotencyProofs -------------------------
(***************************************************************************)
(* A mutating call takes effect at most once per request_id: what the runs *)
(* of Idempotency check, for every number of callers, keys and calls and   *)
(* every size of the registry of locks.                                    *)
(*                                                                         *)
(* SerializedUnlessEvicted and TakesEffectOnce are not inductive.  That two *)
(* calls of a key exclude each other needs that each holds a lock of its   *)
(* own (HoldersExclude) and that the lock a call waits for is still the    *)
(* one the registry has for its key (CallsHaveLocks), which a cleanup may  *)
(* end.  That an effect is not repeated needs that what ran is saved       *)
(* before the lock is given back (RunsUnsaved, EffectsAreSaved).           *)
(***************************************************************************)
EXTENDS Idempotency, TLAPS

-----------------------------------------------------------------------------
(* The inductive invariant *)

(* The calls that have taken their lock. *)
Holding == {"checking"} \cup Busy

(* Each of them holds a lock of its own. *)
HoldersExclude ==
  /\ \A c \in Caller : pc[c] \in Holding => mine[c] \in held
  /\ \A c, d \in Caller : c # d /\ pc[c] \in Holding /\ pc[d] \in Holding => mine[c] # mine[d]

(* A call has a key and a lock; unless its key was dropped, that lock is   *)
(* the registry's.  A permission action always holds it.                   *)
CallsHaveLocks ==
  \A c \in Caller : pc[c] # "idle" =>
    /\ req[c] \in Request /\ mine[c] # 0
    /\ req[c] \notin evicted \/ req[c] \in Permission => inflight[req[c]] = mine[c]
    /\ req[c] \in Permission => pc[c] \in Holding

(* The keys of which nothing was lost. *)
Protected(r) == r \notin unsaved /\ (r \in Permission \/ r \notin evicted)

(* A handler of such a key starts only before any effect was saved.        *)
RunsUnsaved ==
  \A c \in Caller : pc[c] = "running" /\ Protected(req[c]) => req[c] \notin saved

(* What took effect is saved, or about to be by the call that did it.      *)
EffectsAreSaved ==
  \A r \in Request : Protected(r) =>
    /\ effects[r] <= 1
    /\ effects[r] # 0 => r \in saved \/ \E c \in Caller : pc[c] = "ran" /\ req[c] = r
    /\ \A c \in Caller : pc[c] = "ran" /\ req[c] = r => r \notin saved

IInv == TypeOK /\ HoldersExclude /\ CallsHaveLocks /\ RunsUnsaved /\ EffectsAreSaved

-----------------------------------------------------------------------------
(* The locks *)

(* The keys a cleanup drops are keys whose lock is free. *)
LEMMA DroppedAreFree ==
  ASSUME NEW grown, NEW k \in Dropped(grown)
  PROVE  grown[k] \notin held
  BY DEF Dropped

(* A lookup ends with a lock for its key; a key that is held, or not       *)
(* dropped, keeps the lock it has.                                         *)
LEMMA LockForGives ==
  ASSUME TypeOK, NEW r \in Request, LockFor(r)
  PROVE  /\ made' \in Nat /\ made <= made'
         /\ inflight' \in [Request -> 0 .. made']
         /\ \A j, k \in Request : inflight'[j] # 0 /\ inflight'[j] = inflight'[k] => j = k
         /\ inflight'[r] # 0
         /\ evicted \subseteq evicted' /\ evicted' \subseteq Request
         /\ \A k \in Request : inflight[k] # 0 /\ (inflight[k] \in held \/ k \notin evicted') =>
              inflight'[k] = inflight[k]
<1>1. CASE inflight[r] # 0
  BY <1>1 DEF LockFor, TypeOK, registry
<1>2. CASE inflight[r] = 0
  <2> DEFINE grown == [inflight EXCEPT ![r] = made + 1]
             gone  == Dropped(grown) \ {r}
  <2>1. /\ made' = made + 1
        /\ inflight' = [k \in Request |-> IF k \in gone THEN 0 ELSE grown[k]]
        /\ evicted' = evicted \cup gone
    BY <1>2 DEF LockFor
  <2>2. gone \subseteq Request
    BY DEF Dropped
  <2>3. r \notin gone
    OBVIOUS
  <2>4. grown \in [Request -> 0 .. made'] /\ grown[r] = made + 1
    BY <2>1 DEF TypeOK
  <2>5. \A k \in Request \ {r} : grown[k] = inflight[k] /\ inflight[k] \in 0 .. made
    BY DEF TypeOK
  <2>6. \A k \in gone : inflight[k] \notin held
    <3> SUFFICES ASSUME NEW k \in gone PROVE inflight[k] \notin held
      OBVIOUS
    <3>1. grown[k] \notin held
      BY DroppedAreFree
    <3> QED
      BY <3>1
  <2> HIDE DEF grown, gone
  <2>7. \A j, k \in Request : inflight'[j] # 0 /\ inflight'[j] = inflight'[k] => j = k
    BY <2>1, <2>4, <2>5 DEF TypeOK
  <2>8. inflight' \in [Request -> 0 .. made']
    BY <2>1, <2>4
  <2>9. \A k \in Request : inflight[k] # 0 /\ (inflight[k] \in held \/ k \notin evicted') =>
          inflight'[k] = inflight[k]
    BY <1>2, <2>1, <2>6, <2>5
  <2>10. made' \in Nat /\ made <= made' /\ inflight'[r] # 0
    BY <2>1, <2>3, <2>4 DEF TypeOK
  <2> QED
    BY <2>1, <2>2, <2>7, <2>8, <2>9, <2>10 DEF TypeOK
<1> QED
  BY <1>1, <1>2

(* A call that returns gives its lock back. *)
LEMMA ReleaseType ==
  ASSUME TypeOK, NEW c \in Caller, Release(c)
  PROVE  /\ held' \subseteq 1 .. made
         /\ pc' \in [Caller -> {"idle", "waiting", "checking"} \cup Busy]
         /\ req' \in [Caller -> Request \cup {NoRequest}]
         /\ mine' \in [Caller -> 0 .. made]
<1>1. 0 \in 0 .. made
  BY DEF TypeOK
<1> QED
  BY <1>1 DEF Release, TypeOK

-----------------------------------------------------------------------------
(* The steps *)

(* No call and no lock is there at first, and nothing is saved. *)
LEMMA InitIInv == Init => IInv
<1> SUFFICES ASSUME Init PROVE IInv
  OBVIOUS
<1>1. TypeOK
  BY StoreAssumption DEF Init, TypeOK
<1>2. HoldersExclude
  BY DEF Init, Busy, HoldersExclude, Holding
<1>3. CallsHaveLocks
  BY DEF Init, CallsHaveLocks
<1>4. RunsUnsaved
  BY DEF Init, RunsUnsaved
<1>5. EffectsAreSaved
  BY DEF Init, EffectsAreSaved
<1> QED
  BY <1>1, <1>2, <1>3, <1>4, <1>5 DEF IInv

(* A call looks its lock up and waits for it. *)
LEMMA LookupBlockingKeeps ==
  ASSUME IInv, NEW c \in Caller, NEW r \in Request, LookupBlocking(c, r)
  PROVE  IInv'
<1>1. /\ made' \in Nat /\ made <= made'
      /\ inflight' \in [Request -> 0 .. made']
      /\ \A j, k \in Request : inflight'[j] # 0 /\ inflight'[j] = inflight'[k] => j = k
      /\ inflight'[r] # 0
      /\ evicted \subseteq evicted' /\ evicted' \subseteq Request
      /\ \A k \in Request : inflight[k] # 0 /\ (inflight[k] \in held \/ k \notin evicted') =>
           inflight'[k] = inflight[k]
  BY LockForGives DEF IInv, LookupBlocking
<1>2. TypeOK'
  <2>1. held' \subseteq 1 .. made' /\ mine' \in [Caller -> 0 .. made']
    BY <1>1 DEF LookupBlocking, Begin, IInv, TypeOK
  <2>2. calls' \in 0 .. MaxCalls
    BY StoreAssumption DEF LookupBlocking, Begin, IInv, TypeOK
  <2> QED
    BY <1>1, <2>2 DEF LookupBlocking, Begin, IInv, TypeOK
<1>3. HoldersExclude'
  BY DEF LookupBlocking, Begin, IInv, HoldersExclude, Holding, Busy
<1>4. CallsHaveLocks'
  BY <1>1 DEF LookupBlocking, Begin, IInv, TypeOK, HoldersExclude, CallsHaveLocks
<1>5. RunsUnsaved'
  BY <1>1 DEF LookupBlocking, Begin, IInv, RunsUnsaved, Protected
<1>6. EffectsAreSaved'
  BY <1>1 DEF LookupBlocking, Begin, IInv, EffectsAreSaved, Protected
<1> QED
  BY <1>2, <1>3, <1>4, <1>5, <1>6 DEF IInv

(* A permission action finds its lock free and takes it at once. *)
LEMMA LookupPermissionKeeps ==
  ASSUME IInv, NEW c \in Caller, NEW r \in Request, LookupPermission(c, r)
  PROVE  IInv'
<1>1. /\ made' \in Nat /\ made <= made'
      /\ inflight' \in [Request -> 0 .. made']
      /\ \A j, k \in Request : inflight'[j] # 0 /\ inflight'[j] = inflight'[k] => j = k
      /\ inflight'[r] # 0
      /\ evicted \subseteq evicted' /\ evicted' \subseteq Request
      /\ \A k \in Request : inflight[k] # 0 /\ (inflight[k] \in held \/ k \notin evicted') =>
           inflight'[k] = inflight[k]
  BY LockForGives DEF IInv, LookupPermission
<1>2. TypeOK'
  <2>1. inflight'[r] \in 1 .. made'
    BY <1>1
  <2>2. mine' \in [Caller -> 0 .. made']
    BY <1>1 DEF LookupPermission, Begin, IInv, TypeOK
  <2>3. 1 .. made \subseteq 1 .. made'
    BY <1>1 DEF IInv, TypeOK
  <2>4. held' \subseteq 1 .. made'
    BY <2>1, <2>3 DEF LookupPermission, IInv, TypeOK
  <2>5. calls' \in 0 .. MaxCalls
    BY StoreAssumption DEF LookupPermission, Begin, IInv, TypeOK
  <2> QED
    BY <1>1, <2>5, <2>4 DEF LookupPermission, Begin, IInv, TypeOK
<1>3. HoldersExclude'
  BY DEF LookupPermission, Begin, IInv, TypeOK, HoldersExclude
<1>4. CallsHaveLocks'
  BY <1>1 DEF LookupPermission, Begin, IInv, TypeOK, HoldersExclude, CallsHaveLocks, Holding
<1>5. RunsUnsaved'
  BY <1>1 DEF LookupPermission, Begin, IInv, RunsUnsaved, Protected
<1>6. EffectsAreSaved'
  BY <1>1 DEF LookupPermission, Begin, IInv, EffectsAreSaved, Protected
<1> QED
  BY <1>2, <1>3, <1>4, <1>5, <1>6 DEF IInv

(* A call whose lock is free takes it. *)
LEMMA AcquireKeeps ==
  ASSUME IInv, NEW c \in Caller, Acquire(c)
  PROVE  IInv'
<1>1. TypeOK'
  <2>1. mine[c] \in 1 .. made
    BY DEF Acquire, IInv, TypeOK, CallsHaveLocks
  <2>2. held' \subseteq 1 .. made
    BY <2>1 DEF Acquire, IInv, TypeOK
  <2> QED
    BY <2>2 DEF Acquire, registry, IInv, TypeOK
<1>2. HoldersExclude'
  BY DEF Acquire, IInv, HoldersExclude
<1>3. CallsHaveLocks'
  BY DEF Acquire, registry, IInv, CallsHaveLocks, Holding
<1>4. RunsUnsaved'
  BY DEF Acquire, registry, IInv, RunsUnsaved, Protected
<1>5. EffectsAreSaved'
  BY DEF Acquire, registry, IInv, EffectsAreSaved, Protected
<1> QED
  BY <1>1, <1>2, <1>3, <1>4, <1>5 DEF IInv

(* A call that finds a row returns it. *)
LEMMA ReplayKeeps ==
  ASSUME IInv, NEW c \in Caller, Replay(c)
  PROVE  IInv'
<1>1. TypeOK'
  BY ReleaseType DEF Replay, registry, IInv, TypeOK
<1>2. HoldersExclude'
  BY DEF Replay, Release, IInv, HoldersExclude, Holding, Busy, TypeOK
<1>3. CallsHaveLocks'
  BY DEF Replay, Release, registry, IInv, CallsHaveLocks, TypeOK
<1>4. RunsUnsaved'
  BY DEF Replay, Release, registry, IInv, RunsUnsaved, Protected
<1>5. EffectsAreSaved'
  BY DEF Replay, Release, registry, IInv, EffectsAreSaved, Protected
<1> QED
  BY <1>1, <1>2, <1>3, <1>4, <1>5 DEF IInv

(* A call that finds no row runs its handler. *)
LEMMA StartKeeps ==
  ASSUME IInv, NEW c \in Caller, Start(c)
  PROVE  IInv'
<1>1. TypeOK'
  BY DEF Start, registry, IInv, TypeOK, Busy
<1>2. HoldersExclude'
  BY DEF Start, IInv, HoldersExclude, Holding
<1>3. CallsHaveLocks'
  BY DEF Start, registry, IInv, CallsHaveLocks, Holding, Busy
<1>4. RunsUnsaved'
  BY DEF Start, registry, IInv, RunsUnsaved, Protected
<1>5. EffectsAreSaved'
  BY DEF Start, registry, IInv, EffectsAreSaved, Protected
<1> QED
  BY <1>1, <1>2, <1>3, <1>4, <1>5 DEF IInv

(* A handler that fails leaves no row. *)
LEMMA HandlerFailsKeeps ==
  ASSUME IInv, NEW c \in Caller, HandlerFails(c)
  PROVE  IInv'
<1>1. TypeOK'
  BY ReleaseType DEF HandlerFails, registry, IInv, TypeOK
<1>2. HoldersExclude'
  BY DEF HandlerFails, Release, IInv, HoldersExclude, Holding, Busy, TypeOK
<1>3. CallsHaveLocks'
  BY DEF HandlerFails, Release, registry, IInv, CallsHaveLocks, TypeOK
<1>4. RunsUnsaved'
  BY DEF HandlerFails, Release, registry, IInv, RunsUnsaved, Protected, TypeOK
<1>5. EffectsAreSaved'
  BY DEF HandlerFails, Release, registry, IInv, EffectsAreSaved, Protected
<1> QED
  BY <1>1, <1>2, <1>3, <1>4, <1>5 DEF IInv

(* A handler that succeeds has its effect. *)
LEMMA HandlerSucceedsKeeps ==
  ASSUME IInv, NEW c \in Caller, HandlerSucceeds(c)
  PROVE  IInv'
<1>1. TypeOK'
  BY DEF HandlerSucceeds, registry, IInv, TypeOK, Busy, CallsHaveLocks
<1>2. HoldersExclude'
  BY DEF HandlerSucceeds, IInv, HoldersExclude, Holding, TypeOK
<1>3. CallsHaveLocks'
  BY DEF HandlerSucceeds, registry, IInv, CallsHaveLocks, Holding, Busy
<1>4. RunsUnsaved'
  BY DEF HandlerSucceeds, registry, IInv, RunsUnsaved, Protected
<1>5. EffectsAreSaved'
  BY DEF HandlerSucceeds, registry, IInv, EffectsAreSaved, Protected, TypeOK, HoldersExclude,
         Holding, CallsHaveLocks, RunsUnsaved
<1> QED
  BY <1>1, <1>2, <1>3, <1>4, <1>5 DEF IInv

(* What ran is written, once: a row that is there makes no other. *)
LEMMA SaveKeeps ==
  ASSUME IInv, NEW c \in Caller, Save(c)
  PROVE  IInv'
<1>1. TypeOK'
  BY ReleaseType DEF Save, registry, IInv, TypeOK, CallsHaveLocks
<1>2. HoldersExclude'
  BY DEF Save, Release, IInv, HoldersExclude, Holding, Busy, TypeOK
<1>3. CallsHaveLocks'
  BY DEF Save, Release, registry, IInv, CallsHaveLocks, TypeOK
<1>4. RunsUnsaved'
  BY DEF Save, Release, registry, IInv, RunsUnsaved, Protected, Busy, HoldersExclude, Holding,
         CallsHaveLocks
<1>5. EffectsAreSaved'
  BY DEF Save, Release, registry, IInv, EffectsAreSaved, Protected, TypeOK, HoldersExclude,
         Holding, CallsHaveLocks
<1> QED
  BY <1>1, <1>2, <1>3, <1>4, <1>5 DEF IInv

(* A row that cannot be written leaves its key unsaved. *)
LEMMA SaveFailsKeeps ==
  ASSUME IInv, NEW c \in Caller, SaveFails(c)
  PROVE  IInv'
<1>1. TypeOK'
  BY ReleaseType DEF SaveFails, registry, IInv, TypeOK, CallsHaveLocks
<1>2. HoldersExclude'
  BY DEF SaveFails, Release, IInv, HoldersExclude, Holding, Busy, TypeOK
<1>3. CallsHaveLocks'
  BY DEF SaveFails, Release, registry, IInv, CallsHaveLocks, TypeOK
<1>4. RunsUnsaved'
  BY DEF SaveFails, Release, registry, IInv, RunsUnsaved, Protected
<1>5. EffectsAreSaved'
  BY DEF SaveFails, Release, registry, IInv, EffectsAreSaved, Protected, TypeOK
<1> QED
  BY <1>1, <1>2, <1>3, <1>4, <1>5 DEF IInv

(* A restart keeps the rows and forgets calls and locks. *)
LEMMA RestartKeeps ==
  ASSUME IInv, Restart
  PROVE  IInv'
<1>1. TypeOK'
  BY DEF Restart, IInv, TypeOK, CallsHaveLocks
<1>2. HoldersExclude'
  BY DEF Restart, HoldersExclude, Holding, Busy
<1>3. CallsHaveLocks'
  BY DEF Restart, CallsHaveLocks
<1>4. RunsUnsaved'
  BY DEF Restart, RunsUnsaved
<1>5. EffectsAreSaved'
  BY DEF Restart, IInv, EffectsAreSaved, Protected
<1> QED
  BY <1>1, <1>2, <1>3, <1>4, <1>5 DEF IInv

(* So does a step that changes nothing. *)
LEMMA StutterKeeps ==
  ASSUME IInv, UNCHANGED vars
  PROVE  IInv'
<1>1. (TypeOK /\ HoldersExclude /\ CallsHaveLocks /\ RunsUnsaved /\ EffectsAreSaved)'
  BY DEF vars, registry, IInv, TypeOK, HoldersExclude, CallsHaveLocks, RunsUnsaved, Protected,
         EffectsAreSaved
<1> QED
  BY <1>1 DEF IInv

(* So does every step of a caller and of the server. *)
LEMMA NextKeeps == ASSUME IInv, [Next]_vars PROVE IInv'
<1>1. ASSUME NEW c \in Caller, NEW r \in Request, LookupBlocking(c, r) \/ LookupPermission(c, r)
      PROVE  IInv'
  BY <1>1, LookupBlockingKeeps, LookupPermissionKeeps
<1>2. ASSUME NEW c \in Caller, Return(c) PROVE IInv'
  BY <1>2, AcquireKeeps, ReplayKeeps, StartKeeps, HandlerFailsKeeps, HandlerSucceedsKeeps,
     SaveKeeps, SaveFailsKeeps
    DEF Return
<1> QED
  BY <1>1, <1>2, RestartKeeps, StutterKeeps DEF Next

-----------------------------------------------------------------------------
(* The theorems *)

(* The invariant holds in every reachable state, for every number of       *)
(* callers, keys, calls and every size of the registry.                    *)
THEOREM Invariance == Spec => []IInv
<1>1. IInv /\ [Next]_vars => IInv'
  BY NextKeeps
<1> QED
  BY <1>1, InitIInv, PTL DEF Spec

(* Keys of the registry have locks of their own, and callers, rows and     *)
(* locks stay within their types.                                          *)
THEOREM TypeCorrect == Spec => []TypeOK
<1>1. IInv => TypeOK
  BY DEF IInv
<1> QED
  BY <1>1, Invariance, PTL

(* Two calls of one key are at work at once only if a cleanup of the       *)
(* registry dropped the key, and two permission actions never.             *)
THEOREM CallsAreSerialized == Spec => []SerializedUnlessEvicted
<1>1. IInv => SerializedUnlessEvicted
  BY DEF IInv, SerializedUnlessEvicted, HoldersExclude, CallsHaveLocks, Holding, Busy
<1> QED
  BY <1>1, Invariance, PTL

(* A key takes effect at most once through every retry, restart and        *)
(* cleanup, unless its row could not be written or a cleanup dropped it.   *)
THEOREM EffectsHappenOnce == Spec => []TakesEffectOnce
<1>1. IInv => TakesEffectOnce
  BY DEF IInv, TakesEffectOnce, EffectsAreSaved, Protected
<1> QED
  BY <1>1, Invariance, PTL
=============================================================================
