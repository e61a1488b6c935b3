-------------------------- MODULE MinutesCheckpoints --------------------------
(***************************************************************************)
(* The receipts of connected minutes generation                            *)
(* (pipeline/src/narumi/generate/checkpoints.py, driven by bounded.py and  *)
(* minutes.py).                                                            *)
(*                                                                         *)
(* A generation keeps two files: a checkpoint named by the full provenance *)
(* of the run (inputs, parameters, cache epoch, observed runtime), with    *)
(* one entry per prompt, and one retry guard for the meeting, with one     *)
(* entry per (attempt identity, cache epoch, prompt).  Each save is an     *)
(* action; the process may crash between any two.  Only the resident       *)
(* server generates connected minutes, under the meeting's lock, so at     *)
(* most one generation of a meeting runs at a time.                        *)
(*                                                                         *)
(* What is in memory always equals what is on disk while a generation      *)
(* goes on: any failed save ends it.  A save that fails before its rename  *)
(* and one that fails after it are Stop before and after the action.       *)
(***************************************************************************)
EXTENDS Integers, FiniteSets, Functions

CONSTANTS
  Identity,     \* attempt identities: the user's model selections
  Provenance,   \* what else a checkpoint is named after (inputs, runtime)
  Prompt,       \* prompts, with their system text and limit
  MaxEpoch,     \* bound on cache_epoch
  MaxRequests,  \* MinutesLimits.max_requests
  MaxReceipts,  \* bound: no request once this many receipts were saved
  NoPath, NoPrompt

Epoch == 0 .. MaxEpoch
Path == [identity : Identity, epoch : Epoch, provenance : Provenance]

ASSUME CheckpointAssumption ==
  /\ MaxEpoch \in Nat /\ MaxRequests \in Nat /\ MaxReceipts \in Nat
  /\ NoPath \notin Path /\ NoPrompt \notin Prompt

VARIABLES
  (* on disk *)
  exists,    \* the checkpoint files there are
  attempts,  \* "attempts" of each checkpoint
  entry,     \* "entries" of each checkpoint
  guard,     \* state of the retry guard's entries
  owner,     \* checkpoint_sha256 of the retry guard's entries
  (* the generation at work *)
  pc,
  path,
  prompt,
  (* observation *)
  doubt,     \* requests sent whose outcome no checkpoint records yet
  sends      \* requests sent under each checkpoint

disk == <<exists, attempts, entry, guard, owner>>
vars == <<disk, pc, path, prompt, doubt, sends>>

Blocking == {"pending", "unknown"}
Request == Path \X Prompt
Key == [identity : Identity, epoch : Epoch, prompt : Prompt]

(* _guard_key: provenance is no part of it. *)
KeyOf(p, q) == [identity |-> p.identity, epoch |-> p.epoch, prompt |-> q]
GuardKey == KeyOf(path, prompt)

Init ==
  /\ exists = {}
  /\ attempts = [p \in Path |-> 0]
  /\ entry = [p \in Path |-> [q \in Prompt |-> "none"]]
  /\ guard = [k \in Key |-> "none"]
  /\ owner = [k \in Key |-> NoPath]
  /\ pc = "idle" /\ path = NoPath /\ prompt = NoPrompt
  /\ doubt = {}
  /\ sends = [p \in Path |-> 0]

-----------------------------------------------------------------------------
(* _verify_guard_inventory *)

Referenced == {owner[k] : k \in {l \in Key : guard[l] # "none"}}

BlockedFilesReferenced ==
  \A p \in exists : (\E q \in Prompt : entry[p][q] \in Blocking) => p \in Referenced

ReferencesExist == Referenced \subseteq exists

ResolutionsProven ==
  \A k \in Key :
    /\ guard[k] = "retryable" => entry[owner[k]][k.prompt] = "none"
    /\ guard[k] = "succeeded" => entry[owner[k]][k.prompt] = "succeeded"

InventorySound == BlockedFilesReferenced /\ ReferencesExist /\ ResolutionsProven

-----------------------------------------------------------------------------
(* The generation ends: an error, a crash, or nothing more to ask. *)
Leave ==
  /\ pc' = "idle" /\ path' = NoPath /\ prompt' = NoPrompt

Go(step) == pc' = step /\ UNCHANGED <<path, prompt>>

(* The constructor: a request, a resumed job, a newer runtime or a restored *)
(* selection may name any identity, epoch and provenance.                   *)
Open(p) ==
  /\ pc = "idle"
  /\ InventorySound
  /\ path' = p
  /\ pc' = "ready" /\ prompt' = NoPrompt
  /\ UNCHANGED <<disk, doubt, sends>>

(* A prompt answered before: its pending guard entry is settled.  Any other *)
(* state of an entry of this very checkpoint is an error (Stop).            *)
Reuse(q) ==
  /\ pc = "ready"
  /\ entry[path][q] = "succeeded"
  /\ \/ /\ owner[KeyOf(path, q)] = path /\ guard[KeyOf(path, q)] = "pending"
        /\ guard' = [guard EXCEPT ![KeyOf(path, q)] = "succeeded"]
     \/ /\ owner[KeyOf(path, q)] # path \/ guard[KeyOf(path, q)] = "succeeded"
        /\ UNCHANGED guard
  /\ UNCHANGED <<exists, attempts, entry, owner, pc, path, prompt, doubt, sends>>

UnblockedSameEpoch ==  \* a plausible bug: only the same epoch blocks
  ~ \E k \in Key : /\ k.identity = path.identity /\ k.epoch = path.epoch
                   /\ guard[k] \in Blocking

(* No attempt of this identity at this or a later epoch is in doubt. *)
Unblocked ==
  ~ \E k \in Key : /\ k.identity = path.identity /\ k.epoch >= path.epoch
                   /\ guard[k] \in Blocking

(* Within the budget of this attempt and the bound of the model. *)
MayRequest ==
  /\ attempts[path] < MaxRequests
  /\ FoldFunction(+, 0, attempts) < MaxReceipts

SaveReceiptForgets(q) ==  \* a plausible bug: the count is not saved
  /\ pc = "ready" /\ entry[path][q] = "none" /\ Unblocked
  /\ MayRequest
  /\ UNCHANGED attempts
  /\ entry' = [entry EXCEPT ![path][q] = "pending"]
  /\ exists' = exists \cup {path}
  /\ prompt' = q
  /\ pc' = "receipt"
  /\ UNCHANGED <<guard, owner, path, doubt, sends>>

SaveReceipt(q) ==
  /\ pc = "ready" /\ entry[path][q] = "none" /\ Unblocked
  /\ MayRequest
  /\ attempts' = [attempts EXCEPT ![path] = @ + 1]
  /\ entry' = [entry EXCEPT ![path][q] = "pending"]
  /\ exists' = exists \cup {path}
  /\ prompt' = q
  /\ pc' = "receipt"
  /\ UNCHANGED <<guard, owner, path, doubt, sends>>

SaveGuardUnowned ==  \* a plausible bug: a guard of another checkpoint is kept
  /\ pc = "receipt"
  /\ guard' = [guard EXCEPT ![GuardKey] = "pending"]
  /\ owner' = [owner EXCEPT ![GuardKey] = IF @ = NoPath THEN path ELSE @]
  /\ Go("armed")
  /\ UNCHANGED <<exists, attempts, entry, doubt, sends>>

SaveGuard ==
  /\ pc = "receipt"
  /\ guard' = [guard EXCEPT ![GuardKey] = "pending"]
  /\ owner' = [owner EXCEPT ![GuardKey] = path]
  /\ Go("armed")
  /\ UNCHANGED <<exists, attempts, entry, doubt, sends>>

-----------------------------------------------------------------------------
(* provider.complete *)

Dispatch ==
  /\ pc = "armed"
  /\ doubt' = doubt \cup {<<path, prompt>>}
  /\ sends' = [sends EXCEPT ![path] = @ + 1]
  /\ Go("sent")
  /\ UNCHANGED disk

FailBeforeSend == pc = "armed" /\ Go("refused") /\ UNCHANGED <<disk, doubt, sends>>

Reply == pc = "sent" /\ Go("replied") /\ UNCHANGED <<disk, doubt, sends>>

(* An error that proves that nothing was generated. *)
Refuse == pc = "sent" /\ Go("refused") /\ UNCHANGED <<disk, doubt, sends>>

(* Any other exception (_outcome_unknown). *)
LoseOutcome == pc = "sent" /\ Go("lost") /\ UNCHANGED <<disk, doubt, sends>>

-----------------------------------------------------------------------------
(* After the provider returned *)

RecordSuccess ==
  /\ pc = "replied"
  /\ entry' = [entry EXCEPT ![path][prompt] = "succeeded"]
  /\ doubt' = doubt \ {<<path, prompt>>}
  /\ Go("proven")
  /\ UNCHANGED <<exists, attempts, guard, owner, sends>>

ResolveSucceeded ==
  /\ pc = "proven"
  /\ guard' = [guard EXCEPT ![GuardKey] = "succeeded"]
  /\ pc' = "ready" /\ prompt' = NoPrompt
  /\ UNCHANGED <<exists, attempts, entry, owner, path, doubt, sends>>

RecordRetryable ==
  /\ pc = "refused"
  /\ entry' = [entry EXCEPT ![path][prompt] = "none"]
  /\ doubt' = doubt \ {<<path, prompt>>}
  /\ Go("released")
  /\ UNCHANGED <<exists, attempts, guard, owner, sends>>

ResolveRetryable ==
  /\ pc = "released"
  /\ guard' = [guard EXCEPT ![GuardKey] = "retryable"]
  /\ Leave
  /\ UNCHANGED <<exists, attempts, entry, owner, doubt, sends>>

RecordUnknownOther ==  \* a plausible bug: a state no reader accepts
  /\ pc = "lost"
  /\ entry' = [entry EXCEPT ![path][prompt] = "failed"]
  /\ Go("noted")
  /\ UNCHANGED <<exists, attempts, guard, owner, doubt, sends>>

RecordUnknown ==
  /\ pc = "lost"
  /\ entry' = [entry EXCEPT ![path][prompt] = "unknown"]
  /\ Go("noted")
  /\ UNCHANGED <<exists, attempts, guard, owner, doubt, sends>>

GuardUnknown ==
  /\ pc = "noted"
  /\ guard' = [guard EXCEPT ![GuardKey] = "unknown"]
  /\ Leave
  /\ UNCHANGED <<exists, attempts, entry, owner, doubt, sends>>

(* A crash, a cancellation, a refusal, a failed save, the last answer. *)
Stop ==
  /\ pc # "idle"
  /\ Leave
  /\ UNCHANGED <<disk, doubt, sends>>

Next ==
  \/ \E p \in Path : Open(p)
  \/ \E q \in Prompt : Reuse(q) \/ SaveReceipt(q)
  \/ SaveGuard \/ Dispatch \/ FailBeforeSend
  \/ Reply \/ Refuse \/ LoseOutcome
  \/ RecordSuccess \/ ResolveSucceeded
  \/ RecordRetryable \/ ResolveRetryable
  \/ RecordUnknown \/ GuardUnknown
  \/ Stop

Spec == Init /\ [][Next]_vars

-----------------------------------------------------------------------------
(* Receipts, guards and the generation that works with them. *)
TypeOK ==
  /\ exists \subseteq Path
  /\ attempts \in [Path -> 0 .. MaxRequests]
  /\ entry \in [Path -> [Prompt -> {"none", "succeeded"} \cup Blocking]]
  /\ guard \in [Key -> {"none", "succeeded", "retryable"} \cup Blocking]
  /\ owner \in [Key -> Path \cup {NoPath}]
  /\ pc \in {"idle", "ready", "receipt", "armed", "sent", "replied", "refused",
             "lost", "proven", "released", "noted"}
  /\ path \in Path \cup {NoPath}
  /\ prompt \in Prompt \cup {NoPrompt}
  /\ doubt \subseteq Request
  /\ sends \in [Path -> Nat]

(* A request in doubt is never overtaken: as long as its outcome is        *)
(* recorded nowhere, a further request for the same selection goes out     *)
(* only under a later cache epoch, whatever runtime or input changed, and  *)
(* even when an older epoch is selected again.  And an answer that is      *)
(* saved is final: neither a crash nor another generation removes it or    *)
(* pays for it again.                                                      *)
NothingPaidTwice ==
  [][/\ \A d \in doubt' \ doubt : \A e \in doubt :
          e[1].identity = d[1].identity => e[1].epoch < d[1].epoch
     /\ \A p \in Path, q \in Prompt :
          entry[p][q] = "succeeded" => /\ entry'[p][q] = "succeeded"
                                       /\ <<p, q>> \notin doubt']_vars

(* Every request in doubt is held by a blocking guard entry that names its *)
(* checkpoint, through crashes between the saves of the two files.         *)
DoubtIsGuarded ==
  \A d \in doubt : /\ guard[KeyOf(d[1], d[2])] \in Blocking
                   /\ owner[KeyOf(d[1], d[2])] = d[1]
                   /\ entry[d[1]][d[2]] \in Blocking

(* The receipts account for the requests: the budget of a checkpoint holds *)
(* across crashes and resumptions, and a checkpoint is refused for good    *)
(* only for a receipt whose request was never sent; a request in doubt by  *)
(* itself leaves the inventory sound, so that a later epoch can proceed.   *)
ReceiptsAccount ==
  /\ \A p \in Path : sends[p] <= attempts[p] /\ attempts[p] <= MaxRequests
  /\ InventorySound \/ \E p \in exists, q \in Prompt :
                         entry[p][q] = "pending" /\ <<p, q>> \notin doubt

(* "A process crash [...] leaves a receipt that prevents an automatic      *)
(* resend; a changed cache_epoch creates a new attempt": whatever a crash  *)
(* leaves behind, a generation under a new epoch opens.                    *)
NewEpochOpens == pc = "idle" => InventorySound
=============================================================================
