---------------------------- MODULE PipelineProofs ----------------------------
(***************************************************************************)
(* Proofs about three parts of the processing pipeline: the checkpoints of *)
(* the minutes, as MinutesCheckpoints runs them alone and MCPipeline among *)
(* the others, the catalog, and the stages of a bundle.                    *)
(***************************************************************************)
EXTENDS MCPipeline, Sequences, TLAPS

-----------------------------------------------------------------------------
(***************************************************************************)
(* Type correctness and the three promises of MinutesCheckpoints, for      *)
(* every set of selections, provenances and prompts, every budget and      *)
(* every number of epochs.                                                 *)
(*                                                                         *)
(* The promises are not inductive: that a request in doubt is guarded by   *)
(* its own checkpoint's entry survives the next SaveGuard only because the *)
(* prompt at work has no doubt of its epoch, which follows from what the   *)
(* guard said when the receipt was saved.  IInv says what each step knows. *)
(***************************************************************************)

Busy == {"receipt", "armed", "sent", "replied", "refused", "lost", "proven", "released",
         "noted"}
InFlight == {"receipt", "armed", "sent", "replied", "refused", "lost"}

(* A generation at work has a checkpoint, and a prompt once it asks. *)
AtWork == (pc # "idle" => path \in Path) /\ (pc \in Busy => prompt \in Prompt)

(* What the receipt of the prompt at work says, step by step. *)
EntryAtStep ==
  /\ pc \in InFlight => entry[path][prompt] = "pending"
  /\ pc = "proven" => entry[path][prompt] = "succeeded"
  /\ pc = "released" => entry[path][prompt] = "none"
  /\ pc = "noted" => entry[path][prompt] = "unknown"

(* Its guard is free of doubt until it is taken, and then its own. *)
GuardAtStep ==
  /\ pc = "receipt" => guard[GuardKey] \notin Blocking
  /\ pc \in Busy \ {"receipt"} => guard[GuardKey] = "pending" /\ owner[GuardKey] = path

(* The other requests in doubt of its selection are of earlier epochs. *)
NewestDoubt ==
  /\ pc \in Busy => \A d \in doubt : d[1].identity = path.identity =>
                      d[1].epoch < path.epoch \/ d = <<path, prompt>>
  /\ pc \in {"receipt", "armed", "proven", "released"} => <<path, prompt>> \notin doubt

(* A request is counted before it is sent. *)
SendsCounted ==
  /\ \A p \in Path : sends[p] <= attempts[p]
  /\ pc \in {"receipt", "armed"} => sends[path] < attempts[path]

(* A guard entry names a checkpoint that exists and has its key; every *)
(* receipt is in a checkpoint that exists.                             *)
OwnersExist ==
  /\ \A k \in Key : guard[k] # "none" => /\ owner[k] \in exists
                                         /\ k = KeyOf(owner[k], k.prompt)
  /\ \A p \in Path, q \in Prompt : entry[p][q] # "none" => p \in exists

(* A receipt whose request was never sent. *)
Unsent(p, q) == entry[p][q] = "pending" /\ <<p, q>> \notin doubt

(* A blocking receipt is of a request never sent, or its guard is its own. *)
BlocksAreGuarded ==
  \A p \in Path, q \in Prompt : entry[p][q] \in Blocking =>
    Unsent(p, q) \/ (owner[KeyOf(p, q)] = p /\ guard[KeyOf(p, q)] # "none")

(* What a guard says was resolved is what the receipt says, unless a later *)
(* request was prepared and never sent.                                    *)
ResolutionsHold ==
  \A k \in Key :
    /\ guard[k] = "succeeded" => entry[owner[k]][k.prompt] = "succeeded"
    /\ guard[k] = "retryable" => \/ entry[owner[k]][k.prompt] = "none"
                                 \/ Unsent(owner[k], k.prompt)

IInv ==
  /\ TypeOK /\ AtWork /\ EntryAtStep /\ GuardAtStep /\ NewestDoubt /\ SendsCounted
  /\ OwnersExist /\ BlocksAreGuarded /\ ResolutionsHold /\ DoubtIsGuarded

-----------------------------------------------------------------------------
(* The key of a prompt names what the prompt and its checkpoint name. *)
LEMMA KeyFacts ==
  ASSUME NEW p \in Path, NEW q \in Prompt
  PROVE  /\ KeyOf(p, q) \in Key
         /\ KeyOf(p, q).identity = p.identity
         /\ KeyOf(p, q).epoch = p.epoch
         /\ KeyOf(p, q).prompt = q
  BY DEF Path, Key, KeyOf

(* Epochs are integers. *)
LEMMA EpochType ==
  (\A p \in Path : p.epoch \in Int) /\ (\A k \in Key : k.epoch \in Int /\ k.prompt \in Prompt)
  BY CheckpointAssumption DEF Path, Key, Epoch

(* The initial state has all of IInv. *)
LEMMA InitInv == Init => IInv
<1> SUFFICES ASSUME Init PROVE IInv
  OBVIOUS
<1>1. TypeOK
  BY CheckpointAssumption DEF Init, TypeOK, Request
<1>2. AtWork /\ EntryAtStep /\ GuardAtStep /\ NewestDoubt /\ SendsCounted
  BY DEF Init, AtWork, EntryAtStep, GuardAtStep, NewestDoubt, SendsCounted, Busy, InFlight
<1>3. OwnersExist /\ BlocksAreGuarded /\ ResolutionsHold /\ DoubtIsGuarded
  BY DEF Init, OwnersExist, BlocksAreGuarded, ResolutionsHold, DoubtIsGuarded, Blocking
<1>4. QED
  BY <1>1, <1>2, <1>3 DEF IInv

-----------------------------------------------------------------------------
(* Types *)

(* Every step keeps the types, and a generation at work keeps its place. *)
LEMMA StepType == TypeOK /\ AtWork /\ [Next]_vars => TypeOK' /\ AtWork'
<1> SUFFICES ASSUME TypeOK, AtWork, [Next]_vars PROVE TypeOK' /\ AtWork'
  OBVIOUS
<1> USE DEF TypeOK, AtWork, Busy, Go, Leave, disk
<1>1. ASSUME NEW p \in Path, Open(p) PROVE TypeOK' /\ AtWork'
  BY <1>1 DEF Open
<1>2. ASSUME NEW q \in Prompt, Reuse(q) PROVE TypeOK' /\ AtWork'
  <2>1. KeyOf(path, q) \in Key
    BY <1>2, KeyFacts DEF Reuse
  <2>2. QED
    BY <1>2, <2>1 DEF Reuse
<1>3. ASSUME NEW q \in Prompt, SaveReceipt(q) PROVE TypeOK' /\ AtWork'
  <2>1. path \in Path /\ attempts[path] < MaxRequests
    BY <1>3 DEF SaveReceipt, MayRequest
  <2>2. attempts' \in [Path -> 0 .. MaxRequests]
    BY <1>3, <2>1, CheckpointAssumption DEF SaveReceipt
  <2>3. entry' \in [Path -> [Prompt -> {"none", "succeeded"} \cup Blocking]]
    BY <1>3, <2>1 DEF SaveReceipt, Blocking
  <2>4. QED
    BY <1>3, <2>1, <2>2, <2>3 DEF SaveReceipt
<1>4. CASE SaveGuard
  <2>1. GuardKey \in Key
    BY <1>4, KeyFacts DEF SaveGuard, GuardKey
  <2>2. QED
    BY <1>4, <2>1 DEF SaveGuard, Blocking
<1>5. CASE Dispatch
  <2>1. path \in Path /\ prompt \in Prompt
    BY <1>5 DEF Dispatch
  <2>2. sends' \in [Path -> Nat]
    BY <1>5, <2>1 DEF Dispatch
  <2>3. doubt' \subseteq Request
    BY <1>5, <2>1 DEF Dispatch, Request
  <2>4. QED
    BY <1>5, <2>1, <2>2, <2>3 DEF Dispatch
<1>6. CASE FailBeforeSend \/ Reply \/ Refuse \/ LoseOutcome
  BY <1>6 DEF FailBeforeSend, Reply, Refuse, LoseOutcome
<1>7. CASE RecordSuccess
  BY <1>7 DEF RecordSuccess
<1>8. CASE RecordRetryable
  BY <1>8 DEF RecordRetryable
<1>9. CASE RecordUnknown
  BY <1>9 DEF RecordUnknown, Blocking
<1>10. CASE ResolveSucceeded \/ ResolveRetryable \/ GuardUnknown
  <2>1. GuardKey \in Key
    BY <1>10, KeyFacts DEF ResolveSucceeded, ResolveRetryable, GuardUnknown, GuardKey
  <2>2. QED
    BY <1>10, <2>1 DEF ResolveSucceeded, ResolveRetryable, GuardUnknown, Blocking
<1>11. CASE Stop
  BY <1>11 DEF Stop
<1>12. CASE UNCHANGED vars
  BY <1>12 DEF vars
<1>13. QED
  BY <1>1, <1>2, <1>3, <1>4, <1>5, <1>6, <1>7, <1>8, <1>9, <1>10, <1>11, <1>12 DEF Next

-----------------------------------------------------------------------------
(* Steps that write nothing *)

(* Opening and ending a generation: nothing is at work afterwards. *)
LEMMA RestInv ==
  ASSUME IInv, TypeOK', AtWork', UNCHANGED <<disk, doubt, sends>>, pc' \in {"idle", "ready"}
  PROVE  IInv'
<1>1. EntryAtStep' /\ GuardAtStep' /\ NewestDoubt'
  BY DEF EntryAtStep, GuardAtStep, NewestDoubt, Busy, InFlight
<1>2. SendsCounted' /\ OwnersExist'
  BY DEF IInv, SendsCounted, OwnersExist, disk
<1>3. BlocksAreGuarded' /\ ResolutionsHold' /\ DoubtIsGuarded'
  BY DEF IInv, BlocksAreGuarded, ResolutionsHold, DoubtIsGuarded, Unsent, disk
<1>4. QED
  BY <1>1, <1>2, <1>3 DEF IInv

(* Between the provider's call and the record of its outcome. *)
LEMMA ProviderInv ==
  ASSUME IInv, TypeOK', AtWork', FailBeforeSend \/ Reply \/ Refuse \/ LoseOutcome
  PROVE  IInv'
<1> USE DEF FailBeforeSend, Reply, Refuse, LoseOutcome, Go
<1>1. EntryAtStep' /\ GuardAtStep' /\ NewestDoubt'
  BY DEF IInv, EntryAtStep, GuardAtStep, NewestDoubt, Busy, InFlight, GuardKey, disk
<1>2. SendsCounted' /\ OwnersExist'
  BY DEF IInv, SendsCounted, OwnersExist, disk
<1>3. BlocksAreGuarded' /\ ResolutionsHold' /\ DoubtIsGuarded'
  BY DEF IInv, BlocksAreGuarded, ResolutionsHold, DoubtIsGuarded, Unsent, disk
<1>4. QED
  BY <1>1, <1>2, <1>3 DEF IInv

-----------------------------------------------------------------------------
(* Facts of a state *)

(* A request in doubt is of a checkpoint and a prompt. *)
LEMMA DoubtType ==
  ASSUME IInv
  PROVE  \A d \in doubt : d[1] \in Path /\ d[2] \in Prompt /\ d = <<d[1], d[2]>>
  BY DEF IInv, TypeOK, Request

(* Nothing that is sent later is of an epoch at or before one in doubt. *)
LEMMA UnblockedIsNewest ==
  ASSUME IInv, path \in Path, Unblocked
  PROVE  /\ \A d \in doubt : d[1].identity = path.identity => d[1].epoch < path.epoch
         /\ \A q \in Prompt : guard[KeyOf(path, q)] \notin Blocking
<1>1. ASSUME NEW d \in doubt, d[1].identity = path.identity PROVE d[1].epoch < path.epoch
  <2>1. d[1] \in Path /\ d[2] \in Prompt
    BY DoubtType
  <2>2. /\ KeyOf(d[1], d[2]) \in Key
        /\ KeyOf(d[1], d[2]).identity = path.identity
        /\ KeyOf(d[1], d[2]).epoch = d[1].epoch
    BY <1>1, <2>1, KeyFacts
  <2>3. guard[KeyOf(d[1], d[2])] \in Blocking
    BY DEF IInv, DoubtIsGuarded
  <2>4. ~(d[1].epoch >= path.epoch)
    BY <2>2, <2>3 DEF Unblocked
  <2>5. QED
    BY <2>1, <2>4, EpochType
<1>2. ASSUME NEW q \in Prompt PROVE guard[KeyOf(path, q)] \notin Blocking
  <2>1. path.epoch >= path.epoch
    BY EpochType
  <2>2. QED
    BY <2>1, KeyFacts DEF Unblocked
<1>3. QED
  BY <1>1, <1>2

(* Only the checkpoint at work owns the key of the prompt at work, and it is *)
(* the only one in doubt with that key.                                      *)
LEMMA OwnKeyOnly ==
  ASSUME IInv, pc \in Busy, NEW d \in doubt, KeyOf(d[1], d[2]) = GuardKey
  PROVE  d = <<path, prompt>>
<1>1. path \in Path /\ prompt \in Prompt /\ d[1] \in Path /\ d[2] \in Prompt
  BY DoubtType DEF IInv, AtWork, Busy
<1>2. d[1].identity = path.identity /\ d[1].epoch = path.epoch
  BY <1>1, KeyFacts DEF GuardKey
<1>3. QED
  BY <1>1, <1>2, EpochType DEF IInv, NewestDoubt

(* A guard entry that names the checkpoint at work for the prompt at work is *)
(* the entry of its key.                                                     *)
LEMMA NamedByItsKey ==
  ASSUME IInv, pc \in Busy, NEW k \in Key, guard[k] # "none",
         owner[k] = path, k.prompt = prompt
  PROVE  k = GuardKey
  BY DEF IInv, OwnersExist, GuardKey

-----------------------------------------------------------------------------
(* The receipt, its guard and the request *)

LEMMA SaveReceiptInv ==
  ASSUME IInv, TypeOK', AtWork', NEW q \in Prompt, SaveReceipt(q)
  PROVE  IInv'
<1>1. path \in Path /\ entry[path][q] = "none"
  BY DEF IInv, AtWork, SaveReceipt
<1>2. \A r \in Path, s \in Prompt :
        entry'[r][s] = IF r = path /\ s = q THEN "pending" ELSE entry[r][s]
  BY <1>1 DEF IInv, TypeOK, SaveReceipt
<1>3. <<path, q>> \notin doubt
  BY <1>1 DEF IInv, DoubtIsGuarded, Blocking
<1>4. /\ \A d \in doubt : d[1].identity = path.identity => d[1].epoch < path.epoch
      /\ guard[KeyOf(path, q)] \notin Blocking
  BY <1>1, UnblockedIsNewest DEF SaveReceipt
<1>5. EntryAtStep' /\ GuardAtStep' /\ NewestDoubt'
  BY <1>1, <1>2, <1>3, <1>4
    DEF SaveReceipt, EntryAtStep, GuardAtStep, NewestDoubt, GuardKey, InFlight, Busy
<1>6. SendsCounted'
  BY <1>1 DEF IInv, TypeOK, SaveReceipt, SendsCounted
<1>7. OwnersExist'
  BY <1>1, <1>2 DEF IInv, OwnersExist, SaveReceipt
<1>8. BlocksAreGuarded'
  BY <1>1, <1>2, <1>3 DEF IInv, BlocksAreGuarded, Unsent, SaveReceipt
<1>9. ResolutionsHold'
  <2> SUFFICES ASSUME NEW k \in Key
               PROVE  /\ guard[k] = "succeeded" => entry'[owner[k]][k.prompt] = "succeeded"
                      /\ guard[k] = "retryable" =>
                           \/ entry'[owner[k]][k.prompt] = "none"
                           \/ entry'[owner[k]][k.prompt] = "pending"
                                /\ <<owner[k], k.prompt>> \notin doubt
    BY DEF ResolutionsHold, Unsent, SaveReceipt
  <2>1. k.prompt \in Prompt /\ (guard[k] # "none" => owner[k] \in Path)
    BY EpochType DEF IInv, OwnersExist, TypeOK
  <2>2. QED
    BY <1>1, <1>2, <1>3, <2>1 DEF IInv, ResolutionsHold, Unsent
<1>10. DoubtIsGuarded'
  BY <1>2, <1>3, DoubtType DEF IInv, DoubtIsGuarded, SaveReceipt
<1>11. QED
  BY <1>5, <1>6, <1>7, <1>8, <1>9, <1>10 DEF IInv

LEMMA SaveGuardInv ==
  ASSUME IInv, TypeOK', AtWork', SaveGuard
  PROVE  IInv'
<1>1. path \in Path /\ prompt \in Prompt /\ GuardKey \in Key
  BY KeyFacts DEF IInv, AtWork, SaveGuard, Busy, GuardKey
<1>2. /\ \A k \in Key : guard'[k] = IF k = GuardKey THEN "pending" ELSE guard[k]
      /\ \A k \in Key : owner'[k] = IF k = GuardKey THEN path ELSE owner[k]
  BY <1>1 DEF IInv, TypeOK, SaveGuard
<1>3. pc = "receipt" /\ pc' = "armed" /\ path' = path /\ prompt' = prompt
  BY DEF SaveGuard, Go
<1>4. \A d \in doubt : KeyOf(d[1], d[2]) # GuardKey
  BY <1>3, OwnKeyOnly DEF IInv, NewestDoubt, Busy
<1>5. EntryAtStep' /\ NewestDoubt'
  BY <1>3 DEF IInv, EntryAtStep, NewestDoubt, SaveGuard, InFlight, Busy
<1>6. GuardAtStep'
  BY <1>1, <1>2, <1>3 DEF GuardAtStep, GuardKey, Blocking
<1>7. SendsCounted'
  BY <1>3 DEF IInv, SendsCounted, SaveGuard
<1>8. OwnersExist'
  <2>1. path \in exists /\ GuardKey = KeyOf(path, GuardKey.prompt)
    BY <1>1, <1>3, KeyFacts DEF IInv, OwnersExist, EntryAtStep, InFlight, GuardKey
  <2>2. QED
    BY <1>1, <1>2, <2>1 DEF IInv, OwnersExist, SaveGuard
<1>9. BlocksAreGuarded'
  <2> SUFFICES ASSUME NEW p \in Path, NEW q \in Prompt, entry[p][q] \in Blocking
               PROVE  \/ Unsent(p, q)
                      \/ owner'[KeyOf(p, q)] = p /\ guard'[KeyOf(p, q)] # "none"
    BY DEF BlocksAreGuarded, Unsent, SaveGuard
  <2>1. KeyOf(p, q) \in Key
    BY KeyFacts
  <2>2. CASE KeyOf(p, q) # GuardKey
    BY <1>2, <2>1, <2>2 DEF IInv, BlocksAreGuarded
  <2>3. CASE KeyOf(p, q) = GuardKey
    <3>1. guard[KeyOf(p, q)] \in {"none", "retryable", "succeeded"}
      BY <1>3, <2>1, <2>3 DEF IInv, TypeOK, GuardAtStep, Blocking
    <3>2. KeyOf(p, q).prompt = q
      BY KeyFacts
    <3>3. QED
      BY <2>1, <3>1, <3>2 DEF IInv, BlocksAreGuarded, ResolutionsHold, Blocking
  <2>4. QED
    BY <2>2, <2>3
<1>10. ResolutionsHold'
  BY <1>1, <1>2 DEF IInv, ResolutionsHold, Unsent, SaveGuard
<1>11. DoubtIsGuarded'
  BY <1>2, <1>4, DoubtType, KeyFacts DEF IInv, DoubtIsGuarded, SaveGuard
<1>12. QED
  BY <1>5, <1>6, <1>7, <1>8, <1>9, <1>10, <1>11 DEF IInv

LEMMA DispatchInv ==
  ASSUME IInv, TypeOK', AtWork', Dispatch
  PROVE  IInv'
<1>1. path \in Path /\ prompt \in Prompt /\ GuardKey \in Key
  BY KeyFacts DEF IInv, AtWork, Dispatch, Busy, GuardKey
<1>2. /\ pc = "armed" /\ pc' = "sent" /\ path' = path /\ prompt' = prompt
      /\ doubt' = doubt \cup {<<path, prompt>>}
  BY DEF Dispatch, Go
<1>3. /\ guard[GuardKey] = "pending" /\ owner[GuardKey] = path
      /\ entry[path][prompt] = "pending"
  BY <1>2 DEF IInv, GuardAtStep, EntryAtStep, Busy, InFlight
<1>4. EntryAtStep' /\ GuardAtStep'
  BY <1>2, <1>3 DEF EntryAtStep, GuardAtStep, Dispatch, disk, InFlight, GuardKey
<1>5. NewestDoubt'
  BY <1>2 DEF IInv, NewestDoubt, Busy
<1>6. SendsCounted'
  BY <1>1, <1>2 DEF IInv, TypeOK, SendsCounted, Dispatch, disk
<1>7. OwnersExist'
  BY DEF IInv, OwnersExist, Dispatch, disk
<1>8. BlocksAreGuarded'
  BY <1>1, <1>2, <1>3 DEF IInv, BlocksAreGuarded, Unsent, Dispatch, disk, GuardKey
<1>9. ResolutionsHold'
  <2> SUFFICES ASSUME NEW k \in Key, guard[k] = "retryable", owner[k] = path, k.prompt = prompt
               PROVE  FALSE
    BY <1>2 DEF IInv, ResolutionsHold, Unsent, Dispatch, disk
  <2>1. k = GuardKey
    BY <1>2, NamedByItsKey DEF Busy
  <2>2. QED
    BY <1>3, <2>1
<1>10. DoubtIsGuarded'
  BY <1>2, <1>3 DEF IInv, DoubtIsGuarded, Dispatch, disk, Blocking, GuardKey
<1>11. QED
  BY <1>4, <1>5, <1>6, <1>7, <1>8, <1>9, <1>10 DEF IInv

-----------------------------------------------------------------------------
(* The record of the outcome *)

(* What a record of the outcome starts from. *)
LEMMA AtOutcome ==
  ASSUME IInv, pc \in Busy \ {"receipt"}
  PROVE  /\ path \in Path /\ prompt \in Prompt /\ GuardKey \in Key /\ path \in exists
         /\ GuardKey.prompt = prompt
         /\ guard[GuardKey] = "pending" /\ owner[GuardKey] = path
<1>1. path \in Path /\ prompt \in Prompt
  BY DEF IInv, AtWork, Busy
<1>2. GuardKey \in Key /\ GuardKey.prompt = prompt
  BY <1>1, KeyFacts DEF GuardKey
<1>3. guard[GuardKey] = "pending" /\ owner[GuardKey] = path
  BY DEF IInv, GuardAtStep
<1>4. QED
  BY <1>1, <1>2, <1>3 DEF IInv, OwnersExist

(* The receipt of the prompt at work becomes v, which is no step back to    *)
(* "pending"; unless it stays blocking, the request is in doubt no longer.  *)
LEMMA OutcomeInv ==
  ASSUME IInv, TypeOK', AtWork', pc \in InFlight \ {"receipt"},
         NEW v \in {"none", "succeeded", "unknown"},
         entry' = [entry EXCEPT ![path][prompt] = v],
         doubt' = IF v = "unknown" THEN doubt ELSE doubt \ {<<path, prompt>>},
         pc' = CASE v = "none" -> "released" [] v = "succeeded" -> "proven"
                 [] v = "unknown" -> "noted",
         UNCHANGED <<exists, attempts, guard, owner, path, prompt, sends>>
  PROVE  IInv'
<1>1. /\ path \in Path /\ prompt \in Prompt /\ GuardKey \in Key /\ path \in exists
      /\ GuardKey.prompt = prompt
      /\ guard[GuardKey] = "pending" /\ owner[GuardKey] = path
  BY AtOutcome DEF InFlight, Busy
<1>2. \A r \in Path, s \in Prompt :
        entry'[r][s] = IF r = path /\ s = prompt THEN v ELSE entry[r][s]
  BY <1>1 DEF IInv, TypeOK
<1>3. pc \in Busy /\ pc' \in {"released", "proven", "noted"}
  BY DEF InFlight, Busy
<1>4. EntryAtStep'
  BY <1>1, <1>2, <1>3 DEF EntryAtStep, InFlight
<1>5. GuardAtStep'
  BY <1>1, <1>3 DEF GuardAtStep, GuardKey, Busy
<1>6. NewestDoubt'
  BY <1>3 DEF IInv, NewestDoubt, Busy
<1>7. SendsCounted'
  BY <1>3 DEF IInv, SendsCounted
<1>8. OwnersExist'
  BY <1>1, <1>2 DEF IInv, OwnersExist
<1>9. BlocksAreGuarded'
  <2> SUFFICES ASSUME NEW p \in Path, NEW q \in Prompt, entry'[p][q] \in Blocking
               PROVE  \/ entry'[p][q] = "pending" /\ <<p, q>> \notin doubt'
                      \/ owner[KeyOf(p, q)] = p /\ guard[KeyOf(p, q)] # "none"
    BY DEF BlocksAreGuarded, Unsent
  <2>1. CASE p = path /\ q = prompt
    BY <1>1, <2>1 DEF GuardKey
  <2>2. CASE ~(p = path /\ q = prompt)
    BY <1>2, <2>2 DEF IInv, BlocksAreGuarded, Unsent
  <2>3. QED
    BY <2>1, <2>2
<1>10. ResolutionsHold'
  <2> SUFFICES ASSUME NEW k \in Key
               PROVE  /\ guard[k] = "succeeded" => entry'[owner[k]][k.prompt] = "succeeded"
                      /\ guard[k] = "retryable" =>
                           \/ entry'[owner[k]][k.prompt] = "none"
                           \/ entry'[owner[k]][k.prompt] = "pending"
                                /\ <<owner[k], k.prompt>> \notin doubt'
    BY DEF ResolutionsHold, Unsent
  <2>1. k.prompt \in Prompt /\ (guard[k] # "none" => owner[k] \in Path)
    BY EpochType DEF IInv, OwnersExist, TypeOK
  <2>2. CASE guard[k] # "none" /\ owner[k] = path /\ k.prompt = prompt
    <3>1. k = GuardKey
      BY <1>3, <2>2, NamedByItsKey
    <3>2. QED
      BY <1>1, <3>1
  <2>3. CASE ~(guard[k] # "none" /\ owner[k] = path /\ k.prompt = prompt)
    BY <1>2, <2>1, <2>3 DEF IInv, ResolutionsHold, Unsent
  <2>4. QED
    BY <2>2, <2>3
<1>11. DoubtIsGuarded'
  <2> SUFFICES ASSUME NEW d \in doubt'
               PROVE  /\ guard[KeyOf(d[1], d[2])] \in Blocking
                      /\ owner[KeyOf(d[1], d[2])] = d[1]
                      /\ entry'[d[1]][d[2]] \in Blocking
    BY DEF DoubtIsGuarded
  <2>1. d \in doubt /\ d[1] \in Path /\ d[2] \in Prompt /\ d = <<d[1], d[2]>>
    BY DoubtType
  <2>2. entry'[d[1]][d[2]] \in Blocking
    BY <1>2, <2>1 DEF IInv, DoubtIsGuarded, Blocking
  <2>3. QED
    BY <2>1, <2>2 DEF IInv, DoubtIsGuarded
<1>12. QED
  BY <1>4, <1>5, <1>6, <1>7, <1>8, <1>9, <1>10, <1>11 DEF IInv

(* The guard of the prompt at work follows its receipt, and the prompt is   *)
(* left.                                                                    *)
LEMMA ResolvedInv ==
  ASSUME IInv, TypeOK', AtWork', pc \in {"proven", "released", "noted"},
         guard' = [guard EXCEPT ![GuardKey] = CASE pc = "proven" -> "succeeded"
                                                [] pc = "released" -> "retryable"
                                                [] pc = "noted" -> "unknown"],
         pc' \in {"idle", "ready"},
         UNCHANGED <<exists, attempts, entry, owner, doubt, sends>>
  PROVE  IInv'
<1>1. /\ path \in Path /\ prompt \in Prompt /\ GuardKey \in Key /\ path \in exists
      /\ GuardKey.prompt = prompt
      /\ guard[GuardKey] = "pending" /\ owner[GuardKey] = path
  BY AtOutcome DEF Busy
<1> DEFINE v == CASE pc = "proven" -> "succeeded" [] pc = "released" -> "retryable"
                  [] pc = "noted" -> "unknown"
<1>2. \A k \in Key : guard'[k] = IF k = GuardKey THEN v ELSE guard[k]
  BY <1>1 DEF IInv, TypeOK
<1>3. /\ v \in {"succeeded", "retryable", "unknown"}
      /\ v = "succeeded" => entry[path][prompt] = "succeeded"
      /\ v = "retryable" => entry[path][prompt] = "none"
      /\ v # "unknown" => <<path, prompt>> \notin doubt
  BY DEF IInv, EntryAtStep, NewestDoubt
<1> HIDE DEF v
<1>4. EntryAtStep' /\ GuardAtStep' /\ NewestDoubt'
  BY DEF EntryAtStep, GuardAtStep, NewestDoubt, Busy, InFlight
<1>5. SendsCounted'
  BY DEF IInv, SendsCounted
<1>6. OwnersExist'
  BY <1>1, <1>2, <1>3 DEF IInv, OwnersExist
<1>7. BlocksAreGuarded'
  BY <1>1, <1>2, <1>3, KeyFacts DEF IInv, BlocksAreGuarded, Unsent
<1>8. ResolutionsHold'
  BY <1>1, <1>2, <1>3 DEF IInv, ResolutionsHold, Unsent
<1>9. DoubtIsGuarded'
  <2> SUFFICES ASSUME NEW d \in doubt
               PROVE  /\ guard'[KeyOf(d[1], d[2])] \in Blocking
                      /\ owner[KeyOf(d[1], d[2])] = d[1]
                      /\ entry[d[1]][d[2]] \in Blocking
    BY DEF DoubtIsGuarded
  <2>1. KeyOf(d[1], d[2]) \in Key
    BY DoubtType, KeyFacts
  <2>2. KeyOf(d[1], d[2]) = GuardKey => v = "unknown"
    BY <1>3, OwnKeyOnly DEF Busy
  <2>3. QED
    BY <1>2, <2>1, <2>2 DEF IInv, DoubtIsGuarded, Blocking
<1>10. QED
  BY <1>4, <1>5, <1>6, <1>7, <1>8, <1>9 DEF IInv

(* An answer that is kept settles the guard of a run that crashed. *)
LEMMA ReuseInv ==
  ASSUME IInv, TypeOK', AtWork', NEW q \in Prompt, Reuse(q)
  PROVE  IInv'
<1> DEFINE K == KeyOf(path, q)
<1>1. path \in Path /\ K \in Key /\ K.prompt = q /\ entry[path][q] = "succeeded"
  BY KeyFacts DEF IInv, AtWork, Reuse
<1>2. CASE UNCHANGED guard
  BY <1>2, RestInv DEF Reuse, disk
<1>3. CASE guard' # guard
  <2>1. /\ owner[K] = path /\ guard[K] = "pending"
        /\ \A k \in Key : guard'[k] = IF k = K THEN "succeeded" ELSE guard[k]
    BY <1>1, <1>3 DEF IInv, TypeOK, Reuse
  <2> HIDE DEF K
  <2>2. UNCHANGED <<exists, attempts, entry, owner, pc, path, prompt, doubt, sends>> /\ pc = "ready"
    BY DEF Reuse
  <2>3. EntryAtStep' /\ GuardAtStep' /\ NewestDoubt'
    BY <2>2 DEF EntryAtStep, GuardAtStep, NewestDoubt, Busy, InFlight
  <2>4. SendsCounted'
    BY <2>2 DEF IInv, SendsCounted
  <2>5. OwnersExist'
    BY <1>1, <2>1, <2>2 DEF IInv, OwnersExist
  <2>6. BlocksAreGuarded'
    BY <1>1, <2>1, <2>2, KeyFacts DEF IInv, BlocksAreGuarded, Unsent
  <2>7. ResolutionsHold'
    BY <1>1, <2>1, <2>2 DEF IInv, ResolutionsHold, Unsent
  <2>8. DoubtIsGuarded'
    <3> SUFFICES ASSUME NEW d \in doubt
                 PROVE  /\ guard'[KeyOf(d[1], d[2])] \in Blocking
                        /\ owner[KeyOf(d[1], d[2])] = d[1]
                        /\ entry[d[1]][d[2]] \in Blocking
      BY <2>2 DEF DoubtIsGuarded
    <3>1. d[1] \in Path /\ d[2] \in Prompt
      BY DoubtType
    <3>2. KeyOf(d[1], d[2]) \in Key /\ KeyOf(d[1], d[2]).prompt = d[2]
      BY <3>1, KeyFacts
    <3>3. KeyOf(d[1], d[2]) # K
      BY <1>1, <2>1, <3>2 DEF IInv, DoubtIsGuarded, Blocking
    <3>4. QED
      BY <2>1, <3>2, <3>3 DEF IInv, DoubtIsGuarded
  <2>9. QED
    BY <2>3, <2>4, <2>5, <2>6, <2>7, <2>8 DEF IInv
<1>4. QED
  BY <1>2, <1>3

-----------------------------------------------------------------------------
(* The invariant and the promises *)

(* IInv is inductive. *)
LEMMA StepInv == IInv /\ [Next]_vars => IInv'
<1> SUFFICES ASSUME IInv, [Next]_vars PROVE IInv'
  OBVIOUS
<1>1. TypeOK' /\ AtWork'
  BY StepType DEF IInv
<1>2. ASSUME NEW p \in Path, Open(p) PROVE IInv'
  BY <1>1, <1>2, RestInv DEF Open
<1>3. ASSUME NEW q \in Prompt, Reuse(q) PROVE IInv'
  BY <1>1, <1>3, ReuseInv
<1>4. ASSUME NEW q \in Prompt, SaveReceipt(q) PROVE IInv'
  BY <1>1, <1>4, SaveReceiptInv
<1>5. CASE SaveGuard
  BY <1>1, <1>5, SaveGuardInv
<1>6. CASE Dispatch
  BY <1>1, <1>6, DispatchInv
<1>7. CASE FailBeforeSend \/ Reply \/ Refuse \/ LoseOutcome
  BY <1>1, <1>7, ProviderInv
<1>8. CASE RecordSuccess
  BY <1>1, <1>8, OutcomeInv DEF RecordSuccess, Go, InFlight
<1>9. CASE RecordRetryable
  BY <1>1, <1>9, OutcomeInv DEF RecordRetryable, Go, InFlight
<1>10. CASE RecordUnknown
  BY <1>1, <1>10, OutcomeInv DEF RecordUnknown, Go, InFlight
<1>11. CASE ResolveSucceeded
  BY <1>1, <1>11, ResolvedInv DEF ResolveSucceeded
<1>12. CASE ResolveRetryable
  BY <1>1, <1>12, ResolvedInv DEF ResolveRetryable, Leave
<1>13. CASE GuardUnknown
  BY <1>1, <1>13, ResolvedInv DEF GuardUnknown, Leave
<1>14. CASE Stop
  BY <1>1, <1>14, RestInv DEF Stop, Leave
<1>15. CASE UNCHANGED vars
  BY <1>15, <1>1 DEF vars, disk, IInv, EntryAtStep, GuardAtStep, NewestDoubt, SendsCounted,
    OwnersExist, BlocksAreGuarded, ResolutionsHold, DoubtIsGuarded, Unsent, GuardKey
<1>16. QED
  BY <1>2, <1>3, <1>4, <1>5, <1>6, <1>7, <1>8, <1>9, <1>10, <1>11, <1>12, <1>13, <1>14,
     <1>15 DEF Next

(* Every state of a generation has the invariant. *)
THEOREM Invariant == Spec => []IInv
<1>1. Init => IInv
  BY InitInv
<1>2. IInv /\ [Next]_vars => IInv'
  BY StepInv
<1>3. QED
  BY <1>1, <1>2, PTL DEF Spec

(* The files and the generation keep their types. *)
THEOREM TypeCorrect == Spec => []TypeOK
<1>1. IInv => TypeOK
  BY DEF IInv
<1>2. QED
  BY <1>1, Invariant, PTL

(* Every request in doubt is held by a blocking guard entry and a blocking *)
(* receipt, whatever two saves a crash falls between.                      *)
THEOREM DoubtStaysGuarded == Spec => []DoubtIsGuarded
<1>1. IInv => DoubtIsGuarded
  BY DEF IInv
<1>2. QED
  BY <1>1, Invariant, PTL

(* The inventory is sound unless a receipt was saved and never sent. *)
LEMMA SoundInventory ==
  ASSUME IInv, \A p \in exists, q \in Prompt : ~Unsent(p, q)
  PROVE  InventorySound
<1>1. \A p \in Path, q \in Prompt : ~Unsent(p, q)
  BY DEF IInv, OwnersExist, Unsent
<1>2. BlockedFilesReferenced
  <2> SUFFICES ASSUME NEW p \in exists, NEW q \in Prompt, entry[p][q] \in Blocking
               PROVE  p \in Referenced
    BY DEF BlockedFilesReferenced
  <2>1. p \in Path /\ KeyOf(p, q) \in Key
    BY KeyFacts DEF IInv, TypeOK
  <2>2. owner[KeyOf(p, q)] = p /\ guard[KeyOf(p, q)] # "none"
    BY <1>1, <2>1 DEF IInv, BlocksAreGuarded
  <2>3. QED
    BY <2>1, <2>2 DEF Referenced
<1>3. ReferencesExist
  BY DEF IInv, OwnersExist, ReferencesExist, Referenced
<1>4. ResolutionsProven
  <2> SUFFICES ASSUME NEW k \in Key, guard[k] = "retryable"
               PROVE  entry[owner[k]][k.prompt] = "none"
    BY DEF IInv, ResolutionsHold, ResolutionsProven
  <2>1. owner[k] \in Path /\ k.prompt \in Prompt
    BY EpochType DEF IInv, OwnersExist, TypeOK
  <2>2. QED
    BY <1>1, <2>1 DEF IInv, ResolutionsHold
<1>5. QED
  BY <1>2, <1>3, <1>4 DEF InventorySound

(* The receipts account for every request: the budget holds across crashes, *)
(* and only a receipt whose request was never sent refuses a checkpoint.    *)
THEOREM ReceiptsAlwaysAccount == Spec => []ReceiptsAccount
<1>1. IInv => ReceiptsAccount
  <2> SUFFICES ASSUME IInv PROVE ReceiptsAccount
    OBVIOUS
  <2>1. \A p \in Path : sends[p] <= attempts[p] /\ attempts[p] <= MaxRequests
    BY CheckpointAssumption DEF IInv, TypeOK, SendsCounted
  <2>2. InventorySound \/ \E p \in exists, q \in Prompt : Unsent(p, q)
    BY SoundInventory
  <2>3. QED
    BY <2>1, <2>2 DEF ReceiptsAccount, Unsent
<1>2. QED
  BY <1>1, Invariant, PTL

(* A request goes out only where no earlier one is in doubt. *)
LEMMA SendsAreNewest ==
  ASSUME IInv, [Next]_vars, NEW d \in doubt' \ doubt, NEW e \in doubt,
         e[1].identity = d[1].identity
  PROVE  e[1].epoch < d[1].epoch
<1>1. Dispatch
  BY DEF Next, vars, Open, Reuse, SaveReceipt, SaveGuard, FailBeforeSend, Reply, Refuse,
    LoseOutcome, RecordSuccess, ResolveSucceeded, RecordRetryable, ResolveRetryable,
    RecordUnknown, GuardUnknown, Stop
<1>2. d = <<path, prompt>> /\ pc = "armed"
  BY <1>1 DEF Dispatch
<1>3. <<path, prompt>> \notin doubt
  BY <1>2 DEF IInv, NewestDoubt
<1>4. QED
  BY <1>2, <1>3 DEF IInv, NewestDoubt, Busy

(* A saved answer is final. *)
LEMMA AnswersAreFinal ==
  ASSUME IInv, [Next]_vars, NEW p \in Path, NEW q \in Prompt, entry[p][q] = "succeeded"
  PROVE  entry'[p][q] = "succeeded"
<1>1. CASE \E r \in Prompt : SaveReceipt(r)
  BY <1>1 DEF IInv, TypeOK, SaveReceipt
<1>2. CASE RecordSuccess \/ RecordRetryable \/ RecordUnknown
  <2>1. entry[path][prompt] = "pending"
    BY <1>2 DEF IInv, EntryAtStep, InFlight, RecordSuccess, RecordRetryable, RecordUnknown
  <2>2. QED
    BY <1>2, <2>1 DEF IInv, TypeOK, RecordSuccess, RecordRetryable, RecordUnknown
<1>3. CASE UNCHANGED entry
  BY <1>3
<1>4. QED
  BY <1>1, <1>2, <1>3 DEF Next, vars, disk, Open, Reuse, SaveGuard, Dispatch, FailBeforeSend,
    Reply, Refuse, LoseOutcome, ResolveSucceeded, ResolveRetryable, GuardUnknown, Stop

(* A request in doubt is not overtaken but under a later epoch, and an answer *)
(* that is saved is neither lost nor paid for again.                          *)
THEOREM NothingIsPaidTwice == Spec => NothingPaidTwice
<1> DEFINE Step == /\ \A d \in doubt' \ doubt : \A e \in doubt :
                        e[1].identity = d[1].identity => e[1].epoch < d[1].epoch
                   /\ \A p \in Path, q \in Prompt :
                        entry[p][q] = "succeeded" => /\ entry'[p][q] = "succeeded"
                                                     /\ <<p, q>> \notin doubt'
<1>1. IInv /\ [Next]_vars => [Step]_vars
  <2> SUFFICES ASSUME IInv, [Next]_vars PROVE Step
    OBVIOUS
  <2>1. \A d \in doubt' \ doubt : \A e \in doubt :
          e[1].identity = d[1].identity => e[1].epoch < d[1].epoch
    BY SendsAreNewest
  <2>2. ASSUME NEW p \in Path, NEW q \in Prompt, entry[p][q] = "succeeded"
        PROVE  entry'[p][q] = "succeeded" /\ <<p, q>> \notin doubt'
    <3>1. entry'[p][q] = "succeeded"
      BY <2>2, AnswersAreFinal
    <3>2. DoubtIsGuarded'
      BY StepInv DEF IInv
    <3>3. QED
      BY <3>1, <3>2 DEF DoubtIsGuarded, Blocking
  <2>3. QED
    BY <2>1, <2>2
<1>2. QED
  BY <1>1, Invariant, PTL DEF Spec, NothingPaidTwice

(* The pipeline's program runs the minutes as MinutesCheckpoints does, so   *)
(* all of its promises hold in the pipeline too.                            *)
THEOREM PipelineRunsMinutes == PipelineSpec => Spec
<1>1. PipelineInit => Init
  BY DEF PipelineInit
<1>2. [PipelineNext]_<<focus, vars, bvars, ivars, hvars, tvars, cvars>> => [Next]_vars
  BY DEF PipelineNext
<1> QED
  BY <1>1, <1>2, PTL DEF PipelineSpec, Spec

-----------------------------------------------------------------------------
(****************************************************************************)
(* Proofs about the catalog, the index over the bundles, as an action of    *)
(* MCPipeline's program runs it.  TLC checks CatalogSafe of a few meetings; *)
(* here it holds for any number of meetings, scopes, words and events.      *)
(*                                                                          *)
(* CatalogSafe alone is not inductive.  CatalogInv says besides what every  *)
(* writer is about while it holds the lock of its meeting (WriterInv), what *)
(* a rebuild holds in its hands between reading a bundle and listing it     *)
(* (RebuildInv), and that whatever is listed or found differs from the      *)
(* files only for the meetings that a writer, a rebuild or a reported error *)
(* still owes (RowInv, WordInv).                                            *)
(****************************************************************************)

(* The statuses a manifest and its row can have. *)
ManifestStatus == {"recorded", "processing", "ready", "failed"}

(* What the catalog takes from a manifest. *)
Manifest ==
  [scope : Scope \cup {Index!Unscoped}, status : ManifestStatus,
   listed : SUBSET (0 .. MaxEvents)]

(* What a handler has done, and has to log or to tell. *)
Done == {"create", "scope", "entry", "delete"} \X Meeting \X (0 .. MaxEvents)

(* The words of a transcript, or none. *)
IndexedWords == Word \cup {Index!NoWord}

(* A handler that lists what it wrote, logs it and returns. *)
Listing == [pc : {"sync", "entry", "log", "return"}, next : {"return", "log", "entry"},
            event : Done]

(* A handler that deletes. *)
Deleting == [pc : {"unlist", "log", "return"}, event : Done]

(* A job that saves its status before a stage, and is in the stage. *)
Working == [pc : {"sync", "stage"}, next : {"stage"}, before : ManifestStatus]

(* A job that has ended a stage. *)
Ending == [pc : {"sync", "index", "ended"}, next : {"index", "ended"}]

(* Who holds the lock of a meeting, and where it is. *)
WriterType == {Index!Free} \cup Listing \cup Deleting \cup Working \cup Ending

(* How many things were done, up to the bound of the model. *)
EventNumber == 0 .. MaxEvents

(* A rebuild about to open a bundle. *)
Opening == [pc : {"open"}, todo : SUBSET Meeting, n : EventNumber]

(* A rebuild that holds a manifest it has read. *)
Upserting == [pc : {"upsert"}, todo : SUBSET Meeting, n : EventNumber, of : Meeting,
              manifest : Manifest, raced : BOOLEAN]

(* A rebuild that has listed a meeting and is to load its transcript. *)
Loading == [pc : {"load"}, todo : SUBSET Meeting, n : EventNumber, of : Meeting]

(* A rebuild that holds the words it has loaded. *)
Inserting == [pc : {"insert"}, todo : SUBSET Meeting, n : EventNumber, of : Meeting,
              words : IndexedWords, raced : BOOLEAN]

(* Where a rebuild is. *)
RebuildType == {Index!Resting} \cup Opening \cup Upserting \cup Loading \cup Inserting

(* The type of every variable of the catalog. *)
CatalogTypes ==
  /\ bundle \in [Meeting -> Manifest \cup {Index!Absent, Index!Trashed}]
  /\ rows \in [Meeting -> Manifest \cup {Index!Absent}]
  /\ entries \in [Meeting -> SUBSET (0 .. MaxEvents)]
  /\ words \in [Meeting -> IndexedWords] /\ found \in [Meeting -> IndexedWords]
  /\ jobRow \in [Meeting -> {"none", "queued", "running", "done", "failed"}]
  /\ doubted \in [rows : SUBSET Meeting, words : SUBSET Meeting] /\ events \in 0 .. MaxEvents
  /\ writer \in [Meeting -> WriterType] /\ rebuild \in RebuildType

(* What a writer is about, while it holds the lock of its meeting. *)
WriterInv(m) ==
  /\ writer[m].pc \in {"sync", "entry", "stage", "index", "ended"} => Index!Present(m)
  /\ Index!At(m, "unlist") => ~Index!Present(m)
  /\ Index!ActiveJob(m) => Index!Present(m)
  /\ ~Index!Present(m) => words[m] = Index!NoWord
  /\ Index!At(m, "entry") \/ (Index!At(m, "sync") /\ writer[m].next = "entry")
       => writer[m].event[3] \in bundle[m].listed

(* What the rebuild holds is what the files are, unless it was overtaken. *)
RebuildInv ==
  /\ rebuild.pc = "upsert" /\ ~rebuild.raced =>
       Index!Present(rebuild.of) /\ rebuild.manifest = bundle[rebuild.of]
  /\ rebuild.pc = "insert" /\ ~rebuild.raced => rebuild.words = words[rebuild.of]

(* What is not there is not listed, even while a rebuild has it to do. *)
RowInv(m) ==
  m \notin doubted.rows \cup Index!Held({"upsert"}) /\ ~Index!Unsynced(m) =>
    /\ ~Index!Present(m) => rows[m] = Index!Absent
    /\ Index!Present(m) /\ m \notin Index!Todo =>
         rows[m] = bundle[m] /\ entries[m] = bundle[m].listed

(* The words that are found are those of the files, and what is not there   *)
(* is not found.                                                            *)
WordInv(m) ==
  m \notin doubted.words \cup Index!Held({"upsert", "load", "insert"}) /\ ~Index!At(m, "unlist")
    /\ (m \notin Index!Todo \/ ~Index!Present(m))
  => found[m] = words[m]

(* What is about to be told is logged, or a meeting made. *)
LogInv(m) ==
  /\ Index!At(m, "return") => writer[m].event[1] = "create" \/ writer[m].event \in logged
  /\ Index!At(m, "sync") /\ writer[m].next = "return" => writer[m].event[1] = "create"

(* What the invariant says of one meeting. *)
MeetingParts(m) == WriterInv(m) /\ RowInv(m) /\ WordInv(m) /\ LogInv(m)

(* The inductive invariant. *)
CatalogInv ==
  /\ CatalogTypes /\ RebuildInv /\ told \subseteq logged
  /\ \A m \in Meeting : MeetingParts(m)

(* The rebuild goes on as it was, but for the mark that what it holds of    *)
(* this meeting is not what the files are any more.                         *)
Noted(m) ==
  /\ rebuild' \in RebuildType /\ rebuild'.pc = rebuild.pc
  /\ Index!Todo' = Index!Todo /\ Index!Held({"upsert"})' = Index!Held({"upsert"})
  /\ Index!Held({"upsert", "load", "insert"})' = Index!Held({"upsert", "load", "insert"})
  /\ rebuild.pc = "upsert" /\ ~rebuild'.raced =>
       /\ ~rebuild.raced /\ rebuild.of # m /\ rebuild'.of = rebuild.of
       /\ rebuild'.manifest = rebuild.manifest
  /\ rebuild.pc = "insert" /\ ~rebuild'.raced =>
       /\ ~rebuild.raced /\ rebuild.of # m /\ rebuild'.of = rebuild.of
       /\ rebuild'.words = rebuild.words

(* That is what a write to the files of a meeting does to a rebuild. *)
LEMMA CatalogNoticeTakes ==
  ASSUME CatalogTypes, NEW m \in Meeting, Index!Notice(m)
  PROVE  Noted(m)
<1>1. CASE rebuild.pc \notin {"upsert", "insert"} \/ rebuild.of # m
  <2>1. rebuild' = rebuild
    BY <1>1 DEF Index!Notice
  <2> QED
    BY <1>1, <2>1 DEF CatalogTypes, Index!Todo, Index!Held, Noted
<1>2. CASE rebuild.pc = "upsert" /\ rebuild.of = m
  <2>1. rebuild' = [rebuild EXCEPT !.raced = TRUE] /\ rebuild \in Upserting
    BY <1>2
      DEF Index!Notice, CatalogTypes, RebuildType, Index!Resting, Opening, Loading, Inserting
  <2>2. rebuild' \in Upserting /\ rebuild'.raced /\ rebuild'.of = rebuild.of
        /\ rebuild'.todo = rebuild.todo
    BY <2>1 DEF Upserting
  <2> QED
    BY <2>1, <2>2 DEF RebuildType, Index!Todo, Index!Held, Noted
<1>3. CASE rebuild.pc = "insert" /\ rebuild.of = m
  <2>1. rebuild' = [rebuild EXCEPT !.raced = TRUE] /\ rebuild \in Inserting
    BY <1>3
      DEF Index!Notice, CatalogTypes, RebuildType, Index!Resting, Opening, Upserting, Loading
  <2>2. rebuild' \in Inserting /\ rebuild'.raced /\ rebuild'.of = rebuild.of
        /\ rebuild'.todo = rebuild.todo
    BY <2>1 DEF Inserting
  <2> QED
    BY <2>1, <2>2 DEF RebuildType, Index!Todo, Index!Held, Noted
<1> QED
  BY <1>1, <1>2, <1>3

(* A meeting at which nothing changes keeps its parts of the invariant. *)
AtRest(q) ==
  /\ bundle'[q] = bundle[q] /\ words'[q] = words[q] /\ rows'[q] = rows[q]
  /\ entries'[q] = entries[q] /\ found'[q] = found[q] /\ jobRow'[q] = jobRow[q]
  /\ writer'[q] = writer[q] /\ logged \subseteq logged'
  /\ q \in doubted'.rows <=> q \in doubted.rows
  /\ q \in doubted'.words <=> q \in doubted.words

(* A rebuild holds what it held. *)
HeldAsBefore ==
  /\ Index!Todo' = Index!Todo /\ Index!Held({"upsert"})' = Index!Held({"upsert"})
  /\ Index!Held({"upsert", "load", "insert"})' = Index!Held({"upsert", "load", "insert"})

(* So an action on one meeting leaves the others as they were. *)
LEMMA CatalogOthersRest ==
  ASSUME NEW q \in Meeting, MeetingParts(q), AtRest(q), HeldAsBefore
  PROVE  MeetingParts(q)'
<1>1. WriterInv(q)'
  BY DEF MeetingParts, WriterInv, AtRest, Index!Present, Index!At, Index!ActiveJob
<1>2. RowInv(q)'
  BY DEF MeetingParts, RowInv, AtRest, HeldAsBefore, Index!Present, Index!Unsynced
<1>3. WordInv(q)'
  BY DEF MeetingParts, WordInv, AtRest, HeldAsBefore, Index!Present, Index!At
<1>4. LogInv(q)'
  BY DEF MeetingParts, LogInv, AtRest, Index!At
<1> QED
  BY <1>1, <1>2, <1>3, <1>4 DEF MeetingParts

(* A meeting is made: it is listed once its writer has synced. *)
LEMMA CatalogCreateKeeps ==
  ASSUME CatalogInv, Index!CatalogAssumption, NEW m \in Meeting, Index!Create(m)
  PROVE  CatalogInv'
<1>1. CatalogTypes /\ RebuildInv /\ told \subseteq logged /\ \A q \in Meeting : MeetingParts(q)
  BY DEF CatalogInv
<1>2. events' = events + 1 /\ events \in 0 .. MaxEvents /\ events' \in 0 .. MaxEvents
  BY <1>1 DEF Index!Create, Index!Event, CatalogTypes, Index!CatalogAssumption
<1>3. bundle[m] = Index!Absent /\ ~Index!Present(m) /\ writer[m].pc = "free"
  BY DEF Index!Create, Index!Present, Index!At
<1>4. bundle' = [bundle EXCEPT ![m] = Index!NewManifest]
  BY DEF Index!Create, Index!Save
<1>5. Index!NewManifest \in Manifest
  BY DEF Index!NewManifest, Manifest, ManifestStatus
<1>6. writer' = [writer EXCEPT ![m] =
                   [pc |-> "sync", next |-> "return", event |-> <<"create", m, events>>]]
  BY DEF Index!Create
<1>7. [pc |-> "sync", next |-> "return", event |-> <<"create", m, events>>] \in WriterType
  BY <1>2 DEF WriterType, Listing, Done
<1>8. Index!Notice(m)
  BY DEF Index!Create, Index!Save
<1>9. Noted(m)
  BY <1>1, <1>8, CatalogNoticeTakes
<1>10. Index!Present(m)' <=> TRUE
  BY <1>1, <1>4, <1>5
    DEF Index!Present, CatalogTypes, Manifest, ManifestStatus, Index!Absent, Index!Trashed
<1>11. /\ writer'[m].pc = "sync" /\ writer'[m].next = "return" /\ writer'[m].event[3] = events
       /\ writer'[m].event[1] = "create"
  BY <1>1, <1>6 DEF CatalogTypes
<1>12. UNCHANGED <<words, rows, entries, found, jobRow, logged, doubted, told>>
  BY DEF Index!Create, Index!derived
<1>13. CatalogTypes'
  BY <1>1, <1>2, <1>4, <1>5, <1>6, <1>7, <1>9, <1>12 DEF Noted, CatalogTypes
<1>14. RebuildInv'
  BY <1>1, <1>4, <1>9, <1>12 DEF Noted, RebuildInv, Index!Present
<1>15. told' \subseteq logged'
  BY <1>1 DEF Index!Create
<1>16. HeldAsBefore
  BY <1>9 DEF Noted, HeldAsBefore
<1>17. ASSUME NEW q \in Meeting, q # m
       PROVE  MeetingParts(q)'
  <2>1. AtRest(q)
    BY <1>17, <1>4, <1>6, <1>12 DEF AtRest
  <2> QED
    BY <1>1, <1>16, <2>1, CatalogOthersRest
<1>18. WriterInv(m)'
  BY <1>10, <1>11 DEF WriterInv, Index!At
<1>19. RowInv(m)'
  BY <1>11 DEF RowInv, Index!Unsynced
<1>20. WordInv(m)'
  BY <1>1, <1>3, <1>12, <1>16 DEF MeetingParts, WordInv, Index!At, HeldAsBefore
<1>21. LogInv(m)'
  BY <1>11 DEF LogInv
<1> QED
  BY <1>13, <1>14, <1>15, <1>17, <1>18, <1>19, <1>20, <1>21 DEF CatalogInv, MeetingParts

(* A meeting is given a scope, or none. *)
LEMMA CatalogSetScopeKeeps ==
  ASSUME CatalogInv, Index!CatalogAssumption, NEW m \in Meeting,
         NEW scope \in Scope \cup {Index!Unscoped}, Index!SetScope(m, scope)
  PROVE  CatalogInv'
<1>1. CatalogTypes /\ RebuildInv /\ told \subseteq logged /\ \A q \in Meeting : MeetingParts(q)
  BY DEF CatalogInv
<1>2. events' = events + 1 /\ events \in 0 .. MaxEvents /\ events' \in 0 .. MaxEvents
  BY <1>1 DEF Index!SetScope, Index!Event, CatalogTypes, Index!CatalogAssumption
<1>3. Index!Present(m) /\ bundle[m] \in Manifest /\ writer[m].pc = "free" /\ ~Index!ActiveJob(m)
  BY <1>1 DEF Index!SetScope, Index!MayWrite, Index!Present, CatalogTypes, Index!At
<1>4. bundle' = [bundle EXCEPT ![m] = [bundle[m] EXCEPT !.scope = scope]]
  BY DEF Index!SetScope, Index!Save
<1>5. [bundle[m] EXCEPT !.scope = scope] \in Manifest
  BY <1>3 DEF Manifest
<1>6. writer' = [writer EXCEPT ![m] =
                               [pc |-> "sync", next |-> "log", event |-> <<"scope", m, events>>]]
  BY DEF Index!SetScope
<1>7. [pc |-> "sync", next |-> "log", event |-> <<"scope", m, events>>] \in WriterType
  BY <1>2 DEF WriterType, Listing, Done
<1>8. Index!Notice(m)
  BY DEF Index!SetScope, Index!Save
<1>9. Noted(m)
  BY <1>1, <1>8, CatalogNoticeTakes
<1>10. Index!Present(m)' <=> TRUE
  BY <1>4, <1>5 DEF Index!Present, Manifest, Index!Absent, Index!Trashed
<1>11. writer'[m].pc = "sync" /\ writer'[m].next = "log" /\ writer'[m].event[3] = events
  BY <1>1, <1>6 DEF CatalogTypes
<1>12. UNCHANGED <<words, rows, entries, found, jobRow, logged, doubted, told>>
  BY DEF Index!SetScope, Index!derived
<1>13. CatalogTypes'
  BY <1>1, <1>2, <1>4, <1>5, <1>6, <1>7, <1>9, <1>12 DEF Noted, CatalogTypes
<1>14. RebuildInv'
  BY <1>1, <1>4, <1>9, <1>12 DEF Noted, RebuildInv, Index!Present
<1>15. told' \subseteq logged'
  BY <1>1 DEF Index!SetScope
<1>16. HeldAsBefore
  BY <1>9 DEF Noted, HeldAsBefore
<1>17. ASSUME NEW q \in Meeting, q # m
       PROVE  MeetingParts(q)'
  <2>1. AtRest(q)
    BY <1>17, <1>4, <1>6, <1>12 DEF AtRest
  <2> QED
    BY <1>1, <1>16, <2>1, CatalogOthersRest
<1>18. WriterInv(m)'
  BY <1>10, <1>11 DEF WriterInv, Index!At
<1>19. RowInv(m)'
  BY <1>11 DEF RowInv, Index!Unsynced
<1>20. WordInv(m)'
  BY <1>1, <1>3, <1>9, <1>10, <1>12 DEF Noted, MeetingParts, WordInv, Index!At
<1>21. LogInv(m)'
  BY <1>11 DEF LogInv, Index!At
<1> QED
  BY <1>13, <1>14, <1>15, <1>17, <1>18, <1>19, <1>20, <1>21 DEF CatalogInv, MeetingParts

(* An entry is written to a meeting. *)
LEMMA CatalogAddEntryKeeps ==
  ASSUME CatalogInv, Index!CatalogAssumption, NEW m \in Meeting, Index!AddEntry(m)
  PROVE  CatalogInv'
<1>1. CatalogTypes /\ RebuildInv /\ told \subseteq logged /\ \A q \in Meeting : MeetingParts(q)
  BY DEF CatalogInv
<1>2. events' = events + 1 /\ events \in 0 .. MaxEvents /\ events' \in 0 .. MaxEvents
  BY <1>1 DEF Index!AddEntry, Index!Event, CatalogTypes, Index!CatalogAssumption
<1>3. Index!Present(m) /\ bundle[m] \in Manifest /\ writer[m].pc = "free" /\ ~Index!ActiveJob(m)
  BY <1>1 DEF Index!AddEntry, Index!MayWrite, Index!Present, CatalogTypes, Index!At
<1>4. bundle' = [bundle EXCEPT ![m] = [bundle[m] EXCEPT !.listed = @ \cup {events}]]
  BY DEF Index!AddEntry, Index!Save
<1>5. [bundle[m] EXCEPT !.listed = @ \cup {events}] \in Manifest
  BY <1>2, <1>3 DEF Manifest
<1>6. writer' = [writer EXCEPT ![m] =
                               [pc |-> "sync", next |-> "entry", event |-> <<"entry", m, events>>]]
  BY DEF Index!AddEntry
<1>7. [pc |-> "sync", next |-> "entry", event |-> <<"entry", m, events>>] \in WriterType
  BY <1>2 DEF WriterType, Listing, Done
<1>8. Index!Notice(m)
  BY DEF Index!AddEntry, Index!Save
<1>9. Noted(m)
  BY <1>1, <1>8, CatalogNoticeTakes
<1>10. Index!Present(m)' <=> TRUE
  BY <1>4, <1>5 DEF Index!Present, Manifest, Index!Absent, Index!Trashed
<1>11. writer'[m].pc = "sync" /\ writer'[m].next = "entry" /\ writer'[m].event[3] = events
  BY <1>1, <1>6 DEF CatalogTypes
<1>12. events \in bundle'[m].listed
  BY <1>1, <1>4 DEF CatalogTypes
<1>13. UNCHANGED <<words, rows, entries, found, jobRow, logged, doubted, told>>
  BY DEF Index!AddEntry, Index!derived
<1>14. CatalogTypes'
  BY <1>1, <1>2, <1>4, <1>5, <1>6, <1>7, <1>9, <1>13 DEF Noted, CatalogTypes
<1>15. RebuildInv'
  BY <1>1, <1>4, <1>9, <1>13 DEF Noted, RebuildInv, Index!Present
<1>16. told' \subseteq logged'
  BY <1>1 DEF Index!AddEntry
<1>17. HeldAsBefore
  BY <1>9 DEF Noted, HeldAsBefore
<1>18. ASSUME NEW q \in Meeting, q # m
       PROVE  MeetingParts(q)'
  <2>1. AtRest(q)
    BY <1>18, <1>4, <1>6, <1>13 DEF AtRest
  <2> QED
    BY <1>1, <1>17, <2>1, CatalogOthersRest
<1>19. WriterInv(m)'
  BY <1>10, <1>11, <1>12 DEF WriterInv, Index!At
<1>20. RowInv(m)'
  BY <1>11 DEF RowInv, Index!Unsynced
<1>21. WordInv(m)'
  BY <1>1, <1>3, <1>9, <1>10, <1>13 DEF Noted, MeetingParts, WordInv, Index!At
<1>22. LogInv(m)'
  BY <1>11 DEF LogInv, Index!At
<1> QED
  BY <1>14, <1>15, <1>16, <1>18, <1>19, <1>20, <1>21, <1>22 DEF CatalogInv, MeetingParts

(* A meeting is moved to the trash before it is unlisted. *)
LEMMA CatalogDeleteMeetingKeeps ==
  ASSUME CatalogInv, Index!CatalogAssumption, NEW m \in Meeting, Index!DeleteMeeting(m)
  PROVE  CatalogInv'
<1>1. CatalogTypes /\ RebuildInv /\ told \subseteq logged /\ \A q \in Meeting : MeetingParts(q)
  BY DEF CatalogInv
<1>2. events' = events + 1 /\ events \in 0 .. MaxEvents /\ events' \in 0 .. MaxEvents
  BY <1>1 DEF Index!DeleteMeeting, Index!Event, CatalogTypes, Index!CatalogAssumption
<1>3. Index!Present(m) /\ bundle[m] \in Manifest /\ writer[m].pc = "free" /\ ~Index!ActiveJob(m)
  BY <1>1 DEF Index!DeleteMeeting, Index!MayWrite, Index!Present, CatalogTypes, Index!At
<1>4. words' = [words EXCEPT ![m] = Index!NoWord]
  BY DEF Index!DeleteMeeting
<1>5. bundle' = [bundle EXCEPT ![m] = Index!Trashed]
  BY DEF Index!DeleteMeeting, Index!Save
<1>6. writer' = [writer EXCEPT ![m] = [pc |-> "unlist", event |-> <<"delete", m, events>>]]
  BY DEF Index!DeleteMeeting
<1>7. [pc |-> "unlist", event |-> <<"delete", m, events>>] \in WriterType
  BY <1>2 DEF WriterType, Deleting, Done
<1>8. Index!Notice(m)
  BY DEF Index!DeleteMeeting, Index!Save
<1>9. Noted(m)
  BY <1>1, <1>8, CatalogNoticeTakes
<1>10. Index!Present(m)' <=> FALSE
  BY <1>1, <1>5 DEF Index!Present, CatalogTypes
<1>11. writer'[m].pc = "unlist"
  BY <1>1, <1>6 DEF CatalogTypes
<1>12. UNCHANGED <<rows, entries, found, jobRow, logged, doubted, told>>
  BY DEF Index!DeleteMeeting, Index!derived
<1>13. CatalogTypes'
  BY <1>1, <1>2, <1>4, <1>5, <1>6, <1>7, <1>9, <1>12 DEF Noted, CatalogTypes, IndexedWords
<1>14. RebuildInv'
  BY <1>1, <1>4, <1>5, <1>9 DEF Noted, RebuildInv, Index!Present
<1>15. told' \subseteq logged'
  BY <1>1 DEF Index!DeleteMeeting
<1>16. HeldAsBefore
  BY <1>9 DEF Noted, HeldAsBefore
<1>17. ASSUME NEW q \in Meeting, q # m
       PROVE  MeetingParts(q)'
  <2>1. AtRest(q)
    BY <1>17, <1>4, <1>5, <1>6, <1>12 DEF AtRest
  <2> QED
    BY <1>1, <1>16, <2>1, CatalogOthersRest
<1>18. WriterInv(m)'
  BY <1>1, <1>3, <1>4, <1>10, <1>11, <1>12 DEF WriterInv, Index!At, Index!ActiveJob, CatalogTypes
<1>19. RowInv(m)'
  BY <1>11 DEF RowInv, Index!Unsynced
<1>20. WordInv(m)'
  BY <1>11 DEF WordInv, Index!At
<1>21. LogInv(m)'
  BY <1>11 DEF LogInv, Index!At
<1> QED
  BY <1>13, <1>14, <1>15, <1>17, <1>18, <1>19, <1>20, <1>21 DEF CatalogInv, MeetingParts

(* The entry that was written is listed. *)
LEMMA CatalogRecordEntryKeeps ==
  ASSUME CatalogInv, Index!CatalogAssumption, NEW m \in Meeting, Index!RecordEntry(m)
  PROVE  CatalogInv'
<1>1. CatalogTypes /\ RebuildInv /\ told \subseteq logged /\ \A q \in Meeting : MeetingParts(q)
  BY DEF CatalogInv
<1>2. writer[m].pc = "entry" /\ writer[m] \in Listing
  BY <1>1
    DEF Index!RecordEntry, Index!At, CatalogTypes, WriterType, Index!Free, Deleting, Working,
        Ending
<1>3. writer' = [writer EXCEPT ![m] = [writer[m] EXCEPT !.pc = "log"]]
  BY DEF Index!RecordEntry, Index!Goto
<1>4. [writer[m] EXCEPT !.pc = "log"] \in WriterType
  BY <1>2 DEF WriterType, Listing
<1>5. writer'[m].pc = "log" /\ writer'[m].event = writer[m].event
  BY <1>1, <1>3 DEF CatalogTypes
<1>6. /\ entries' = [entries EXCEPT ![m] = @ \cup {writer[m].event[3]}]
      /\ writer[m].event[3] \in 0 .. MaxEvents /\ writer[m].event[3] \in bundle[m].listed
  BY <1>1, <1>2 DEF Index!RecordEntry, Listing, Done, MeetingParts, WriterInv
<1>7. UNCHANGED <<bundle, words, rows, found, jobRow, logged, rebuild, doubted, told, events>>
  BY DEF Index!RecordEntry, Index!files
<1>8. CatalogTypes'
  BY <1>1, <1>3, <1>4, <1>6, <1>7 DEF CatalogTypes
<1>9. RebuildInv'
  BY <1>1, <1>7 DEF RebuildInv, Index!Present
<1>10. told' \subseteq logged'
  BY <1>1 DEF Index!RecordEntry
<1>11. HeldAsBefore
  BY <1>7 DEF HeldAsBefore, Index!Todo, Index!Held
<1>12. ASSUME NEW q \in Meeting, q # m
       PROVE  MeetingParts(q)'
  <2>1. AtRest(q)
    BY <1>12, <1>3, <1>6, <1>7 DEF AtRest
  <2> QED
    BY <1>1, <1>11, <2>1, CatalogOthersRest
<1>13. WriterInv(m)'
  BY <1>1, <1>2, <1>3, <1>7 DEF MeetingParts, WriterInv, Index!At, Index!Present
<1>14. RowInv(m)'
  BY <1>1, <1>2, <1>6, <1>7, <1>11
    DEF MeetingParts, RowInv, Index!Unsynced, Index!Present, HeldAsBefore, CatalogTypes
<1>15. WordInv(m)'
  BY <1>1, <1>2, <1>7, <1>11 DEF MeetingParts, WordInv, Index!At, Index!Present, HeldAsBefore
<1>16. LogInv(m)'
  BY <1>5 DEF LogInv, Index!At
<1> QED
  BY <1>8, <1>9, <1>10, <1>12, <1>13, <1>14, <1>15, <1>16 DEF CatalogInv, MeetingParts

(* What was done is logged. *)
LEMMA CatalogAuditKeeps ==
  ASSUME CatalogInv, Index!CatalogAssumption, NEW m \in Meeting, Index!Audit(m)
  PROVE  CatalogInv'
<1>1. CatalogTypes /\ RebuildInv /\ told \subseteq logged /\ \A q \in Meeting : MeetingParts(q)
  BY DEF CatalogInv
<1>2. writer[m].pc = "log" /\ writer[m] \in Listing \cup Deleting
  BY <1>1 DEF Index!Audit, Index!At, CatalogTypes, WriterType, Index!Free, Working, Ending
<1>3. writer' = [writer EXCEPT ![m] = [writer[m] EXCEPT !.pc = "return"]]
  BY DEF Index!Audit, Index!Goto
<1>4. [writer[m] EXCEPT !.pc = "return"] \in WriterType
  BY <1>2 DEF WriterType, Listing, Deleting
<1>5. writer'[m].pc = "return" /\ writer'[m].event = writer[m].event
  BY <1>1, <1>3 DEF CatalogTypes
<1>6. logged' = logged \cup {writer[m].event}
  BY DEF Index!Audit
<1>7. UNCHANGED <<bundle, words, rows, entries, found, jobRow, rebuild, doubted, told, events>>
  BY DEF Index!Audit, Index!files, Index!derived
<1>8. CatalogTypes'
  BY <1>1, <1>3, <1>4, <1>7 DEF CatalogTypes
<1>9. RebuildInv'
  BY <1>1, <1>7 DEF RebuildInv, Index!Present
<1>10. told' \subseteq logged'
  BY <1>1 DEF Index!Audit
<1>11. HeldAsBefore
  BY <1>7 DEF HeldAsBefore, Index!Todo, Index!Held
<1>12. ASSUME NEW q \in Meeting, q # m
       PROVE  MeetingParts(q)'
  <2>1. AtRest(q)
    BY <1>12, <1>3, <1>6, <1>7 DEF AtRest
  <2> QED
    BY <1>1, <1>11, <2>1, CatalogOthersRest
<1>13. WriterInv(m)'
  BY <1>1, <1>3, <1>7 DEF MeetingParts, WriterInv, Index!At, Index!Present, Index!ActiveJob
<1>14. RowInv(m)'
  BY <1>1, <1>2, <1>7, <1>11 DEF MeetingParts, RowInv, Index!Unsynced, Index!Present, HeldAsBefore
<1>15. WordInv(m)'
  BY <1>1, <1>2, <1>7, <1>11 DEF MeetingParts, WordInv, Index!At, Index!Present, HeldAsBefore
<1>16. LogInv(m)'
  BY <1>5, <1>6 DEF LogInv, Index!At
<1> QED
  BY <1>8, <1>9, <1>10, <1>12, <1>13, <1>14, <1>15, <1>16 DEF CatalogInv, MeetingParts

(* A handler tells what is logged, or that a meeting was made. *)
LEMMA CatalogReturnKeeps ==
  ASSUME CatalogInv, Index!CatalogAssumption, NEW m \in Meeting, Index!Return(m)
  PROVE  CatalogInv'
<1>1. CatalogTypes /\ RebuildInv /\ told \subseteq logged /\ \A q \in Meeting : MeetingParts(q)
  BY DEF CatalogInv
<1>2. writer[m].pc = "return" /\ writer[m] \in Listing \cup Deleting
  BY <1>1 DEF Index!Return, Index!At, CatalogTypes, WriterType, Index!Free, Working, Ending
<1>3. writer' = [writer EXCEPT ![m] = Index!Free]
  BY DEF Index!Return
<1>4. Index!Free \in WriterType /\ Index!Free.pc = "free"
  BY DEF WriterType, Index!Free
<1>5. writer'[m].pc = "free"
  BY <1>1, <1>3, <1>4 DEF CatalogTypes
<1>6. UNCHANGED <<bundle, words, rows, entries, found, jobRow, logged, rebuild, doubted, events>>
  BY DEF Index!Return, Index!files, Index!derived
<1>7. CatalogTypes'
  BY <1>1, <1>3, <1>4, <1>6 DEF CatalogTypes
<1>8. RebuildInv'
  BY <1>1, <1>6 DEF RebuildInv, Index!Present
<1>9. told' \subseteq logged'
  BY <1>1 DEF Index!Return, MeetingParts, LogInv
<1>10. HeldAsBefore
  BY <1>6 DEF HeldAsBefore, Index!Todo, Index!Held
<1>11. ASSUME NEW q \in Meeting, q # m
       PROVE  MeetingParts(q)'
  <2>1. AtRest(q)
    BY <1>11, <1>3, <1>6 DEF AtRest
  <2> QED
    BY <1>1, <1>10, <2>1, CatalogOthersRest
<1>12. WriterInv(m)'
  BY <1>1, <1>5, <1>6 DEF MeetingParts, WriterInv, Index!At, Index!Present, Index!ActiveJob
<1>13. RowInv(m)'
  BY <1>1, <1>2, <1>6, <1>10 DEF MeetingParts, RowInv, Index!Unsynced, Index!Present, HeldAsBefore
<1>14. WordInv(m)'
  BY <1>1, <1>2, <1>6, <1>10 DEF MeetingParts, WordInv, Index!At, Index!Present, HeldAsBefore
<1>15. LogInv(m)'
  BY <1>5 DEF LogInv, Index!At
<1> QED
  BY <1>7, <1>8, <1>9, <1>11, <1>12, <1>13, <1>14, <1>15 DEF CatalogInv, MeetingParts

(* A writer syncs the row with the manifest it holds the lock of. *)
LEMMA CatalogSyncCatalogKeeps ==
  ASSUME CatalogInv, Index!CatalogAssumption, NEW m \in Meeting, Index!SyncCatalog(m)
  PROVE  CatalogInv'
<1>1. CatalogTypes /\ RebuildInv /\ told \subseteq logged /\ \A q \in Meeting : MeetingParts(q)
  BY DEF CatalogInv
<1>2. writer[m].pc = "sync" /\ writer[m] \in Listing \cup Working \cup Ending
  BY <1>1 DEF Index!SyncCatalog, Index!At, CatalogTypes, WriterType, Index!Free, Deleting
<1>3. writer' = [writer EXCEPT ![m] = [writer[m] EXCEPT !.pc = writer[m].next]]
  BY DEF Index!SyncCatalog, Index!Goto
<1>4. /\ [writer[m] EXCEPT !.pc = writer[m].next] \in WriterType
      /\ writer[m].next \notin {"sync", "unlist"}
  BY <1>2 DEF WriterType, Listing, Working, Ending
<1>5. Index!Present(m) /\ bundle[m] \in Manifest
  BY <1>1, <1>2 DEF MeetingParts, WriterInv, Index!Present, CatalogTypes
<1>6. rows' = [rows EXCEPT ![m] = bundle[m]]
  BY DEF Index!SyncCatalog
<1>7. entries' = [entries EXCEPT ![m] = bundle[m].listed]
  BY DEF Index!SyncCatalog
<1>8. bundle[m].listed \in SUBSET (0 .. MaxEvents)
  BY <1>5 DEF Manifest
<1>9. /\ doubted' \in [rows : SUBSET Meeting, words : SUBSET Meeting]
      /\ doubted'.rows = doubted.rows \ {m} /\ doubted'.words = doubted.words
  BY <1>1 DEF Index!SyncCatalog, Index!Trust, CatalogTypes
<1>10. UNCHANGED <<bundle, words, found, jobRow, logged, rebuild, told, events>>
  BY DEF Index!SyncCatalog, Index!files
<1>11. CatalogTypes'
  BY <1>1, <1>3, <1>4, <1>5, <1>6, <1>7, <1>8, <1>9, <1>10 DEF CatalogTypes
<1>12. RebuildInv'
  BY <1>1, <1>10 DEF RebuildInv, Index!Present
<1>13. told' \subseteq logged'
  BY <1>1 DEF Index!SyncCatalog
<1>14. HeldAsBefore
  BY <1>10 DEF HeldAsBefore, Index!Todo, Index!Held
<1>15. ASSUME NEW q \in Meeting, q # m
       PROVE  MeetingParts(q)'
  <2>1. AtRest(q)
    BY <1>15, <1>3, <1>6, <1>7, <1>9, <1>10 DEF AtRest
  <2> QED
    BY <1>1, <1>14, <2>1, CatalogOthersRest
<1>16. WriterInv(m)'
  BY <1>1, <1>2, <1>3, <1>4, <1>10 DEF MeetingParts, WriterInv, Index!At, Index!Present
<1>17. RowInv(m)'
  BY <1>1, <1>5, <1>6, <1>7, <1>10 DEF RowInv, Index!Present, CatalogTypes
<1>18. WordInv(m)'
  BY <1>1, <1>2, <1>9, <1>10, <1>14
    DEF MeetingParts, WordInv, Index!At, Index!Present, HeldAsBefore
<1>19. LogInv(m)'
  BY <1>1, <1>2, <1>3 DEF MeetingParts, LogInv, Index!At
<1> QED
  BY <1>11, <1>12, <1>13, <1>15, <1>16, <1>17, <1>18, <1>19 DEF CatalogInv, MeetingParts

(* The row and the words of a deleted meeting go. *)
LEMMA CatalogUnlistKeeps ==
  ASSUME CatalogInv, Index!CatalogAssumption, NEW m \in Meeting, Index!Unlist(m)
  PROVE  CatalogInv'
<1>1. CatalogTypes /\ RebuildInv /\ told \subseteq logged /\ \A q \in Meeting : MeetingParts(q)
  BY DEF CatalogInv
<1>2. writer[m].pc = "unlist" /\ writer[m] \in Deleting
  BY <1>1
    DEF Index!Unlist, Index!At, CatalogTypes, WriterType, Index!Free, Listing, Working, Ending
<1>3. writer' = [writer EXCEPT ![m] = [writer[m] EXCEPT !.pc = "log"]]
  BY DEF Index!Unlist, Index!Goto
<1>4. [writer[m] EXCEPT !.pc = "log"] \in WriterType
  BY <1>2 DEF WriterType, Deleting
<1>5. writer'[m].pc = "log" /\ writer'[m].event = writer[m].event
  BY <1>1, <1>3 DEF CatalogTypes
<1>6. rows' = [rows EXCEPT ![m] = Index!Absent]
  BY DEF Index!Unlist
<1>7. entries' = [entries EXCEPT ![m] = {}]
  BY DEF Index!Unlist
<1>8. found' = [found EXCEPT ![m] = Index!NoWord]
  BY DEF Index!Unlist
<1>9. /\ doubted' \in [rows : SUBSET Meeting, words : SUBSET Meeting]
      /\ doubted'.rows = doubted.rows \ {m} /\ doubted'.words = doubted.words \ {m}
  BY <1>1 DEF Index!Unlist, Index!Trust, CatalogTypes
<1>10. ~Index!Present(m) /\ words[m] = Index!NoWord
  BY <1>1, <1>2 DEF MeetingParts, WriterInv, Index!At
<1>11. UNCHANGED <<bundle, words, jobRow, logged, rebuild, told, events>>
  BY DEF Index!Unlist, Index!files
<1>12. CatalogTypes'
  BY <1>1, <1>3, <1>4, <1>6, <1>7, <1>8, <1>9, <1>10, <1>11 DEF CatalogTypes
<1>13. RebuildInv'
  BY <1>1, <1>11 DEF RebuildInv, Index!Present
<1>14. told' \subseteq logged'
  BY <1>1 DEF Index!Unlist
<1>15. HeldAsBefore
  BY <1>11 DEF HeldAsBefore, Index!Todo, Index!Held
<1>16. ASSUME NEW q \in Meeting, q # m
       PROVE  MeetingParts(q)'
  <2>1. AtRest(q)
    BY <1>16, <1>3, <1>6, <1>7, <1>8, <1>9, <1>11 DEF AtRest
  <2> QED
    BY <1>1, <1>15, <2>1, CatalogOthersRest
<1>17. WriterInv(m)'
  BY <1>1, <1>3, <1>11 DEF MeetingParts, WriterInv, Index!At, Index!Present, Index!ActiveJob
<1>18. RowInv(m)'
  BY <1>1, <1>6, <1>10, <1>11 DEF RowInv, Index!Present, CatalogTypes
<1>19. WordInv(m)'
  BY <1>1, <1>8, <1>10, <1>11 DEF WordInv, CatalogTypes
<1>20. LogInv(m)'
  BY <1>5 DEF LogInv, Index!At
<1> QED
  BY <1>12, <1>13, <1>14, <1>16, <1>17, <1>18, <1>19, <1>20 DEF CatalogInv, MeetingParts

(* A job is accepted for a meeting that is there. *)
LEMMA CatalogCreateJobKeeps ==
  ASSUME CatalogInv, Index!CatalogAssumption, NEW m \in Meeting, Index!CreateJob(m)
  PROVE  CatalogInv'
<1>1. CatalogTypes /\ RebuildInv /\ told \subseteq logged /\ \A q \in Meeting : MeetingParts(q)
  BY DEF CatalogInv
<1>2. events' = events + 1 /\ events \in 0 .. MaxEvents /\ events' \in 0 .. MaxEvents
  BY <1>1 DEF Index!CreateJob, Index!Event, CatalogTypes, Index!CatalogAssumption
<1>3. Index!Present(m) /\ bundle[m] \in Manifest /\ writer[m].pc = "free" /\ ~Index!ActiveJob(m)
  BY <1>1 DEF Index!CreateJob, Index!MayWrite, Index!Present, CatalogTypes, Index!At
<1>4. jobRow' = [jobRow EXCEPT ![m] = "queued"]
  BY DEF Index!CreateJob
<1>5. UNCHANGED <<bundle, words, rows, entries, found, logged, writer, rebuild, doubted, told>>
  BY DEF Index!CreateJob, Index!files, Index!derived
<1>6. CatalogTypes'
  BY <1>1, <1>2, <1>4, <1>5 DEF CatalogTypes
<1>7. RebuildInv'
  BY <1>1, <1>5 DEF RebuildInv, Index!Present
<1>8. told' \subseteq logged'
  BY <1>1 DEF Index!CreateJob
<1>9. HeldAsBefore
  BY <1>5 DEF HeldAsBefore, Index!Todo, Index!Held
<1>10. ASSUME NEW q \in Meeting, q # m
       PROVE  MeetingParts(q)'
  <2>1. AtRest(q)
    BY <1>10, <1>4, <1>5 DEF AtRest
  <2> QED
    BY <1>1, <1>9, <2>1, CatalogOthersRest
<1>11. WriterInv(m)'
  BY <1>3, <1>5 DEF WriterInv, Index!At, Index!Present
<1>12. RowInv(m)'
  BY <1>1, <1>5, <1>9 DEF MeetingParts, RowInv, Index!Unsynced, Index!Present, HeldAsBefore
<1>13. WordInv(m)'
  BY <1>1, <1>5, <1>9 DEF MeetingParts, WordInv, Index!At, Index!Present, HeldAsBefore
<1>14. LogInv(m)'
  BY <1>3, <1>5 DEF LogInv, Index!At
<1> QED
  BY <1>6, <1>7, <1>8, <1>10, <1>11, <1>12, <1>13, <1>14 DEF CatalogInv, MeetingParts

(* A job begins, and its status is saved. *)
LEMMA CatalogStartJobKeeps ==
  ASSUME CatalogInv, Index!CatalogAssumption, NEW m \in Meeting, Index!StartJob(m)
  PROVE  CatalogInv'
<1>1. CatalogTypes /\ RebuildInv /\ told \subseteq logged /\ \A q \in Meeting : MeetingParts(q)
  BY DEF CatalogInv
<1>2. Index!Present(m) /\ bundle[m] \in Manifest /\ writer[m].pc = "free"
  BY <1>1
    DEF Index!StartJob, MeetingParts, WriterInv, Index!ActiveJob, Index!Present, CatalogTypes,
        Index!At
<1>3. jobRow' = [jobRow EXCEPT ![m] = "running"]
  BY DEF Index!StartJob
<1>4. bundle[m].status \in ManifestStatus
  BY <1>2 DEF Manifest
<1>5. bundle' = [bundle EXCEPT ![m] = [bundle[m] EXCEPT !.status = "processing"]]
  BY DEF Index!StartJob, Index!Save
<1>6. [bundle[m] EXCEPT !.status = "processing"] \in Manifest
  BY <1>2 DEF Manifest, ManifestStatus
<1>7. writer' = [writer EXCEPT ![m] =
                               [pc |-> "sync", next |-> "stage", before |-> bundle[m].status]]
  BY DEF Index!StartJob
<1>8. [pc |-> "sync", next |-> "stage", before |-> bundle[m].status] \in WriterType
  BY <1>4 DEF WriterType, Working
<1>9. Index!Notice(m)
  BY DEF Index!StartJob, Index!Save
<1>10. Noted(m)
  BY <1>1, <1>9, CatalogNoticeTakes
<1>11. Index!Present(m)' <=> TRUE
  BY <1>5, <1>6 DEF Index!Present, Manifest, Index!Absent, Index!Trashed
<1>12. writer'[m].pc = "sync" /\ writer'[m].next = "stage"
  BY <1>1, <1>7 DEF CatalogTypes
<1>13. UNCHANGED <<words, rows, entries, found, logged, doubted, told, events>>
  BY DEF Index!StartJob, Index!derived
<1>14. CatalogTypes'
  BY <1>1, <1>3, <1>5, <1>6, <1>7, <1>8, <1>10, <1>13 DEF Noted, CatalogTypes
<1>15. RebuildInv'
  BY <1>1, <1>5, <1>10, <1>13 DEF Noted, RebuildInv, Index!Present
<1>16. told' \subseteq logged'
  BY <1>1 DEF Index!StartJob
<1>17. HeldAsBefore
  BY <1>10 DEF Noted, HeldAsBefore
<1>18. ASSUME NEW q \in Meeting, q # m
       PROVE  MeetingParts(q)'
  <2>1. AtRest(q)
    BY <1>18, <1>3, <1>5, <1>7, <1>13 DEF AtRest
  <2> QED
    BY <1>1, <1>17, <2>1, CatalogOthersRest
<1>19. WriterInv(m)'
  BY <1>11, <1>12 DEF WriterInv, Index!At
<1>20. RowInv(m)'
  BY <1>12 DEF RowInv, Index!Unsynced
<1>21. WordInv(m)'
  BY <1>1, <1>2, <1>11, <1>13, <1>17 DEF MeetingParts, WordInv, Index!At, HeldAsBefore
<1>22. LogInv(m)'
  BY <1>12 DEF LogInv, Index!At
<1> QED
  BY <1>14, <1>15, <1>16, <1>18, <1>19, <1>20, <1>21, <1>22 DEF CatalogInv, MeetingParts

(* A stage writes a transcript: its words are found once it is indexed. *)
LEMMA CatalogStageMergesKeeps ==
  ASSUME CatalogInv, Index!CatalogAssumption, NEW m \in Meeting, NEW w \in Word,
         Index!StageMerges(m, w)
  PROVE  CatalogInv'
<1>1. CatalogTypes /\ RebuildInv /\ told \subseteq logged /\ \A q \in Meeting : MeetingParts(q)
  BY DEF CatalogInv
<1>2. writer[m].pc = "stage" /\ writer[m] \in Working
  BY <1>1
    DEF Index!StageMerges, Index!At, CatalogTypes, WriterType, Index!Free, Listing, Deleting,
        Ending
<1>3. words' = [words EXCEPT ![m] = w]
  BY DEF Index!StageMerges
<1>4. w \in IndexedWords
  BY DEF IndexedWords
<1>5. Index!Notice(m)
  BY DEF Index!StageMerges
<1>6. Noted(m)
  BY <1>1, <1>5, CatalogNoticeTakes
<1>7. /\ doubted' \in [rows : SUBSET Meeting, words : SUBSET Meeting]
      /\ doubted'.rows = doubted.rows /\ doubted'.words = doubted.words \cup {m}
  BY <1>1 DEF Index!StageMerges, Index!Doubt, CatalogTypes
<1>8. UNCHANGED <<bundle, rows, entries, found, jobRow, logged, writer, told, events>>
  BY DEF Index!StageMerges, Index!derived
<1>9. CatalogTypes'
  BY <1>1, <1>3, <1>4, <1>6, <1>7, <1>8 DEF Noted, CatalogTypes
<1>10. RebuildInv'
  BY <1>1, <1>3, <1>6, <1>8 DEF Noted, RebuildInv, Index!Present
<1>11. told' \subseteq logged'
  BY <1>1 DEF Index!StageMerges
<1>12. HeldAsBefore
  BY <1>6 DEF Noted, HeldAsBefore
<1>13. ASSUME NEW q \in Meeting, q # m
       PROVE  MeetingParts(q)'
  <2>1. AtRest(q)
    BY <1>13, <1>3, <1>7, <1>8 DEF AtRest
  <2> QED
    BY <1>1, <1>12, <2>1, CatalogOthersRest
<1>14. WriterInv(m)'
  BY <1>1, <1>2, <1>8 DEF MeetingParts, WriterInv, Index!At, Index!Present
<1>15. RowInv(m)'
  BY <1>1, <1>7, <1>8, <1>12 DEF MeetingParts, RowInv, Index!Unsynced, Index!Present, HeldAsBefore
<1>16. WordInv(m)'
  BY <1>7 DEF WordInv
<1>17. LogInv(m)'
  BY <1>2, <1>8 DEF LogInv, Index!At
<1> QED
  BY <1>9, <1>10, <1>11, <1>13, <1>14, <1>15, <1>16, <1>17 DEF CatalogInv, MeetingParts

(* A stage ends and its status is saved. *)
LEMMA CatalogStageEndsKeeps ==
  ASSUME CatalogInv, Index!CatalogAssumption, NEW m \in Meeting, NEW state \in ManifestStatus,
         NEW next \in {"index", "ended"}, Index!At(m, "stage"),
         Index!Save(m, [bundle[m] EXCEPT !.status = state]),
         writer' = [writer EXCEPT ![m] = [pc |-> "sync", next |-> next]],
         UNCHANGED <<words, Index!derived, jobRow, logged, doubted, told, events>>
  PROVE  CatalogInv'
<1>1. CatalogTypes /\ RebuildInv /\ told \subseteq logged /\ \A q \in Meeting : MeetingParts(q)
  BY DEF CatalogInv
<1>2. Index!Present(m) /\ bundle[m] \in Manifest /\ writer[m].pc = "stage"
  BY <1>1 DEF MeetingParts, WriterInv, Index!Present, CatalogTypes, Index!At
<1>3. bundle' = [bundle EXCEPT ![m] = [bundle[m] EXCEPT !.status = state]]
  BY DEF Index!Save
<1>4. [bundle[m] EXCEPT !.status = state] \in Manifest
  BY <1>2 DEF Manifest
<1>5. [pc |-> "sync", next |-> next] \in WriterType
  BY DEF WriterType, Ending
<1>6. Index!Notice(m)
  BY DEF Index!Save
<1>7. Noted(m)
  BY <1>1, <1>6, CatalogNoticeTakes
<1>8. Index!Present(m)' <=> TRUE
  BY <1>2, <1>3 DEF Index!Present, ManifestStatus, Index!Absent, Index!Trashed
<1>9. writer'[m].pc = "sync" /\ writer'[m].next = next
  BY <1>1 DEF CatalogTypes
<1>10. UNCHANGED <<words, rows, entries, found, jobRow, logged, doubted, told, events>>
  BY DEF Index!derived
<1>11. CatalogTypes'
  BY <1>1, <1>3, <1>4, <1>5, <1>7, <1>10 DEF Noted, CatalogTypes
<1>12. RebuildInv'
  BY <1>1, <1>3, <1>7 DEF Noted, RebuildInv, Index!Present
<1>13. HeldAsBefore
  BY <1>7 DEF Noted, HeldAsBefore
<1>14. ASSUME NEW q \in Meeting, q # m
       PROVE  MeetingParts(q)'
  <2>1. AtRest(q)
    BY <1>14, <1>3, <1>10 DEF AtRest
  <2> QED
    BY <1>1, <1>13, <2>1, CatalogOthersRest
<1>15. WriterInv(m)'
  BY <1>8 DEF WriterInv, Index!At
<1>16. RowInv(m)'
  BY <1>9 DEF RowInv, Index!Unsynced
<1>17. WordInv(m)'
  BY <1>1, <1>8, <1>10, <1>13 DEF MeetingParts, WordInv, Index!At, HeldAsBefore
<1>18. LogInv(m)'
  BY DEF LogInv, Index!At
<1> QED
  BY <1>11, <1>12, <1>14, <1>15, <1>16, <1>17, <1>18 DEF CatalogInv, MeetingParts

(* The words of a transcript are indexed. *)
LEMMA CatalogIndexSegmentsKeeps ==
  ASSUME CatalogInv, Index!CatalogAssumption, NEW m \in Meeting, Index!IndexSegments(m)
  PROVE  CatalogInv'
<1>1. CatalogTypes /\ RebuildInv /\ told \subseteq logged /\ \A q \in Meeting : MeetingParts(q)
  BY DEF CatalogInv
<1>2. writer[m].pc = "index" /\ writer[m] \in Ending
  BY <1>1
    DEF Index!IndexSegments, Index!At, CatalogTypes, WriterType, Index!Free, Listing, Deleting,
        Working
<1>3. writer' = [writer EXCEPT ![m] = [writer[m] EXCEPT !.pc = "ended"]]
  BY DEF Index!IndexSegments, Index!Goto
<1>4. [writer[m] EXCEPT !.pc = "ended"] \in WriterType
  BY <1>2 DEF WriterType, Ending
<1>5. writer'[m].pc = "ended"
  BY <1>1, <1>3 DEF CatalogTypes
<1>6. found' = [found EXCEPT ![m] = words[m]]
  BY DEF Index!IndexSegments
<1>7. /\ doubted' \in [rows : SUBSET Meeting, words : SUBSET Meeting]
      /\ doubted'.rows = doubted.rows /\ doubted'.words = doubted.words \ {m}
  BY <1>1 DEF Index!IndexSegments, Index!Trust, CatalogTypes
<1>8. UNCHANGED <<bundle, words, rows, entries, jobRow, logged, rebuild, told, events>>
  BY DEF Index!IndexSegments, Index!files
<1>9. CatalogTypes'
  BY <1>1, <1>3, <1>4, <1>6, <1>7, <1>8 DEF CatalogTypes
<1>10. RebuildInv'
  BY <1>1, <1>8 DEF RebuildInv, Index!Present
<1>11. told' \subseteq logged'
  BY <1>1 DEF Index!IndexSegments
<1>12. HeldAsBefore
  BY <1>8 DEF HeldAsBefore, Index!Todo, Index!Held
<1>13. ASSUME NEW q \in Meeting, q # m
       PROVE  MeetingParts(q)'
  <2>1. AtRest(q)
    BY <1>13, <1>3, <1>6, <1>7, <1>8 DEF AtRest
  <2> QED
    BY <1>1, <1>12, <2>1, CatalogOthersRest
<1>14. WriterInv(m)'
  BY <1>1, <1>2, <1>3, <1>8 DEF MeetingParts, WriterInv, Index!At, Index!Present
<1>15. RowInv(m)'
  BY <1>1, <1>2, <1>7, <1>8, <1>12
    DEF MeetingParts, RowInv, Index!Unsynced, Index!Present, HeldAsBefore
<1>16. WordInv(m)'
  BY <1>1, <1>6, <1>8 DEF WordInv, CatalogTypes
<1>17. LogInv(m)'
  BY <1>5 DEF LogInv, Index!At
<1> QED
  BY <1>9, <1>10, <1>11, <1>13, <1>14, <1>15, <1>16, <1>17 DEF CatalogInv, MeetingParts

(* A job ends and gives the meeting back. *)
LEMMA CatalogEndJobKeeps ==
  ASSUME CatalogInv, Index!CatalogAssumption, NEW m \in Meeting, Index!EndJob(m)
  PROVE  CatalogInv'
<1>1. CatalogTypes /\ RebuildInv /\ told \subseteq logged /\ \A q \in Meeting : MeetingParts(q)
  BY DEF CatalogInv
<1>2. writer[m].pc = "ended" /\ writer[m] \in Ending
  BY <1>1
    DEF Index!EndJob, Index!At, CatalogTypes, WriterType, Index!Free, Listing, Deleting, Working
<1>3. writer' = [writer EXCEPT ![m] = Index!Free]
  BY DEF Index!EndJob
<1>4. Index!Free \in WriterType /\ Index!Free.pc = "free"
  BY DEF WriterType, Index!Free
<1>5. writer'[m].pc = "free"
  BY <1>1, <1>3, <1>4 DEF CatalogTypes
<1>6. jobRow' = [jobRow EXCEPT ![m] = "done"]
  BY DEF Index!EndJob
<1>7. UNCHANGED <<bundle, words, rows, entries, found, logged, rebuild, doubted, told, events>>
  BY DEF Index!EndJob, Index!files, Index!derived
<1>8. CatalogTypes'
  BY <1>1, <1>3, <1>4, <1>6, <1>7 DEF CatalogTypes
<1>9. RebuildInv'
  BY <1>1, <1>7 DEF RebuildInv, Index!Present
<1>10. told' \subseteq logged'
  BY <1>1 DEF Index!EndJob
<1>11. HeldAsBefore
  BY <1>7 DEF HeldAsBefore, Index!Todo, Index!Held
<1>12. ASSUME NEW q \in Meeting, q # m
       PROVE  MeetingParts(q)'
  <2>1. AtRest(q)
    BY <1>12, <1>3, <1>6, <1>7 DEF AtRest
  <2> QED
    BY <1>1, <1>11, <2>1, CatalogOthersRest
<1>13. WriterInv(m)'
  BY <1>1, <1>2, <1>5, <1>7 DEF MeetingParts, WriterInv, Index!At, Index!Present
<1>14. RowInv(m)'
  BY <1>1, <1>2, <1>7, <1>11 DEF MeetingParts, RowInv, Index!Unsynced, Index!Present, HeldAsBefore
<1>15. WordInv(m)'
  BY <1>1, <1>2, <1>7, <1>11 DEF MeetingParts, WordInv, Index!At, Index!Present, HeldAsBefore
<1>16. LogInv(m)'
  BY <1>5 DEF LogInv, Index!At
<1> QED
  BY <1>8, <1>9, <1>10, <1>12, <1>13, <1>14, <1>15, <1>16 DEF CatalogInv, MeetingParts

(* A rebuild empties the index and has every bundle to do. *)
LEMMA CatalogStartRebuildKeeps ==
  ASSUME CatalogInv, Index!CatalogAssumption, Index!StartRebuild
  PROVE  CatalogInv'
<1>1. CatalogTypes /\ RebuildInv /\ told \subseteq logged /\ \A q \in Meeting : MeetingParts(q)
  BY DEF CatalogInv
<1>2. events' = events + 1 /\ events \in 0 .. MaxEvents /\ events' \in 0 .. MaxEvents
  BY <1>1 DEF Index!StartRebuild, Index!Event, CatalogTypes, Index!CatalogAssumption
<1>3. rebuild' = [pc |-> "open", todo |-> {m \in Meeting : Index!Present(m)}, n |-> events]
  BY DEF Index!StartRebuild
<1>4. rebuild' \in RebuildType /\ rebuild'.pc = "open"
  BY <1>2, <1>3 DEF RebuildType, Opening, EventNumber
<1>5. /\ Index!Todo' = {m \in Meeting : Index!Present(m)} /\ Index!Held({"upsert"})' = {}
      /\ Index!Held({"upsert", "load", "insert"})' = {}
  BY <1>3 DEF Index!Todo, Index!Held
<1>6. /\ rows' = [m \in Meeting |-> Index!Absent] /\ entries' = [m \in Meeting |-> {}]
      /\ found' = [m \in Meeting |-> Index!NoWord] /\ Index!NoWord \in IndexedWords
  BY DEF Index!StartRebuild, Index!NoRows, IndexedWords
<1>7. UNCHANGED <<bundle, words, jobRow, logged, writer, doubted, told>>
  BY DEF Index!StartRebuild, Index!files
<1>8. CatalogTypes'
  BY <1>1, <1>2, <1>4, <1>6, <1>7 DEF CatalogTypes
<1>9. RebuildInv'
  BY <1>4 DEF RebuildInv
<1>10. told' \subseteq logged'
  BY <1>1 DEF Index!StartRebuild
<1>11. ASSUME NEW q \in Meeting
       PROVE  MeetingParts(q)'
  <2>1. MeetingParts(q)
    BY <1>1
  <2>2. WriterInv(q)'
    BY <2>1, <1>7 DEF MeetingParts, WriterInv, Index!At, Index!Present, Index!ActiveJob
  <2>3. RowInv(q)'
    BY <1>5, <1>6, <1>7 DEF RowInv, Index!Present
  <2>4. WordInv(q)'
    BY <2>1, <1>5, <1>6, <1>7 DEF MeetingParts, WordInv, Index!Present, WriterInv
  <2>5. LogInv(q)'
    BY <2>1, <1>7 DEF MeetingParts, LogInv, Index!At
  <2> QED
    BY <2>2, <2>3, <2>4, <2>5 DEF MeetingParts
<1> QED
  BY <1>8, <1>9, <1>10, <1>11 DEF CatalogInv

(* A rebuild opens a bundle that is there and holds its manifest. *)
LEMMA CatalogOpenPresentKeeps ==
  ASSUME CatalogInv, Index!CatalogAssumption, NEW m \in Meeting, Index!OpenBundle(m),
         Index!Present(m)
  PROVE  CatalogInv'
<1>1. CatalogTypes /\ RebuildInv /\ told \subseteq logged /\ \A q \in Meeting : MeetingParts(q)
  BY DEF CatalogInv
<1>2. rebuild.pc = "open" /\ rebuild \in Opening /\ m \in rebuild.todo
  BY <1>1
    DEF Index!OpenBundle, CatalogTypes, RebuildType, Index!Resting, Upserting, Loading,
        Inserting
<1>3. /\ Index!Todo = rebuild.todo /\ Index!Held({"upsert"}) = {}
      /\ Index!Held({"upsert", "load", "insert"}) = {}
  BY <1>2 DEF Index!Todo, Index!Held
<1>4. rebuild' = [pc |-> "upsert", todo |-> rebuild.todo \ {m}, n |-> rebuild.n,
                  of |-> m, manifest |-> bundle[m], raced |-> FALSE]
  BY DEF Index!OpenBundle
<1>5. bundle[m] \in Manifest
  BY <1>1 DEF Index!Present, CatalogTypes
<1>6. rebuild' \in Upserting /\ rebuild'.pc = "upsert"
  BY <1>2, <1>4, <1>5 DEF Opening, Upserting
<1>7. rebuild' \in RebuildType
  BY <1>6 DEF RebuildType
<1>8. /\ Index!Todo' = Index!Todo \ {m} /\ Index!Held({"upsert"})' = {m}
      /\ Index!Held({"upsert", "load", "insert"})' = {m}
  BY <1>3, <1>4 DEF Index!Todo, Index!Held
<1>9. UNCHANGED <<bundle, words, rows, entries, found, jobRow, logged, writer, doubted, told,
                  events>>
  BY DEF Index!OpenBundle, Index!files, Index!derived
<1>10. CatalogTypes'
  BY <1>1, <1>7, <1>9 DEF CatalogTypes
<1>11. RebuildInv'
  BY <1>4, <1>9 DEF RebuildInv, Index!Present
<1>12. told' \subseteq logged'
  BY <1>1 DEF Index!OpenBundle
<1>13. ASSUME NEW q \in Meeting
       PROVE  MeetingParts(q)'
  <2>1. MeetingParts(q)
    BY <1>1
  <2>2. WriterInv(q)'
    BY <2>1, <1>9 DEF MeetingParts, WriterInv, Index!At, Index!Present, Index!ActiveJob
  <2>3. RowInv(q)'
    BY <2>1, <1>3, <1>8, <1>9 DEF MeetingParts, RowInv, Index!Unsynced, Index!Present
  <2>4. WordInv(q)'
    BY <2>1, <1>3, <1>8, <1>9 DEF MeetingParts, WordInv, Index!At, Index!Present
  <2>5. LogInv(q)'
    BY <2>1, <1>9 DEF MeetingParts, LogInv, Index!At
  <2> QED
    BY <2>2, <2>3, <2>4, <2>5 DEF MeetingParts
<1> QED
  BY <1>10, <1>11, <1>12, <1>13 DEF CatalogInv

(* A rebuild finds a directory without a bundle. *)
LEMMA CatalogOpenMissingKeeps ==
  ASSUME CatalogInv, Index!CatalogAssumption, NEW m \in Meeting, Index!OpenBundle(m),
         ~Index!Present(m)
  PROVE  CatalogInv'
<1>1. CatalogTypes /\ RebuildInv /\ told \subseteq logged /\ \A q \in Meeting : MeetingParts(q)
  BY DEF CatalogInv
<1>2. rebuild.pc = "open" /\ rebuild \in Opening /\ m \in rebuild.todo
  BY <1>1
    DEF Index!OpenBundle, CatalogTypes, RebuildType, Index!Resting, Upserting, Loading,
        Inserting
<1>3. /\ Index!Todo = rebuild.todo /\ Index!Held({"upsert"}) = {}
      /\ Index!Held({"upsert", "load", "insert"}) = {}
  BY <1>2 DEF Index!Todo, Index!Held
<1>4. rebuild' = [rebuild EXCEPT !.todo = @ \ {m}]
  BY DEF Index!OpenBundle
<1>5. rebuild' \in Opening /\ rebuild'.pc = "open" /\ rebuild'.todo = rebuild.todo \ {m}
  BY <1>2, <1>4 DEF Opening
<1>6. rebuild' \in RebuildType
  BY <1>5 DEF RebuildType
<1>7. /\ Index!Todo' = Index!Todo \ {m} /\ Index!Held({"upsert"})' = {}
      /\ Index!Held({"upsert", "load", "insert"})' = {}
  BY <1>3, <1>4 DEF Index!Todo, Index!Held
<1>8. UNCHANGED <<bundle, words, rows, entries, found, jobRow, logged, writer, doubted, told,
                  events>>
  BY DEF Index!OpenBundle, Index!files, Index!derived
<1>9. CatalogTypes'
  BY <1>1, <1>6, <1>8 DEF CatalogTypes
<1>10. RebuildInv'
  BY <1>5 DEF RebuildInv
<1>11. told' \subseteq logged'
  BY <1>1 DEF Index!OpenBundle
<1>12. ASSUME NEW q \in Meeting
       PROVE  MeetingParts(q)'
  <2>1. MeetingParts(q)
    BY <1>1
  <2>2. WriterInv(q)'
    BY <2>1, <1>8 DEF MeetingParts, WriterInv, Index!At, Index!Present, Index!ActiveJob
  <2>3. RowInv(q)'
    BY <2>1, <1>3, <1>7, <1>8 DEF MeetingParts, RowInv, Index!Unsynced, Index!Present
  <2>4. WordInv(q)'
    BY <2>1, <1>3, <1>7, <1>8 DEF MeetingParts, WordInv, Index!At, Index!Present
  <2>5. LogInv(q)'
    BY <2>1, <1>8 DEF MeetingParts, LogInv, Index!At
  <2> QED
    BY <2>2, <2>3, <2>4, <2>5 DEF MeetingParts
<1> QED
  BY <1>9, <1>10, <1>11, <1>12 DEF CatalogInv

(* A rebuild lists the manifest it holds: as it is, or overtaken. *)
LEMMA CatalogUpsertOpenedKeeps ==
  ASSUME CatalogInv, Index!CatalogAssumption, Index!UpsertOpened
  PROVE  CatalogInv'
<1>1. CatalogTypes /\ RebuildInv /\ told \subseteq logged /\ \A q \in Meeting : MeetingParts(q)
  BY DEF CatalogInv
<1>2. rebuild.pc = "upsert" /\ rebuild \in Upserting
  BY <1>1
    DEF Index!UpsertOpened, CatalogTypes, RebuildType, Index!Resting, Opening, Loading,
        Inserting
<1>3. /\ rebuild.of \in Meeting /\ rebuild.manifest \in Manifest
      /\ rebuild.manifest.listed \in SUBSET (0 .. MaxEvents)
  BY <1>2 DEF Upserting, Manifest
<1>4. /\ Index!Todo = rebuild.todo /\ Index!Held({"upsert"}) = {rebuild.of}
      /\ Index!Held({"upsert", "load", "insert"}) = {rebuild.of}
  BY <1>2 DEF Index!Todo, Index!Held
<1>5. ~rebuild.raced => Index!Present(rebuild.of) /\ rebuild.manifest = bundle[rebuild.of]
  BY <1>1, <1>2 DEF RebuildInv
<1>6. rows' = [rows EXCEPT ![rebuild.of] = rebuild.manifest]
  BY DEF Index!UpsertOpened
<1>7. entries' = [entries EXCEPT ![rebuild.of] = rebuild.manifest.listed]
  BY DEF Index!UpsertOpened
<1>8. /\ doubted' \in [rows : SUBSET Meeting, words : SUBSET Meeting]
      /\ doubted'.words = doubted.words
      /\ (rebuild.raced => doubted'.rows = doubted.rows \cup {rebuild.of})
      /\ (~rebuild.raced => doubted'.rows = doubted.rows \ {rebuild.of})
  <2>1. CASE rebuild.raced
    BY <1>1, <1>3, <2>1 DEF Index!UpsertOpened, Index!Doubt, CatalogTypes
  <2>2. CASE ~rebuild.raced
    BY <1>1, <2>2 DEF Index!UpsertOpened, Index!Trust, CatalogTypes
  <2> QED
    BY <2>1, <2>2
<1>9. rebuild' = [pc |-> "load", todo |-> rebuild.todo, n |-> rebuild.n, of |-> rebuild.of]
  BY DEF Index!UpsertOpened
<1>10. rebuild' \in Loading /\ rebuild'.pc = "load"
  BY <1>2, <1>9 DEF Upserting, Loading
<1>11. rebuild' \in RebuildType
  BY <1>10 DEF RebuildType
<1>12. /\ Index!Todo' = Index!Todo /\ Index!Held({"upsert"})' = {}
       /\ Index!Held({"upsert", "load", "insert"})' = {rebuild.of}
  BY <1>4, <1>9 DEF Index!Todo, Index!Held
<1>13. UNCHANGED <<bundle, words, found, jobRow, logged, writer, told, events>>
  BY DEF Index!UpsertOpened, Index!files
<1>14. CatalogTypes'
  BY <1>1, <1>3, <1>6, <1>7, <1>8, <1>11, <1>13 DEF CatalogTypes
<1>15. RebuildInv'
  BY <1>10 DEF RebuildInv
<1>16. told' \subseteq logged'
  BY <1>1 DEF Index!UpsertOpened
<1>17. ASSUME NEW q \in Meeting
       PROVE  MeetingParts(q)'
  <2>1. MeetingParts(q)
    BY <1>1
  <2>2. WriterInv(q)'
    BY <2>1, <1>13 DEF MeetingParts, WriterInv, Index!At, Index!Present, Index!ActiveJob
  <2>3. RowInv(q)'
    BY <1>1, <1>4, <1>5, <1>6, <1>7, <1>8, <1>12, <1>13
      DEF MeetingParts, RowInv, Index!Unsynced, Index!Present, CatalogTypes
  <2>4. WordInv(q)'
    BY <2>1, <1>4, <1>8, <1>12, <1>13 DEF MeetingParts, WordInv, Index!At, Index!Present
  <2>5. LogInv(q)'
    BY <2>1, <1>13 DEF MeetingParts, LogInv, Index!At
  <2> QED
    BY <2>2, <2>3, <2>4, <2>5 DEF MeetingParts
<1> QED
  BY <1>14, <1>15, <1>16, <1>17 DEF CatalogInv

(* A rebuild loads a transcript and holds its words. *)
LEMMA CatalogLoadMergedKeeps ==
  ASSUME CatalogInv, Index!CatalogAssumption, Index!LoadMerged
  PROVE  CatalogInv'
<1>1. CatalogTypes /\ RebuildInv /\ told \subseteq logged /\ \A q \in Meeting : MeetingParts(q)
  BY DEF CatalogInv
<1>2. rebuild.pc = "load" /\ rebuild \in Loading
  BY <1>1
    DEF Index!LoadMerged, CatalogTypes, RebuildType, Index!Resting, Opening, Upserting,
        Inserting
<1>3. /\ Index!Todo = rebuild.todo /\ Index!Held({"upsert"}) = {}
      /\ Index!Held({"upsert", "load", "insert"}) = {rebuild.of}
  BY <1>2 DEF Index!Todo, Index!Held
<1>4. rebuild' = [pc |-> "insert", todo |-> rebuild.todo, n |-> rebuild.n,
                  of |-> rebuild.of, words |-> words[rebuild.of], raced |-> FALSE]
  BY DEF Index!LoadMerged
<1>5. rebuild' \in Inserting /\ rebuild'.pc = "insert"
  BY <1>1, <1>2, <1>4 DEF CatalogTypes, Loading, Inserting
<1>6. rebuild' \in RebuildType
  BY <1>5 DEF RebuildType
<1>7. /\ Index!Todo' = Index!Todo /\ Index!Held({"upsert"})' = {}
      /\ Index!Held({"upsert", "load", "insert"})' = {rebuild.of}
  BY <1>3, <1>4 DEF Index!Todo, Index!Held
<1>8. UNCHANGED <<bundle, words, rows, entries, found, jobRow, logged, writer, doubted, told,
                  events>>
  BY DEF Index!LoadMerged, Index!files, Index!derived
<1>9. CatalogTypes'
  BY <1>1, <1>6, <1>8 DEF CatalogTypes
<1>10. RebuildInv'
  BY <1>4, <1>8 DEF RebuildInv
<1>11. told' \subseteq logged'
  BY <1>1 DEF Index!LoadMerged
<1>12. ASSUME NEW q \in Meeting
       PROVE  MeetingParts(q)'
  <2>1. MeetingParts(q)
    BY <1>1
  <2>2. WriterInv(q)'
    BY <2>1, <1>8 DEF MeetingParts, WriterInv, Index!At, Index!Present, Index!ActiveJob
  <2>3. RowInv(q)'
    BY <2>1, <1>3, <1>7, <1>8 DEF MeetingParts, RowInv, Index!Unsynced, Index!Present
  <2>4. WordInv(q)'
    BY <2>1, <1>3, <1>7, <1>8 DEF MeetingParts, WordInv, Index!At, Index!Present
  <2>5. LogInv(q)'
    BY <2>1, <1>8 DEF MeetingParts, LogInv, Index!At
  <2> QED
    BY <2>2, <2>3, <2>4, <2>5 DEF MeetingParts
<1> QED
  BY <1>9, <1>10, <1>11, <1>12 DEF CatalogInv

(* A rebuild indexes the words it holds: as they are, or overtaken. *)
LEMMA CatalogInsertSegmentsKeeps ==
  ASSUME CatalogInv, Index!CatalogAssumption, Index!InsertSegments
  PROVE  CatalogInv'
<1>1. CatalogTypes /\ RebuildInv /\ told \subseteq logged /\ \A q \in Meeting : MeetingParts(q)
  BY DEF CatalogInv
<1>2. rebuild.pc = "insert" /\ rebuild \in Inserting
  BY <1>1
    DEF Index!InsertSegments, CatalogTypes, RebuildType, Index!Resting, Opening, Upserting,
        Loading
<1>3. rebuild.of \in Meeting /\ rebuild.words \in IndexedWords
  BY <1>2 DEF Inserting
<1>4. /\ Index!Todo = rebuild.todo /\ Index!Held({"upsert"}) = {}
      /\ Index!Held({"upsert", "load", "insert"}) = {rebuild.of}
  BY <1>2 DEF Index!Todo, Index!Held
<1>5. ~rebuild.raced => rebuild.words = words[rebuild.of]
  BY <1>1, <1>2 DEF RebuildInv
<1>6. found' = [found EXCEPT ![rebuild.of] = rebuild.words]
  BY DEF Index!InsertSegments
<1>7. /\ doubted' \in [rows : SUBSET Meeting, words : SUBSET Meeting]
      /\ doubted'.rows = doubted.rows
      /\ (rebuild.raced => doubted'.words = doubted.words \cup {rebuild.of})
      /\ (~rebuild.raced => doubted'.words = doubted.words \ {rebuild.of})
  <2>1. CASE rebuild.raced
    BY <1>1, <1>3, <2>1 DEF Index!InsertSegments, Index!Doubt, CatalogTypes
  <2>2. CASE ~rebuild.raced
    BY <1>1, <2>2 DEF Index!InsertSegments, Index!Trust, CatalogTypes
  <2> QED
    BY <2>1, <2>2
<1>8. rebuild' = [pc |-> "open", todo |-> rebuild.todo, n |-> rebuild.n]
  BY DEF Index!InsertSegments
<1>9. rebuild' \in Opening /\ rebuild'.pc = "open"
  BY <1>2, <1>8 DEF Inserting, Opening
<1>10. rebuild' \in RebuildType
  BY <1>9 DEF RebuildType
<1>11. /\ Index!Todo' = Index!Todo /\ Index!Held({"upsert"})' = {}
       /\ Index!Held({"upsert", "load", "insert"})' = {}
  BY <1>4, <1>8 DEF Index!Todo, Index!Held
<1>12. UNCHANGED <<bundle, words, rows, entries, jobRow, logged, writer, told, events>>
  BY DEF Index!InsertSegments, Index!files
<1>13. CatalogTypes'
  BY <1>1, <1>3, <1>6, <1>7, <1>10, <1>12 DEF CatalogTypes
<1>14. RebuildInv'
  BY <1>9 DEF RebuildInv
<1>15. told' \subseteq logged'
  BY <1>1 DEF Index!InsertSegments
<1>16. ASSUME NEW q \in Meeting
       PROVE  MeetingParts(q)'
  <2>1. MeetingParts(q)
    BY <1>1
  <2>2. WriterInv(q)'
    BY <2>1, <1>12 DEF MeetingParts, WriterInv, Index!At, Index!Present, Index!ActiveJob
  <2>3. RowInv(q)'
    BY <2>1, <1>4, <1>7, <1>11, <1>12 DEF MeetingParts, RowInv, Index!Unsynced, Index!Present
  <2>4. WordInv(q)'
    BY <1>1, <1>4, <1>5, <1>6, <1>7, <1>11, <1>12
      DEF MeetingParts, WordInv, Index!At, Index!Present, CatalogTypes
  <2>5. LogInv(q)'
    BY <2>1, <1>12 DEF MeetingParts, LogInv, Index!At
  <2> QED
    BY <2>2, <2>3, <2>4, <2>5 DEF MeetingParts
<1> QED
  BY <1>13, <1>14, <1>15, <1>16 DEF CatalogInv

(* A rebuild skips a bundle it cannot read. *)
LEMMA CatalogSkipBrokenKeeps ==
  ASSUME CatalogInv, Index!CatalogAssumption, Index!SkipBroken
  PROVE  CatalogInv'
<1>1. CatalogTypes /\ RebuildInv /\ told \subseteq logged /\ \A q \in Meeting : MeetingParts(q)
  BY DEF CatalogInv
<1>2. rebuild.pc \in {"upsert", "load"} /\ rebuild \in Upserting \cup Loading
  BY <1>1 DEF Index!SkipBroken, CatalogTypes, RebuildType, Index!Resting, Opening, Inserting
<1>3. rebuild.of \in Meeting
  BY <1>2 DEF Upserting, Loading
<1>4. /\ Index!Todo = rebuild.todo
      /\ Index!Held({"upsert"}) = (IF rebuild.pc = "upsert" THEN {rebuild.of} ELSE {})
      /\ Index!Held({"upsert", "load", "insert"}) = {rebuild.of}
  BY <1>2 DEF Index!Todo, Index!Held
<1>5. /\ doubted' \in [rows : SUBSET Meeting, words : SUBSET Meeting]
      /\ doubted'.rows = doubted.rows \cup Index!Held({"upsert"})
      /\ doubted'.words = doubted.words \cup {rebuild.of}
  BY <1>1, <1>3, <1>4 DEF Index!SkipBroken, Index!Doubt, CatalogTypes
<1>6. rebuild' = [pc |-> "open", todo |-> rebuild.todo, n |-> rebuild.n]
  BY DEF Index!SkipBroken
<1>7. rebuild' \in Opening /\ rebuild'.pc = "open"
  BY <1>2, <1>6 DEF Upserting, Loading, Opening
<1>8. rebuild' \in RebuildType
  BY <1>7 DEF RebuildType
<1>9. /\ Index!Todo' = Index!Todo /\ Index!Held({"upsert"})' = {}
      /\ Index!Held({"upsert", "load", "insert"})' = {}
  BY <1>4, <1>6 DEF Index!Todo, Index!Held
<1>10. UNCHANGED <<bundle, words, rows, entries, found, jobRow, logged, writer, told, events>>
  BY DEF Index!SkipBroken, Index!files, Index!derived
<1>11. CatalogTypes'
  BY <1>1, <1>5, <1>8, <1>10 DEF CatalogTypes
<1>12. RebuildInv'
  BY <1>7 DEF RebuildInv
<1>13. told' \subseteq logged'
  BY <1>1 DEF Index!SkipBroken
<1>14. ASSUME NEW q \in Meeting
       PROVE  MeetingParts(q)'
  <2>1. MeetingParts(q)
    BY <1>1
  <2>2. WriterInv(q)'
    BY <2>1, <1>10 DEF MeetingParts, WriterInv, Index!At, Index!Present, Index!ActiveJob
  <2>3. RowInv(q)'
    BY <2>1, <1>5, <1>9, <1>10 DEF MeetingParts, RowInv, Index!Unsynced, Index!Present
  <2>4. WordInv(q)'
    BY <2>1, <1>4, <1>5, <1>9, <1>10 DEF MeetingParts, WordInv, Index!At, Index!Present
  <2>5. LogInv(q)'
    BY <2>1, <1>10 DEF MeetingParts, LogInv, Index!At
  <2> QED
    BY <2>2, <2>3, <2>4, <2>5 DEF MeetingParts
<1> QED
  BY <1>11, <1>12, <1>13, <1>14 DEF CatalogInv

(* A rebuild has nothing left to do. *)
LEMMA CatalogEndRebuildKeeps ==
  ASSUME CatalogInv, Index!CatalogAssumption, Index!EndRebuild
  PROVE  CatalogInv'
<1>1. CatalogTypes /\ RebuildInv /\ told \subseteq logged /\ \A q \in Meeting : MeetingParts(q)
  BY DEF CatalogInv
<1>2. rebuild.pc = "open" /\ rebuild.todo = {}
  BY DEF Index!EndRebuild
<1>3. /\ Index!Todo = {} /\ Index!Held({"upsert"}) = {}
      /\ Index!Held({"upsert", "load", "insert"}) = {}
  BY <1>2 DEF Index!Todo, Index!Held
<1>4. rebuild' = Index!Resting /\ Index!Resting.pc = "rest"
  BY DEF Index!EndRebuild, Index!Resting
<1>5. rebuild' \in RebuildType
  BY <1>4 DEF RebuildType
<1>6. logged \subseteq logged'
  BY DEF Index!EndRebuild
<1>7. UNCHANGED <<bundle, words, rows, entries, found, jobRow, writer, doubted, events>>
  BY DEF Index!EndRebuild, Index!files, Index!derived
<1>8. CatalogTypes'
  BY <1>1, <1>5, <1>7 DEF CatalogTypes
<1>9. RebuildInv'
  BY <1>4 DEF RebuildInv
<1>10. told' \subseteq logged'
  BY <1>1 DEF Index!EndRebuild
<1>11. ASSUME NEW q \in Meeting
       PROVE  MeetingParts(q)'
  <2>1. MeetingParts(q)
    BY <1>1
  <2>2. WriterInv(q)'
    BY <2>1, <1>7 DEF MeetingParts, WriterInv, Index!At, Index!Present, Index!ActiveJob
  <2>3. RowInv(q)'
    BY <2>1, <1>3, <1>7 DEF MeetingParts, RowInv, Index!Unsynced, Index!Present
  <2>4. WordInv(q)'
    BY <2>1, <1>3, <1>7 DEF MeetingParts, WordInv, Index!At
  <2>5. LogInv(q)'
    BY <2>1, <1>6, <1>7 DEF MeetingParts, LogInv, Index!At
  <2> QED
    BY <2>2, <2>3, <2>4, <2>5 DEF MeetingParts
<1> QED
  BY <1>8, <1>9, <1>10, <1>11 DEF CatalogInv

(* A search changes nothing but what it logs. *)
LEMMA CatalogReadAcrossScopesKeeps ==
  ASSUME CatalogInv, Index!CatalogAssumption, NEW requested \in SUBSET Scope,
         Index!ReadAcrossScopes(requested)
  PROVE  CatalogInv'
<1>1. CatalogTypes /\ RebuildInv /\ told \subseteq logged /\ \A q \in Meeting : MeetingParts(q)
  BY DEF CatalogInv
<1>2. events' = events + 1 /\ events \in 0 .. MaxEvents /\ events' \in 0 .. MaxEvents
  BY <1>1 DEF Index!ReadAcrossScopes, Index!Event, CatalogTypes, Index!CatalogAssumption
<1>3. logged \subseteq logged'
  BY DEF Index!ReadAcrossScopes
<1>4. UNCHANGED <<bundle, words, rows, entries, found, jobRow, writer, rebuild, doubted>>
  BY DEF Index!ReadAcrossScopes, Index!files, Index!derived
<1>5. /\ Index!Todo' = Index!Todo /\ Index!Held({"upsert"})' = Index!Held({"upsert"})
      /\ Index!Held({"upsert", "load", "insert"})' = Index!Held({"upsert", "load", "insert"})
  BY <1>4 DEF Index!Todo, Index!Held
<1>6. CatalogTypes'
  BY <1>1, <1>2, <1>4 DEF CatalogTypes
<1>7. RebuildInv'
  BY <1>1, <1>4 DEF RebuildInv, Index!Present
<1>8. told' \subseteq logged'
  BY <1>1 DEF Index!ReadAcrossScopes
<1>9. ASSUME NEW q \in Meeting
      PROVE  MeetingParts(q)'
  <2>1. MeetingParts(q)
    BY <1>1
  <2>2. WriterInv(q)'
    BY <2>1, <1>4 DEF MeetingParts, WriterInv, Index!At, Index!Present, Index!ActiveJob
  <2>3. RowInv(q)'
    BY <2>1, <1>4, <1>5 DEF MeetingParts, RowInv, Index!Unsynced, Index!Present
  <2>4. WordInv(q)'
    BY <2>1, <1>4, <1>5 DEF MeetingParts, WordInv, Index!At, Index!Present
  <2>5. LogInv(q)'
    BY <2>1, <1>3, <1>4 DEF MeetingParts, LogInv, Index!At
  <2> QED
    BY <2>2, <2>3, <2>4, <2>5 DEF MeetingParts
<1> QED
  BY <1>6, <1>7, <1>8, <1>9 DEF CatalogInv

(* The server ends: what was not synced, or not rebuilt, is owed no more but doubted. *)
LEMMA CatalogCrashKeeps ==
  ASSUME CatalogInv, Index!CatalogAssumption, Index!Crash
  PROVE  CatalogInv'
<1>1. CatalogTypes /\ RebuildInv /\ told \subseteq logged /\ \A q \in Meeting : MeetingParts(q)
  BY DEF CatalogInv
<1>2. events' = events + 1 /\ events \in 0 .. MaxEvents /\ events' \in 0 .. MaxEvents
  BY <1>1 DEF Index!Crash, Index!Event, CatalogTypes, Index!CatalogAssumption
<1>3. rebuild' = Index!Resting /\ Index!Resting.pc = "rest"
  BY DEF Index!Crash, Index!Resting
<1>4. rebuild' \in RebuildType
  BY <1>3 DEF RebuildType
<1>5. /\ writer' = [m \in Meeting |-> Index!Free]
      /\ Index!Free.pc = "free" /\ Index!Free \in WriterType
  BY DEF Index!Crash, Index!Free, WriterType
<1>6. jobRow' = [m \in Meeting |-> IF Index!ActiveJob(m) THEN "failed" ELSE jobRow[m]]
  BY DEF Index!Crash, Index!Restarted
<1>7. /\ Index!Todo \subseteq Meeting /\ Index!Held({"upsert"}) \subseteq Meeting
      /\ Index!Held({"upsert", "load", "insert"}) \subseteq Meeting
  BY <1>1
    DEF Index!Todo, Index!Held, CatalogTypes, RebuildType, Index!Resting, Opening, Upserting,
        Loading, Inserting
<1>8. /\ doubted'.rows = doubted.rows \cup ({m \in Meeting : Index!Unsynced(m)} \cup Index!Todo
                                            \cup Index!Held({"upsert"}))
      /\ doubted'.words =
           doubted.words \cup ({m \in Meeting : Index!At(m, "unlist")} \cup Index!Todo
                               \cup Index!Held({"upsert", "load", "insert"}))
  BY DEF Index!Crash, Index!Doubt
<1>9. doubted' \in [rows : SUBSET Meeting, words : SUBSET Meeting]
  BY <1>1, <1>7 DEF Index!Crash, Index!Doubt, CatalogTypes
<1>10. UNCHANGED <<bundle, words, rows, entries, found, logged, told>>
  BY DEF Index!Crash, Index!files, Index!derived
<1>11. CatalogTypes'
  BY <1>1, <1>2, <1>4, <1>5, <1>6, <1>9, <1>10 DEF CatalogTypes
<1>12. RebuildInv'
  BY <1>3 DEF RebuildInv
<1>13. told' \subseteq logged'
  BY <1>1 DEF Index!Crash
<1>14. ASSUME NEW q \in Meeting
       PROVE  MeetingParts(q)'
  <2>1. MeetingParts(q)
    BY <1>1
  <2>2. WriterInv(q)'
    BY <2>1, <1>5, <1>6, <1>10
      DEF MeetingParts, WriterInv, Index!At, Index!Present, Index!ActiveJob
  <2>3. RowInv(q)'
    BY <2>1, <1>8, <1>10 DEF MeetingParts, RowInv, Index!Present
  <2>4. WordInv(q)'
    BY <2>1, <1>8, <1>10 DEF MeetingParts, WordInv
  <2>5. LogInv(q)'
    BY <1>5 DEF LogInv, Index!At
  <2> QED
    BY <2>2, <2>3, <2>4, <2>5 DEF MeetingParts
<1> QED
  BY <1>11, <1>12, <1>13, <1>14 DEF CatalogInv

(* A rebuild opens the next bundle, there or not. *)
LEMMA CatalogOpenBundleKeeps ==
  ASSUME CatalogInv, Index!CatalogAssumption, NEW m \in Meeting, Index!OpenBundle(m)
  PROVE  CatalogInv'
BY CatalogOpenPresentKeeps, CatalogOpenMissingKeeps

(* However a stage ends, the invariant is kept. *)
LEMMA CatalogStageEndsAnyhow ==
  ASSUME CatalogInv, Index!CatalogAssumption, NEW m \in Meeting, Index!StageEnds(m)
  PROVE  CatalogInv'
<1>1. CatalogTypes /\ MeetingParts(m) /\ Index!At(m, "stage")
  BY DEF CatalogInv, Index!StageEnds
<1>2. writer[m].before \in ManifestStatus
  BY <1>1 DEF CatalogTypes, WriterType, Index!At, Index!Free, Listing, Deleting, Working, Ending
<1>3. PICK end \in {<<"ready", "index">>, <<"failed", "ended">>, <<writer[m].before, "ended">>} :
        /\ Index!Save(m, [bundle[m] EXCEPT !.status = end[1]])
        /\ writer' = [writer EXCEPT ![m] = [pc |-> "sync", next |-> end[2]]]
  BY DEF Index!StageEnds
<1>4. end[1] \in ManifestStatus /\ end[2] \in {"index", "ended"}
  BY <1>2 DEF ManifestStatus
<1>5. UNCHANGED <<words, Index!derived, jobRow, logged, doubted, told, events>>
  BY DEF Index!StageEnds
<1> QED
  BY <1>1, <1>3, <1>4, <1>5, CatalogStageEndsKeeps

(* At first there is no meeting, and nothing is listed. *)
LEMMA CatalogInitKeeps ==
  ASSUME Index!Init, Index!CatalogAssumption
  PROVE  CatalogInv
<1>1. CatalogTypes
  <2>1. /\ Index!Absent \in Manifest \cup {Index!Absent} /\ Index!NoWord \in IndexedWords
        /\ Index!Free \in WriterType
        /\ Index!Resting \in RebuildType
    BY DEF IndexedWords, WriterType, RebuildType
  <2> QED
    BY <2>1 DEF Index!Init, CatalogTypes, Index!CatalogAssumption
<1>2. RebuildInv /\ told \subseteq logged
  BY DEF Index!Init, RebuildInv, Index!Resting
<1>3. ASSUME NEW m \in Meeting
      PROVE  MeetingParts(m)
  <2>1. ~Index!Present(m) /\ writer[m].pc = "free" /\ jobRow[m] = "none" /\ rows[m] = Index!Absent
        /\ words[m] = Index!NoWord /\ found[m] = Index!NoWord
    BY DEF Index!Init, Index!Present, Index!Free
  <2> QED
    BY <2>1 DEF MeetingParts, WriterInv, RowInv, WordInv, LogInv, Index!At, Index!ActiveJob
<1> QED
  BY <1>1, <1>2, <1>3 DEF CatalogInv

(* A step that changes no variable of the catalog keeps the invariant. *)
LEMMA CatalogStutterKeeps ==
  ASSUME CatalogInv, UNCHANGED cvars
  PROVE  CatalogInv'
<1>1. CatalogTypes /\ RebuildInv /\ told \subseteq logged /\ \A q \in Meeting : MeetingParts(q)
  BY DEF CatalogInv
<1>2. UNCHANGED <<bundle, words, rows, entries, found, jobRow, logged, writer, rebuild, doubted,
                  told, events>>
  BY DEF cvars
<1>3. CatalogTypes'
  BY <1>1, <1>2 DEF CatalogTypes
<1>4. RebuildInv' /\ told' \subseteq logged'
  BY <1>1, <1>2 DEF RebuildInv, Index!Present
<1>5. HeldAsBefore
  BY <1>2 DEF HeldAsBefore, Index!Todo, Index!Held
<1>6. \A q \in Meeting : AtRest(q)
  BY <1>2 DEF AtRest
<1>7. \A q \in Meeting : MeetingParts(q)'
  BY <1>1, <1>5, <1>6, CatalogOthersRest
<1> QED
  BY <1>3, <1>4, <1>7 DEF CatalogInv

(* Every step of handlers, jobs, rebuilds and searches keeps the invariant. *)
LEMMA CatalogNextKeeps ==
  ASSUME CatalogInv, Index!CatalogAssumption, Index!Next \/ UNCHANGED cvars
  PROVE  CatalogInv'
<1>1. ASSUME NEW m \in Meeting,
             Index!Create(m) \/ Index!AddEntry(m) \/ Index!DeleteMeeting(m) \/ Index!CreateJob(m)
      PROVE  CatalogInv'
  BY <1>1, CatalogCreateKeeps, CatalogAddEntryKeeps, CatalogDeleteMeetingKeeps,
     CatalogCreateJobKeeps
<1>2. ASSUME NEW m \in Meeting, NEW s \in Scope \cup {Index!Unscoped}, Index!SetScope(m, s)
      PROVE  CatalogInv'
  BY <1>2, CatalogSetScopeKeeps
<1>3. ASSUME NEW m \in Meeting, Index!WriterStep(m)
      PROVE  CatalogInv'
  BY <1>3, CatalogSyncCatalogKeeps, CatalogRecordEntryKeeps, CatalogAuditKeeps,
     CatalogReturnKeeps, CatalogUnlistKeeps, CatalogStartJobKeeps, CatalogStageEndsAnyhow,
     CatalogIndexSegmentsKeeps, CatalogEndJobKeeps, CatalogStageMergesKeeps
    DEF Index!WriterStep
<1>4. CASE Index!StartRebuild \/ Index!Crash
  BY <1>4, CatalogStartRebuildKeeps, CatalogCrashKeeps
<1>5. CASE Index!RebuildStep
  BY <1>5, CatalogOpenBundleKeeps, CatalogUpsertOpenedKeeps, CatalogLoadMergedKeeps,
     CatalogInsertSegmentsKeeps, CatalogSkipBrokenKeeps, CatalogEndRebuildKeeps
    DEF Index!RebuildStep
<1>6. ASSUME NEW requested \in SUBSET Scope, Index!ReadAcrossScopes(requested)
      PROVE  CatalogInv'
  BY <1>6, CatalogReadAcrossScopesKeeps
<1>7. CASE UNCHANGED cvars
  BY <1>7, CatalogStutterKeeps
<1> QED
  BY <1>1, <1>2, <1>3, <1>4, <1>5, <1>6, <1>7 DEF Index!Next

(* What the invariant says once nothing is owed. *)
LEMMA CatalogInvIsSafe ==
  ASSUME CatalogInv
  PROVE  Index!CatalogSafe
<1>1. CatalogTypes /\ told \subseteq logged /\ \A m \in Meeting : MeetingParts(m)
  BY DEF CatalogInv
<1>2. Index!RowsMirrorBundles
  <2>1. SUFFICES ASSUME NEW m \in Meeting \ (doubted.rows \cup Index!Todo
                                               \cup Index!Held({"upsert"})),
                        ~Index!Unsynced(m)
                 PROVE  /\ rows[m] = IF Index!Present(m) THEN bundle[m] ELSE Index!Absent
                        /\ Index!Present(m) => entries[m] = bundle[m].listed
    BY DEF Index!RowsMirrorBundles
  <2> QED
    BY <1>1, <2>1 DEF MeetingParts, RowInv
<1>3. Index!SearchFindsTheWords
  <2>1. SUFFICES ASSUME NEW m \in Meeting \ (doubted.words \cup Index!Todo
                                               \cup Index!Held({"upsert", "load", "insert"})),
                        ~Index!At(m, "unlist")
                 PROVE  found[m] = words[m]
    BY DEF Index!SearchFindsTheWords
  <2> QED
    BY <1>1, <2>1 DEF MeetingParts, WordInv
<1>4. Index!ReadsFollowTheManifest
  <2>1. SUFFICES ASSUME NEW m \in Meeting \ (doubted.rows \cup doubted.words \cup Index!Todo
                                               \cup Index!Held({"upsert", "load", "insert"})),
                        ~Index!Unsynced(m), NEW requested \in SUBSET Scope, NEW w \in Word
                 PROVE  (m \in Index!Hits(requested, w)) <=>
                          /\ Index!Present(m) /\ Index!Covers(requested, bundle[m].scope)
                          /\ words[m] = w
    BY DEF Index!ReadsFollowTheManifest
  <2>2. m \notin Index!Held({"upsert"}) /\ ~Index!At(m, "unlist")
    BY <2>1 DEF Index!Held, Index!Unsynced, Index!At
  <2>3. found[m] = words[m] /\ rows[m] = IF Index!Present(m) THEN bundle[m] ELSE Index!Absent
    BY <1>1, <2>1, <2>2 DEF MeetingParts, RowInv, WordInv
  <2>4. Index!Present(m) => bundle[m] # Index!Absent
    BY DEF Index!Present
  <2> QED
    BY <2>3, <2>4 DEF Index!Hits, Index!Listed
<1> QED
  BY <1>1, <1>2, <1>3, <1>4 DEF Index!CatalogSafe, Index!ToldIsLogged

(* The invariant holds in every reachable state, for every number of        *)
(* meetings, scopes, words and events.                                      *)
THEOREM CatalogInvariant == PipelineSpec => []CatalogInv
<1>1. PipelineInit => CatalogInv
  BY CatalogInitKeeps, PipelineAssumption DEF PipelineInit
<1>2. CatalogInv /\ [PipelineNext]_<<focus, vars, bvars, ivars, hvars, tvars, cvars>> => CatalogInv'
  <2> SUFFICES ASSUME CatalogInv,
                      [PipelineNext]_<<focus, vars, bvars, ivars, hvars, tvars, cvars>>
               PROVE  CatalogInv'
    OBVIOUS
  <2>1. Index!Next \/ UNCHANGED cvars
    BY DEF PipelineNext
  <2> QED
    BY <2>1, CatalogNextKeeps, PipelineAssumption
<1> QED
  BY <1>1, <1>2, PTL DEF PipelineSpec

(* Lists and searches say of a meeting what its bundle says, unless its     *)
(* writer, a rebuild or a reported error still owes it to them, and what    *)
(* was told is logged (catalog/db.py, catalog/rebuild.py).                  *)
THEOREM CatalogIsSafe == PipelineSpec => []CatalogSafe
<1>1. CatalogInv => CatalogSafe
  BY CatalogInvIsSafe DEF CatalogSafe
<1> QED
  BY <1>1, CatalogInvariant, PTL

-----------------------------------------------------------------------------
(****************************************************************************)
(* Proofs about the stages of a bundle, as an action of MCPipeline's        *)
(* program runs them.  TLC checks BundleSafe of one meeting, three          *)
(* configurations and a few versions, edits and stops; here it holds for    *)
(* any number of them.                                                      *)
(*                                                                          *)
(* BundleSafe alone is not inductive: that a job which ended well leaves a  *)
(* current bundle only follows from what holds after every stage of it.     *)
(* BundleInv says besides where a job or call is and what it has in memory  *)
(* (BundleShape), which stages are current while it goes on and what the    *)
(* one at work found and wrote (ProgressInv), that tracks are always turned *)
(* into the same (FixedInv), which files must be there (WordsInv, ExtInv),  *)
(* and that a playback is recorded or about to be (PlaybackInv).            *)
(*                                                                          *)
(* What a step disturbs is found by name: a stage stays current while       *)
(* nothing it uses changes (BundleFrame), and no stage uses what a later    *)
(* one makes (BundleOrder).                                                 *)
(****************************************************************************)

(* The stages in their order, and the names of what a bundle keeps. *)
StageNames ==
  {"audio", "brief", "own", "layer1", "layer2", "layer4", "slides", "align", "layer3",
   "merged"}
FileNames == StageNames \cup {"images", "names", "playback"}

(* The files of layer 2, one of each engine. *)
LayerPaths == {<<"layer2", s.diar>> : s \in Settings}

(* The paths of a bundle. *)
BundlePaths ==
  {<<k>> : k \in FileNames} \cup {<<"minutes">>}
  \cup {<<"ext", i>> : i \in 1 .. MaxEdits} \cup LayerPaths
  \cup {<<"minutes", v>> : v \in 1 .. MaxVersions}

(* What a record and a manifest are like. *)
RecordOk(rec, key) ==
  /\ rec = [inputs |-> rec.inputs, params |-> rec.params, path |-> rec.path, made |-> rec.made]
  /\ IF key = <<"layer2">> THEN rec.path \in LayerPaths ELSE rec.path = key

ManifestOk(m) ==
  /\ m = [records |-> m.records, versions |-> m.versions, settings |-> m.settings,
          status |-> m.status, discarded |-> m.discarded, contexts |-> m.contexts]
  /\ m.settings \in Settings /\ m.discarded \subseteq Bundle!Tracks
  /\ m.versions \in Seq(Bundle!Range(m.versions)) /\ Len(m.versions) <= MaxVersions
  /\ m.records = [key \in DOMAIN m.records |-> m.records[key]]
  /\ \A key \in DOMAIN m.records : RecordOk(m.records[key], key)

(* A manifest that no longer records a stage. *)
Without(m, k) == [m EXCEPT !.records = Bundle!Restrict(@, DOMAIN @ \ {<<k>>})]

(* Where a job is. *)
JobOk ==
  /\ work = [op |-> "job", force |-> work.force, stage |-> work.stage, phase |-> work.phase,
             n |-> work.n, mem |-> work.mem, prior |-> work.prior, old |-> work.old]
  /\ work.stage \in 1 .. 12
  /\ work.stage < 12 => Len(work.mem.versions) < MaxVersions
  /\ work.phase # "drop" => work.mem = saved
  /\ \/ work.phase = "decide" /\ work.n = 0
     \/ work.stage < 12 /\ LET k == Bundle!Stages[work.stage] IN
        \/ /\ work.phase = "drop" /\ k \in {"layer2", "layer3", "layer4"}
           /\ work.n \in 0 .. 2
           /\ <<k>> \in DOMAIN saved.records /\ Bundle!NotWanted(work.mem, k)
           /\ work.mem = Without(saved, k)
        \/ /\ ~Bundle!Kept(saved, k) /\ ~Bundle!NotWanted(saved, k)
           /\ \/ work.phase = "write" /\ k = "slides" /\ work.n \in {1, 2}
              \/ work.phase = "write" /\ k = "layer3" /\ work.n = 1
              \/ work.phase = "record"
              \/ work.phase = "unlink" /\ k = "layer2"
                 /\ work.old \in LayerPaths \ {Bundle!PathOf(saved, k)}
              \/ /\ work.phase = "publish" /\ k = "minutes"
                 /\ Bundle!KeyOf(saved, k) \in DOMAIN saved.records

WorkOk ==
  CASE work.op = "none" -> work = Bundle!Free
    [] work.op = "job" -> JobOk
    [] work.op = "context" ->
         /\ work = [op |-> "context", phase |-> work.phase, id |-> work.id]
         /\ work.phase \in {"write", "record", "list"} /\ work.id = edits /\ edits > 0
    [] work.op = "discard" ->
         /\ work = [op |-> "discard", phase |-> work.phase, left |-> work.left,
                    tracks |-> work.tracks]
         /\ work.phase \in {"playback", "unlink"} /\ work.left \subseteq work.tracks
         /\ work.tracks \subseteq Bundle!Tracks
    [] work.op = "playback" ->
         /\ work = [op |-> "playback", phase |-> work.phase]
         /\ work.phase \in {"write", "record"} /\ saved.discarded = {}
    [] OTHER -> FALSE

BundleShape ==
  /\ ManifestOk(saved) /\ DOMAIN files = BundlePaths /\ WorkOk
  /\ edits \in 0 .. MaxEdits /\ stops \in Nat
  /\ upToDate => work.op \in {"none", "playback"}

(* What the tracks are turned into is always the same. *)
FixedMade(k) ==
  [key |-> k, from |-> Bundle!Outside(saved, k), params |-> [version |-> 1],
   names |-> Bundle!Absent, roll |-> 0]
FixedInv ==
  \A k \in {"audio", "slides"} :
    /\ files[<<k>>] \in {Bundle!Absent, FixedMade(k)}
    /\ Bundle!Recorded(saved, k) => saved.records[<<k>>].made = FixedMade(k)
    /\ work.op = "job" /\ work.stage < 12 /\ Bundle!K = k /\ work.phase = "record"
         => files[<<k>>] = FixedMade(k)

WordsInv ==
  /\ Bundle!Recorded(saved, "own") => Bundle!Recorded(saved, "audio")
  /\ \A k \in {"audio", "own"} : Bundle!Recorded(saved, k) => files[<<k>>] # Bundle!Absent
  /\ <<"system">> \notin media => Bundle!Recorded(saved, "own")
  /\ work.op = "discard" /\ <<"system">> \in work.tracks => Bundle!Recorded(saved, "own")
  /\ work.op = "job" /\ work.stage < 12 /\ work.phase = "record"
       => /\ Bundle!K = "own" => Bundle!Recorded(saved, "audio")
          /\ Bundle!K \in {"own", "audio"} => files[<<Bundle!K>>] # Bundle!Absent

ExtInv ==
  /\ \A key \in Bundle!External(saved) : \E i \in 1 .. edits :
       /\ key = <<"ext", i>>
       /\ files[key] # Bundle!Absent /\ files[key] = saved.records[key].made
  /\ work.op = "context" /\ work.phase \in {"write", "record"} =>
       <<"ext", work.id>> \notin DOMAIN saved.records
  /\ work.op = "context" /\ work.phase = "record" => files[<<"ext", work.id>>] # Bundle!Absent

PlaybackInv ==
  /\ saved.discarded # {} => ~Bundle!Recorded(saved, "playback")
  /\ stops = 0 =>
       /\ files[<<"playback">>] # Bundle!Absent =>
            \/ Bundle!Recorded(saved, "playback")
            \/ work.op = "playback" /\ work.phase = "record"
       /\ work.op = "discard" /\ work.phase = "unlink" => files[<<"playback">>] = Bundle!Absent

(* What a stage is made with today if the files are f and the manifest m. *)
HintsIn(f, m) ==
  IF Bundle!Recorded(m, "brief") /\ f[<<"brief">>] # Bundle!Absent
  THEN f[<<"brief">>].from[<<"config">>] ELSE Bundle!Origin(m.settings.hints)

ParametersIn(f, m, k) ==
  CASE k = "own" -> [engine |-> m.settings.engine, hints |-> HintsIn(f, m)]
    [] k = "layer2" -> [engine |-> m.settings.diar]
    [] k = "merged" -> [provider |-> m.settings.provider, hints |-> HintsIn(f, m)]
    [] k \in {"layer3", "minutes"} -> [provider |-> m.settings.provider]
    [] OTHER -> [version |-> 1]

FoundIn(f, m, k) ==
  IF Bundle!HasOutside(k) THEN Bundle!Outside(m, k)
  ELSE [s \in Bundle!Sources(m, k) |-> f[Bundle!RecordOf(m, s).path]]

NewRecordIn(f, m, k) ==
  [inputs |-> Bundle!Inputs(m, k), params |-> ParametersIn(f, m, k),
   path |-> Bundle!PathOf(m, k), made |-> f[Bundle!PathOf(m, k)]]

(* A stage is what a run would make of it today. *)
CurrentIn(f, m, k) ==
  IF Bundle!NotWanted(m, k) THEN ~Bundle!Recorded(m, k)
  ELSE \/ Bundle!Kept(m, k)
       \/ /\ Bundle!RecordOf(m, <<k>>) = NewRecordIn(f, m, k)
          /\ k = "slides" => f[<<"images">>] # Bundle!Absent
          /\ k = "layer3" => f[<<"names">>].from = f[<<"layer3">>].from

MinutesIn(f, m, v) ==
  LET rec == Bundle!RecordOf(m, <<"minutes", v>>) IN
  /\ rec.inputs = Bundle!Inputs(m, "minutes") /\ rec.params = ParametersIn(f, m, "minutes")
  /\ rec.made = f[<<"minutes", v>>]

WriteInv(m, k) ==
  /\ work.phase \in {"write", "record"} => FoundIn(files, m, k) = Bundle!Inputs(m, k)
  /\ k = "slides" /\ (work.phase = "record" \/ (work.phase = "write" /\ work.n = 2))
       => files[<<"images">>] # Bundle!Absent
  /\ k = "layer3" /\ work.phase \in {"write", "record"}
       => files[<<"layer3">>].from = Bundle!Inputs(m, k)
  /\ work.phase = "record" =>
       /\ files[Bundle!PathOf(m, k)].from = Bundle!Inputs(m, k)
       /\ k = "layer3" => files[<<"names">>].from = Bundle!Inputs(m, k)
       /\ k = "merged" /\ Bundle!Recorded(m, "layer3") =>
            files[<<"merged">>].names.from = Bundle!RecordOf(m, <<"layer3">>).made.from
  /\ work.phase = "unlink" => CurrentIn(files, m, k)
  /\ work.phase = "publish" => MinutesIn(files, m, Bundle!Latest(m) + 1)

ProgressInv ==
  work.op = "job" /\ misread = {} =>
    /\ \A j \in 1 .. 10 : j < work.stage => CurrentIn(files, work.mem, Bundle!Stages[j])
    /\ IF work.stage = 12 THEN Bundle!Latest(work.mem) > 0
                               /\ MinutesIn(files, work.mem, Bundle!Latest(work.mem))
       ELSE WriteInv(work.mem, Bundle!Stages[work.stage])

ReadyInv ==
  upToDate /\ misread = {} =>
    /\ \A k \in StageNames : CurrentIn(files, saved, k)
    /\ Bundle!Latest(saved) > 0 /\ MinutesIn(files, saved, Bundle!Latest(saved))

BundleInv ==
  /\ BundleShape /\ FixedInv /\ WordsInv /\ ExtInv /\ PlaybackInv /\ ProgressInv /\ ReadyInv
  /\ Bundle!VersionsStay /\ Bundle!MadeOfItsInputs

-----------------------------------------------------------------------------
LEMMA BundleStageAt ==
  /\ Bundle!Stages[1] = "audio" /\ Bundle!Stages[2] = "brief" /\ Bundle!Stages[3] = "own"
  /\ Bundle!Stages[4] = "layer1" /\ Bundle!Stages[5] = "layer2" /\ Bundle!Stages[6] = "layer4"
  /\ Bundle!Stages[7] = "slides" /\ Bundle!Stages[8] = "align" /\ Bundle!Stages[9] = "layer3"
  /\ Bundle!Stages[10] = "merged" /\ Bundle!Stages[11] = "minutes" /\ Len(Bundle!Stages) = 11
  /\ DOMAIN Bundle!Stages = 1 .. 11
BY DEF Bundle!Stages

LEMMA BundleStageRange == Bundle!Range(Bundle!Stages) = StageNames \cup {"minutes"}
<1>1. Bundle!Range(Bundle!Stages) = {Bundle!Stages[i] : i \in 1 .. 11}
  BY BundleStageAt DEF Bundle!Range
<1>2. \A i \in 1 .. 11 : i = 1 \/ i = 2 \/ i = 3 \/ i = 4 \/ i = 5 \/ i = 6 \/ i = 7 \/ i = 8
                          \/ i = 9 \/ i = 10 \/ i = 11
  OBVIOUS
<1>3. Bundle!Range(Bundle!Stages) \subseteq StageNames \cup {"minutes"}
  BY <1>1, <1>2, BundleStageAt DEF StageNames
<1>4. \A i \in 1 .. 11 : Bundle!Stages[i] \in Bundle!Range(Bundle!Stages)
  BY <1>1
<1>5. StageNames \cup {"minutes"} \subseteq Bundle!Range(Bundle!Stages)
  <2>1. 1 \in 1 .. 11 /\ 2 \in 1 .. 11 /\ 3 \in 1 .. 11 /\ 4 \in 1 .. 11 /\ 5 \in 1 .. 11
        /\ 6 \in 1 .. 11 /\ 7 \in 1 .. 11 /\ 8 \in 1 .. 11 /\ 9 \in 1 .. 11 /\ 10 \in 1 .. 11
        /\ 11 \in 1 .. 11
    OBVIOUS
  <2> QED
    BY <1>4, <2>1, BundleStageAt DEF StageNames
<1> QED
  BY <1>3, <1>5

(* Which stage a name is. *)
LEMMA BundleStageIs ==
  ASSUME NEW i \in 1 .. 11
  PROVE  /\ Bundle!Stages[i] \in StageNames \cup {"minutes"}
         /\ Bundle!Stages[i] = "minutes" <=> i = 11
         /\ Bundle!Stages[i] = "audio" <=> i = 1
         /\ Bundle!Stages[i] = "brief" <=> i = 2
         /\ Bundle!Stages[i] = "own" <=> i = 3
         /\ Bundle!Stages[i] = "layer1" <=> i = 4
         /\ Bundle!Stages[i] = "layer2" <=> i = 5
         /\ Bundle!Stages[i] = "layer4" <=> i = 6
         /\ Bundle!Stages[i] = "slides" <=> i = 7
         /\ Bundle!Stages[i] = "align" <=> i = 8
         /\ Bundle!Stages[i] = "layer3" <=> i = 9
         /\ Bundle!Stages[i] = "merged" <=> i = 10
<1>1. i = 1 \/ i = 2 \/ i = 3 \/ i = 4 \/ i = 5 \/ i = 6 \/ i = 7 \/ i = 8
      \/ i = 9 \/ i = 10 \/ i = 11
  OBVIOUS
<1> QED
  BY <1>1, BundleStageAt DEF StageNames

(* The paths of the invariant are those of the module. *)
LEMMA BundlePathsAre ==
  BundlePaths = {<<k>> : k \in Bundle!Range(Bundle!Stages) \cup {"images", "names", "playback"}}
                \cup {<<"ext", i>> : i \in 1 .. MaxEdits}
                \cup {<<"layer2", s.diar>> : s \in Settings}
                \cup {Bundle!Minutes(v) : v \in 1 .. MaxVersions}
BY BundleStageRange DEF BundlePaths, LayerPaths, FileNames, Bundle!Minutes

LEMMA BundleHasPaths ==
  /\ \A k \in FileNames : <<k>> \in BundlePaths
  /\ \A i \in 1 .. MaxEdits : <<"ext", i>> \in BundlePaths
  /\ \A s \in Settings : <<"layer2", s.diar>> \in BundlePaths
  /\ \A v \in 1 .. MaxVersions : <<"minutes", v>> \in BundlePaths
  /\ LayerPaths \subseteq BundlePaths
BY DEF BundlePaths, LayerPaths

(* What the state of a stage depends on, by name. *)
Uses(k) ==
  CASE k = "own" -> {"own", "audio", "brief"}
    [] k = "layer1" -> {"layer1", "own"}
    [] k = "layer2" -> {"layer2", "audio"}
    [] k = "slides" -> {"slides", "images"}
    [] k = "align" -> {"align", "own"}
    [] k = "layer3" -> {"layer3", "names", "layer2", "slides"}
    [] k = "merged" -> {"merged", "align", "own", "layer1", "layer2", "layer3", "layer4", "brief"}
    [] OTHER -> {k}

(* Manifests m, n and files f, g differ in what is named in c only. *)
SameBut(c, f, m, g, n) ==
  /\ n.settings = m.settings /\ n.discarded = m.discarded /\ n.contexts = m.contexts
  /\ \A s \in StageNames \ c : /\ Bundle!Recorded(m, s) <=> Bundle!Recorded(n, s)
                               /\ Bundle!RecordOf(m, <<s>>) = Bundle!RecordOf(n, <<s>>)
  /\ Bundle!External(m) = Bundle!External(n)
  /\ \A key \in Bundle!External(m) : Bundle!RecordOf(m, key) = Bundle!RecordOf(n, key)
  /\ \A s \in FileNames \ c : g[<<s>>] = f[<<s>>]
  /\ m.settings \in Settings
  /\ "layer2" \notin c => \A s \in Settings : g[<<"layer2", s.diar>>] = f[<<"layer2", s.diar>>]

(* What a stage is made of is not what has changed. *)
LEMMA BundleSourcesFrame ==
  ASSUME NEW c, NEW f, NEW m, NEW g, NEW n, SameBut(c, f, m, g, n),
         NEW k \in StageNames, (Uses(k) \ {k}) \cap c = {}
  PROVE  /\ Bundle!Sources(n, k) = Bundle!Sources(m, k)
         /\ Bundle!Inputs(n, k) = Bundle!Inputs(m, k)
         /\ ParametersIn(g, n, k) = ParametersIn(f, m, k)
         /\ Bundle!NotWanted(n, k) <=> Bundle!NotWanted(m, k)
         /\ Bundle!Kept(n, k) <=> Bundle!Kept(m, k)
<1> DEFINE Same(s) == /\ Bundle!Recorded(m, s) <=> Bundle!Recorded(n, s)
                      /\ Bundle!RecordOf(m, <<s>>) = Bundle!RecordOf(n, <<s>>)
<1>0. \A s \in StageNames : s \notin c => Same(s)
  BY DEF SameBut
<1>1. /\ n.settings = m.settings /\ n.discarded = m.discarded /\ n.contexts = m.contexts
      /\ Bundle!External(m) = Bundle!External(n)
      /\ \A key \in Bundle!External(m) : Bundle!RecordOf(m, key) = Bundle!RecordOf(n, key)
  BY DEF SameBut
<1>2. /\ k \in {"own", "layer2"} => Same("audio")
      /\ k \in {"layer1", "align", "merged"} => Same("own")
      /\ k \in {"own", "merged"} => Same("brief") /\ g[<<"brief">>] = f[<<"brief">>]
      /\ k = "layer3" => Same("layer2") /\ Same("slides")
      /\ k = "merged" => Same("align") /\ Same("layer1") /\ Same("layer2") /\ Same("layer3")
                         /\ Same("layer4")
  BY <1>0 DEF Uses, StageNames, SameBut, FileNames
<1> HIDE DEF Same
<1>3. Bundle!Sources(n, k) = Bundle!Sources(m, k)
  BY <1>1, <1>2 DEF Same, StageNames, Bundle!Sources, Bundle!Transcripts, Bundle!Integrated,
    Bundle!Diarizations, Bundle!Among
<1>4. \A s \in Bundle!Sources(m, k) : Bundle!RecordOf(n, s).made = Bundle!RecordOf(m, s).made
  BY <1>1, <1>2 DEF Same, StageNames, Bundle!Sources, Bundle!Transcripts, Bundle!Integrated,
    Bundle!Diarizations, Bundle!Among, Bundle!Named
<1>5. Bundle!Inputs(n, k) = Bundle!Inputs(m, k)
  BY <1>1, <1>3, <1>4 DEF Bundle!Inputs, Bundle!HasOutside, Bundle!Outside, Bundle!BriefInputs
<1>6. ParametersIn(g, n, k) = ParametersIn(f, m, k)
  BY <1>1, <1>2 DEF Same, StageNames, ParametersIn, HintsIn
<1>7. Bundle!NotWanted(n, k) <=> Bundle!NotWanted(m, k)
  BY <1>1, <1>2 DEF Same, Bundle!NotWanted, Bundle!NamesSpeakers, Bundle!Named, Bundle!Recorded
<1>8. Bundle!Kept(n, k) <=> Bundle!Kept(m, k)
  BY <1>1 DEF Bundle!Kept
<1> QED
  BY <1>3, <1>5, <1>6, <1>7, <1>8

(* A stage stays current while nothing it uses changes. *)
LEMMA BundleFrame ==
  ASSUME NEW c, NEW f, NEW m, NEW g, NEW n, SameBut(c, f, m, g, n),
         NEW k \in StageNames, Uses(k) \cap c = {}, CurrentIn(f, m, k)
  PROVE  CurrentIn(g, n, k)
<1>1. k \in StageNames \ c /\ k \in FileNames \ c
  BY DEF Uses, StageNames, FileNames
<1>2. /\ Bundle!Recorded(m, k) <=> Bundle!Recorded(n, k)
      /\ Bundle!RecordOf(m, <<k>>) = Bundle!RecordOf(n, <<k>>)
      /\ g[<<k>>] = f[<<k>>] /\ n.settings = m.settings
  BY <1>1 DEF SameBut
<1>3. Bundle!PathOf(n, k) = Bundle!PathOf(m, k)
  BY <1>2 DEF StageNames, Bundle!PathOf, Bundle!KeyOf
<1>4. g[Bundle!PathOf(m, k)] = f[Bundle!PathOf(m, k)]
  BY <1>1, <1>2 DEF StageNames, Bundle!PathOf, Bundle!KeyOf, SameBut
<1>5. /\ k = "slides" => g[<<"images">>] = f[<<"images">>]
      /\ k = "layer3" => g[<<"names">>] = f[<<"names">>]
  BY DEF Uses, SameBut, FileNames
<1>6. NewRecordIn(g, n, k) = NewRecordIn(f, m, k)
  BY <1>3, <1>4, BundleSourcesFrame DEF NewRecordIn
<1> QED
  BY <1>2, <1>5, <1>6, BundleSourcesFrame DEF CurrentIn

(* So do the latest minutes. *)
LEMMA BundleMinutesInputs ==
  ASSUME NEW c, NEW f, NEW m, NEW g, NEW n, SameBut(c, f, m, g, n),
         c \cap {"merged", "slides", "brief"} = {}
  PROVE  /\ Bundle!Inputs(n, "minutes") = Bundle!Inputs(m, "minutes")
         /\ ParametersIn(g, n, "minutes") = ParametersIn(f, m, "minutes")
<1>1. \A s \in {"merged", "slides", "brief"} :
        /\ Bundle!Recorded(m, s) <=> Bundle!Recorded(n, s)
        /\ Bundle!RecordOf(m, <<s>>) = Bundle!RecordOf(n, <<s>>)
  BY DEF SameBut, StageNames
<1>2. Bundle!Summarized(n) = Bundle!Summarized(m)
  BY <1>1 DEF Bundle!Summarized, Bundle!Among
<1>3. \A s \in Bundle!Summarized(m) : Bundle!RecordOf(n, s) = Bundle!RecordOf(m, s)
  BY <1>1 DEF Bundle!Summarized, Bundle!Among
<1>4. Bundle!Inputs(n, "minutes") = Bundle!Inputs(m, "minutes")
  BY <1>2, <1>3 DEF Bundle!Inputs, Bundle!HasOutside, Bundle!Sources
<1>5. ParametersIn(g, n, "minutes") = ParametersIn(f, m, "minutes")
  BY DEF ParametersIn, SameBut
<1> QED
  BY <1>4, <1>5

LEMMA BundleMinutesFrame ==
  ASSUME NEW c, NEW f, NEW m, NEW g, NEW n, SameBut(c, f, m, g, n), NEW v,
         c \cap {"merged", "slides", "brief"} = {},
         Bundle!RecordOf(n, <<"minutes", v>>) = Bundle!RecordOf(m, <<"minutes", v>>),
         g[<<"minutes", v>>] = f[<<"minutes", v>>]
  PROVE  MinutesIn(f, m, v) <=> MinutesIn(g, n, v)
BY BundleMinutesInputs DEF MinutesIn

(* No stage uses what a later one makes. *)
Makes(k) == CASE k = "slides" -> {"slides", "images"} [] k = "layer3" -> {"layer3", "names"}
              [] OTHER -> {k}

LEMMA BundleOrder ==
  ASSUME NEW i \in 1 .. 11, NEW j \in 1 .. 10, j < i
  PROVE  /\ Bundle!Stages[j] \in StageNames
         /\ Uses(Bundle!Stages[j]) \cap Makes(Bundle!Stages[i]) = {}
<1> DEFINE Rank == [audio |-> 1, brief |-> 2, own |-> 3, layer1 |-> 4, layer2 |-> 5,
                    layer4 |-> 6, slides |-> 7, images |-> 7, align |-> 8, layer3 |-> 9,
                    names |-> 9, merged |-> 10, minutes |-> 11]
<1>1. /\ i = 1 \/ i = 2 \/ i = 3 \/ i = 4 \/ i = 5 \/ i = 6 \/ i = 7 \/ i = 8
         \/ i = 9 \/ i = 10 \/ i = 11
      /\ j = 1 \/ j = 2 \/ j = 3 \/ j = 4 \/ j = 5 \/ j = 6 \/ j = 7 \/ j = 8
         \/ j = 9 \/ j = 10
  OBVIOUS
<1>2. \A x \in Uses(Bundle!Stages[j]) : Rank[x] <= j
  BY <1>1, BundleStageAt DEF Uses
<1>3. \A x \in Makes(Bundle!Stages[i]) : Rank[x] = i
  BY <1>1, BundleStageAt DEF Makes
<1>4. Bundle!Stages[j] \in StageNames
  BY <1>1, BundleStageAt DEF StageNames
<1> HIDE DEF Rank
<1> QED
  BY <1>2, <1>3, <1>4

(* Every stage but the minutes has its place. *)
LEMMA BundlePlace ==
  ASSUME NEW k \in StageNames
  PROVE  \E j \in 1 .. 10 : Bundle!Stages[j] = k
BY BundleStageAt DEF StageNames

-----------------------------------------------------------------------------
(* A recorded artifact that is current, or is kept and there, is the file. *)
LEMMA BundleSourceAsMade ==
  ASSUME BundleShape, FixedInv, NEW t \in StageNames, CurrentIn(files, saved, t),
         Bundle!Recorded(saved, t),
         Bundle!Kept(saved, t) => files[Bundle!RecordOf(saved, <<t>>).path] # Bundle!Absent
  PROVE  files[Bundle!RecordOf(saved, <<t>>).path] = Bundle!RecordOf(saved, <<t>>).made
<1>1. Bundle!RecordOf(saved, <<t>>) = saved.records[<<t>>] /\ <<t>> \in DOMAIN saved.records
  BY DEF Bundle!Recorded, Bundle!RecordOf
<1>2. CASE Bundle!Kept(saved, t)
  <2>1. t \in {"audio", "slides"}
    BY <1>2 DEF Bundle!Kept
  <2>2. saved.records[<<t>>].path = <<t>>
    BY <1>1, <2>1 DEF BundleShape, ManifestOk, RecordOk
  <2> QED
    BY <1>1, <1>2, <2>1, <2>2 DEF FixedInv
<1>3. CASE ~Bundle!Kept(saved, t)
  <2>1. Bundle!RecordOf(saved, <<t>>) = NewRecordIn(files, saved, t)
    BY <1>3 DEF CurrentIn
  <2> QED
    BY <2>1 DEF NewRecordIn
<1> QED
  BY <1>2, <1>3

(* What a stage finds is what its record will say. *)
LEMMA BundleFound ==
  ASSUME BundleShape, FixedInv, ExtInv, NEW i \in 1 .. 11,
         \A j \in 1 .. 10 : j < i => CurrentIn(files, saved, Bundle!Stages[j]),
         Bundle!HasSources(saved, Bundle!Stages[i]),
         ~Bundle!MissingLate(saved, Bundle!Stages[i])
  PROVE  FoundIn(files, saved, Bundle!Stages[i]) = Bundle!Inputs(saved, Bundle!Stages[i])
<1> DEFINE k == Bundle!Stages[i]
           AsMade(s) == files[Bundle!RecordOf(saved, s).path] = Bundle!RecordOf(saved, s).made
           Earlier(t) == t \in StageNames /\ CurrentIn(files, saved, t)
<1>1. /\ k \in {"own", "layer2"} => Earlier("audio")
      /\ k \in {"layer1", "align", "merged"} => Earlier("own")
      /\ k = "layer3" => Earlier("layer2") /\ Earlier("slides")
      /\ k = "merged" => /\ Earlier("align") /\ Earlier("layer1") /\ Earlier("layer2")
                         /\ Earlier("layer3") /\ Earlier("layer4")
      /\ k = "minutes" => Earlier("merged") /\ Earlier("slides") /\ Earlier("brief")
  BY BundleStageIs, BundleStageAt DEF StageNames
<1>2. \A t : Earlier(t) /\ Bundle!Recorded(saved, t)
        /\ (Bundle!Kept(saved, t) => files[Bundle!RecordOf(saved, <<t>>).path] # Bundle!Absent)
        => AsMade(<<t>>)
  BY BundleSourceAsMade
<1>3. \A key \in Bundle!External(saved) : AsMade(key)
  BY DEF ExtInv, Bundle!External, Bundle!RecordOf, BundleShape, ManifestOk, RecordOk
<1>4. \A s : Bundle!Readable(saved, s) =>
        s \in DOMAIN saved.records /\ files[Bundle!RecordOf(saved, s).path] # Bundle!Absent
  BY DEF Bundle!Readable, Bundle!RecordOf
<1>5. k \in StageNames \cup {"minutes"}
  BY BundleStageIs
<1> HIDE DEF k, AsMade, Earlier
<1>6. SUFFICES ASSUME ~Bundle!HasOutside(k)
               PROVE  \A s \in Bundle!Sources(saved, k) : AsMade(s)
  <2>1. CASE Bundle!HasOutside(k)
    BY <2>1 DEF FoundIn, Bundle!Inputs, k
  <2>2. CASE \A s \in Bundle!Sources(saved, k) : AsMade(s)
    BY <2>2 DEF FoundIn, Bundle!Inputs, AsMade, k
  <2> QED
    BY <2>1, <2>2
<1>7. CASE k # "minutes"
  <2>1. \A s \in Bundle!Sources(saved, k) : Bundle!Readable(saved, s)
    BY <1>5, <1>6, <1>7 DEF k, StageNames, Bundle!HasSources, Bundle!MergeReadable,
      Bundle!AllReadable, Bundle!HasOutside
  <2>2. \A s \in Bundle!Sources(saved, k) :
          s \in Bundle!External(saved) \/ \E t : s = <<t>> /\ Earlier(t)
    BY <1>1, <1>5, <1>6, <1>7 DEF Bundle!Sources, Bundle!Transcripts, Bundle!Integrated,
      Bundle!Diarizations, Bundle!Among, Bundle!Named, StageNames, Bundle!HasOutside
  <2>3. \A t : Bundle!Readable(saved, <<t>>) => Bundle!Recorded(saved, t)
    BY <1>4 DEF Bundle!Recorded
  <2> QED
    BY <1>2, <1>3, <1>4, <2>1, <2>2, <2>3
<1>8. CASE k = "minutes"
  <2>1. Bundle!Sources(saved, k) = Bundle!Summarized(saved)
    BY <1>8 DEF Bundle!Sources
  <2>2. \A s \in Bundle!Summarized(saved) :
          \E t \in {"merged", "slides", "brief"} : s = <<t>> /\ Bundle!Recorded(saved, t)
    BY DEF Bundle!Summarized, Bundle!Among
  <2>3. Bundle!Recorded(saved, "slides") => files[<<"slides">>] # Bundle!Absent
    BY <1>8 DEF k, Bundle!MissingLate, Bundle!SlidesCopied
  <2>4. Bundle!Recorded(saved, "slides") =>
          Bundle!RecordOf(saved, <<"slides">>).path = <<"slides">>
    BY DEF BundleShape, ManifestOk, RecordOk, Bundle!Recorded, Bundle!RecordOf
  <2>5. ~Bundle!Kept(saved, "merged") /\ ~Bundle!Kept(saved, "brief")
    BY DEF Bundle!Kept
  <2> QED
    BY <1>1, <1>2, <1>8, <2>1, <2>2, <2>3, <2>4, <2>5
<1> QED
  BY <1>7, <1>8
-----------------------------------------------------------------------------
(* The manifest a job has in memory. *)
LEMMA BundleMem ==
  ASSUME BundleShape, work.op = "job"
  PROVE  /\ JobOk /\ ManifestOk(work.mem)
         /\ work.mem.settings = saved.settings /\ work.mem.versions = saved.versions
         /\ work.mem.discarded = saved.discarded /\ work.mem.contexts = saved.contexts
         /\ \A key \in DOMAIN work.mem.records :
              key \in DOMAIN saved.records /\ work.mem.records[key] = saved.records[key]
         /\ \A key \in DOMAIN saved.records :
              key \in DOMAIN work.mem.records \cup {<<"layer2">>, <<"layer3">>, <<"layer4">>}
<1>1. JobOk /\ ManifestOk(saved)
  BY DEF BundleShape, WorkOk
<1>2. CASE work.mem = saved
  BY <1>1, <1>2
<1>3. CASE \E k \in {"layer2", "layer3", "layer4"} :
             work.mem = Without(saved, k)
  BY <1>1, <1>3 DEF ManifestOk, RecordOk, Without, Bundle!Restrict
<1> QED
  BY <1>1, <1>2, <1>3 DEF JobOk

(* The stage a job is at. *)
LEMMA BundleAt ==
  ASSUME BundleShape, work.op = "job", work.stage < 12
  PROVE  /\ work.stage \in 1 .. 11 /\ Bundle!K = Bundle!Stages[work.stage]
         /\ Bundle!K \in StageNames \cup {"minutes"}
         /\ Bundle!K = "minutes" <=> work.stage = 11
         /\ Bundle!Latest(work.mem) < MaxVersions
<1>1. JobOk
  BY DEF BundleShape, WorkOk
<1>2. work.stage \in 1 .. 11
  BY <1>1 DEF JobOk
<1> QED
  BY <1>1, <1>2, BundleStageIs DEF JobOk, Bundle!K, Bundle!Latest

LEMMA BundleNotAtEnd ==
  ASSUME BundleShape, work.op = "job"
  PROVE  Bundle!AtEnd <=> work.stage = 12
BY BundleStageAt DEF BundleShape, WorkOk, JobOk, Bundle!AtEnd

(* A job that turns to the next stage. *)
LEMMA BundleAdvances ==
  ASSUME BundleShape, work.op = "job", work.stage < 12, NEW m, Bundle!Advance(m),
         saved' = m, work.stage < 11 => m.versions = work.mem.versions
  PROVE  /\ WorkOk' /\ work'.op = "job" /\ work'.phase = "decide"
         /\ work'.stage = work.stage + 1 /\ work'.mem = m
<1>1. /\ JobOk /\ Bundle!Latest(work.mem) < MaxVersions
  BY BundleAt DEF BundleShape, WorkOk
<1>2. work' = [op |-> "job", force |-> work.force, stage |-> work.stage + 1,
               phase |-> "decide", n |-> 0, mem |-> m, prior |-> work.prior, old |-> work.old]
  BY <1>1 DEF JobOk, Bundle!Advance
<1>3. JobOk'
  BY <1>1, <1>2 DEF JobOk, Bundle!Latest
<1> QED
  BY <1>2, <1>3 DEF WorkOk

LEMMA BundleAdvanced ==
  ASSUME BundleShape, work.op = "job", work.stage < 12, NEW m,
         work'.phase = "decide", work'.stage = work.stage + 1, work'.mem = m,
         misread' = {} =>
           /\ \A j \in 1 .. 10 : j < work.stage => CurrentIn(files', m, Bundle!Stages[j])
           /\ IF Bundle!K = "minutes"
              THEN Bundle!Latest(m) > 0 /\ MinutesIn(files', m, Bundle!Latest(m))
              ELSE CurrentIn(files', m, Bundle!K)
  PROVE  ProgressInv'
<1>1. SUFFICES ASSUME misread' = {}
               PROVE  /\ \A j \in 1 .. 10 : j < work.stage + 1 =>
                           CurrentIn(files', m, Bundle!Stages[j])
                      /\ work.stage + 1 = 12 =>
                           Bundle!Latest(m) > 0 /\ MinutesIn(files', m, Bundle!Latest(m))
  BY BundleAt DEF ProgressInv, WriteInv
<1>2. \A j \in 1 .. 10 : j < work.stage + 1 => j < work.stage \/ j = work.stage
  BY BundleAt
<1> QED
  BY <1>1, <1>2, BundleAt

(* What a job's own bookkeeping leaves as it is. *)
LEMMA BundleWorkOnly ==
  ASSUME BundleInv, UNCHANGED <<saved, files, media, upToDate, edits, stops>>,
         work.op = "job", WorkOk', work'.op = "job", work'.phase # "record", ProgressInv',
         misread \subseteq misread'
  PROVE  BundleInv'
<1>1. BundleShape'
  BY DEF BundleInv, BundleShape, ManifestOk, RecordOk
<1>2. FixedInv' /\ WordsInv' /\ ExtInv' /\ PlaybackInv'
  BY DEF BundleInv, FixedInv, WordsInv, ExtInv, PlaybackInv, FixedMade, Bundle!Recorded,
    Bundle!External, Bundle!Outside
<1>3. ReadyInv'
  BY DEF BundleInv, BundleShape, ReadyInv
<1>4. Bundle!VersionsStay' /\ Bundle!MadeOfItsInputs'
  BY DEF BundleInv, Bundle!VersionsStay, Bundle!MadeOfItsInputs, Bundle!Latest, Bundle!Minutes
<1> QED
  BY <1>1, <1>2, <1>3, <1>4 DEF BundleInv

(* A stage with the record it would get, and its other files, is current. *)
LEMMA BundleIdentical ==
  ASSUME NEW k \in StageNames, ManifestOk(saved), Bundle!StageSame(saved, k),
         Bundle!Identical(saved, k), ~Bundle!NotWanted(saved, k)
  PROVE  CurrentIn(files, saved, k)
<1>1. Bundle!KeyOf(saved, k) = <<k>>
  BY DEF StageNames, Bundle!KeyOf
<1>2. <<k>> \in DOMAIN saved.records /\ Bundle!RecordOf(saved, <<k>>) = saved.records[<<k>>]
  BY <1>1 DEF Bundle!StageSame, Bundle!Same, Bundle!RecordOf
<1>3. RecordOk(saved.records[<<k>>], <<k>>)
  BY <1>2 DEF ManifestOk
<1>4. Bundle!Parameters(saved, k) = ParametersIn(files, saved, k)
  BY DEF Bundle!Parameters, ParametersIn, Bundle!Hints, HintsIn
<1>5. /\ saved.records[<<k>>].path = Bundle!PathOf(saved, k)
      /\ saved.records[<<k>>].inputs = Bundle!Inputs(saved, k)
      /\ saved.records[<<k>>].params = Bundle!Parameters(saved, k)
      /\ saved.records[<<k>>].made = files[Bundle!PathOf(saved, k)]
  BY <1>1, <1>2 DEF Bundle!StageSame, Bundle!Same, Bundle!Identical
<1>6. Bundle!RecordOf(saved, <<k>>) = NewRecordIn(files, saved, k)
  BY <1>2, <1>3, <1>4, <1>5 DEF RecordOk, NewRecordIn
<1>7. k = "layer3" => Bundle!PathOf(saved, k) = <<"layer3">>
  BY DEF Bundle!PathOf, Bundle!KeyOf
<1> QED
  BY <1>1, <1>2, <1>5, <1>6, <1>7 DEF CurrentIn, Bundle!Identical
-----------------------------------------------------------------------------
(* The steps of a job that change only where it is. *)
LEMMA BundleDeciding ==
  ASSUME BundleInv, Bundle!Deciding
  PROVE  /\ BundleShape /\ work.op = "job" /\ work.stage < 12 /\ work.mem = saved
         /\ work.phase = "decide" /\ work.n = 0
         /\ Bundle!Mem = saved
         /\ Bundle!HasSources(saved, Bundle!K) \/ Bundle!NotWanted(saved, Bundle!K)
         /\ misread = {} => \A j \in 1 .. 10 : j < work.stage =>
                              CurrentIn(files, saved, Bundle!Stages[j])
<1>1. BundleShape /\ work.op = "job" /\ work.phase = "decide"
  BY DEF BundleInv, Bundle!Deciding, Bundle!Job
<1>2. JobOk /\ work.stage < 12
  BY <1>1, BundleNotAtEnd DEF BundleShape, WorkOk, JobOk, Bundle!Deciding
<1>3. work.mem = saved /\ work.n = 0
  BY <1>1, <1>2 DEF JobOk
<1> QED
  BY <1>1, <1>2, <1>3 DEF BundleInv, ProgressInv, Bundle!Deciding, Bundle!Mem,
    Bundle!MissingEarly

LEMMA BundleSkip ==
  ASSUME BundleInv, Bundle!Skip
  PROVE  BundleInv'
<1> DEFINE k == Bundle!K
<1>1. /\ Bundle!Deciding /\ UNCHANGED <<saved, files, media, upToDate, edits, stops>>
      /\ misread \subseteq misread'
  BY DEF Bundle!Skip, Bundle!Bounds
<1>2. /\ BundleShape /\ work.op = "job" /\ work.stage < 12 /\ work.mem = saved
      /\ work.phase = "decide" /\ work.n = 0 /\ Bundle!Mem = saved
      /\ misread = {} => \A j \in 1 .. 10 : j < work.stage =>
                           CurrentIn(files, saved, Bundle!Stages[j])
  BY <1>1, BundleDeciding
<1>3. k \in StageNames \cup {"minutes"} /\ JobOk /\ ManifestOk(saved)
  BY <1>2, BundleAt DEF BundleShape, WorkOk
<1>4. CASE /\ Bundle!Advance(saved)
           /\ misread' = {} => IF k = "minutes"
                               THEN /\ Bundle!Latest(saved) > 0
                                    /\ MinutesIn(files, saved, Bundle!Latest(saved))
                               ELSE CurrentIn(files, saved, k)
  <2>1. WorkOk' /\ work'.op = "job" /\ work'.phase = "decide"
        /\ work'.stage = work.stage + 1 /\ work'.mem = saved
    BY <1>1, <1>2, <1>4, BundleAdvances
  <2>2. ProgressInv'
    BY <1>1, <1>2, <1>4, <2>1, BundleAdvanced
  <2> QED
    BY <1>1, <1>2, <2>1, <2>2, BundleWorkOnly
<1>5. CASE /\ Bundle!Kept(saved, k) \/ (Bundle!NotWanted(saved, k) /\ ~Bundle!Recorded(saved, k))
           /\ Bundle!Advance(saved)
  <2>1. CurrentIn(files, saved, k) /\ k # "minutes"
    BY <1>5 DEF CurrentIn, Bundle!Kept, Bundle!NotWanted
  <2> QED
    BY <1>4, <1>5, <2>1
<1>6. CASE /\ k = "minutes" /\ Bundle!LatestSame(saved) /\ Bundle!Advance(saved)
           /\ misread' = {} => files[Bundle!Minutes(Bundle!Latest(saved))]
                              = Bundle!RecordOf(saved, Bundle!Minutes(Bundle!Latest(saved))).made
  <2>1. misread' = {} => MinutesIn(files, saved, Bundle!Latest(saved))
    BY <1>6 DEF MinutesIn, Bundle!LatestSame, Bundle!Same, Bundle!Minutes, Bundle!Parameters,
      ParametersIn
  <2> QED
    BY <1>4, <1>6, <2>1 DEF Bundle!LatestSame
<1>7. CASE /\ ~Bundle!Kept(saved, k) /\ ~Bundle!NotWanted(saved, k) /\ Bundle!StageSame(saved, k)
           /\ misread' = {} => Bundle!Identical(saved, k)
           /\ IF k = "minutes" THEN Bundle!Goto("publish", 0, saved) ELSE Bundle!Advance(saved)
  <2>1. CASE k # "minutes"
    <3>1. misread' = {} => CurrentIn(files, saved, k)
      BY <1>3, <1>7, <2>1, BundleIdentical
    <3> QED
      BY <1>4, <1>7, <2>1, <3>1
  <2>2. CASE k = "minutes"
    <3>1. work' = [op |-> "job", force |-> work.force, stage |-> work.stage,
                   phase |-> "publish", n |-> 0, mem |-> saved, prior |-> work.prior,
                   old |-> work.old]
      BY <1>2, <1>3, <1>7, <2>2 DEF JobOk, Bundle!Goto
    <3>2. Bundle!KeyOf(saved, k) \in DOMAIN saved.records
      BY <1>7, <2>2 DEF Bundle!StageSame, Bundle!Same, Bundle!RecordOf
    <3>3. k = Bundle!Stages[work.stage]
      BY <1>2, BundleAt
    <3>4. JobOk'
      BY <1>1, <1>2, <1>3, <1>7, <2>2, <3>1, <3>2, <3>3 DEF JobOk
    <3>5. misread' = {} => MinutesIn(files, saved, Bundle!Latest(saved) + 1)
      BY <1>7, <2>2 DEF MinutesIn, Bundle!StageSame, Bundle!Same, Bundle!Identical, Bundle!KeyOf,
        Bundle!PathOf, Bundle!Minutes, Bundle!Parameters, ParametersIn
    <3>6. ProgressInv'
      BY <1>1, <1>2, <3>1, <3>3, <2>2, <3>5 DEF ProgressInv, WriteInv
    <3> QED
      BY <1>1, <1>2, <3>1, <3>4, <3>6, BundleWorkOnly DEF WorkOk
  <2> QED
    BY <2>1, <2>2
<1>8. \A x : misread' = (IF x THEN misread ELSE misread \cup {k}) => (misread' = {} => x)
  OBVIOUS
<1> QED
  BY <1>2, <1>5, <1>6, <1>7, <1>8 DEF Bundle!Skip

(* An artifact that is not wanted any more leaves the manifest. *)
LEMMA BundleDrop ==
  ASSUME BundleInv, Bundle!Drop
  PROVE  BundleInv'
<1> DEFINE k == Bundle!K
           m == Without(saved, k)
<1>1. /\ Bundle!Deciding /\ UNCHANGED <<saved, files, media, upToDate, edits, stops, misread>>
      /\ Bundle!NotWanted(Bundle!Mem, k) /\ Bundle!Recorded(Bundle!Mem, k)
  BY DEF Bundle!Drop, Bundle!Bounds
<1>2. /\ BundleShape /\ work.op = "job" /\ work.stage < 12 /\ work.mem = saved
      /\ work.phase = "decide" /\ work.n = 0 /\ Bundle!Mem = saved
      /\ misread = {} => \A j \in 1 .. 10 : j < work.stage =>
                           CurrentIn(files, saved, Bundle!Stages[j])
  BY <1>1, BundleDeciding
<1>3. k = Bundle!Stages[work.stage] /\ work.stage \in 1 .. 11 /\ JobOk /\ ManifestOk(saved)
  BY <1>2, BundleAt DEF BundleShape, WorkOk
<1>4. k \in {"layer2", "layer3", "layer4"}
  BY <1>1 DEF Bundle!NotWanted
<1>5. work' = [op |-> "job", force |-> work.force, stage |-> work.stage,
               phase |-> "drop", n |-> 0, mem |-> m, prior |-> work.prior, old |-> work.old]
  BY <1>2, <1>3 DEF JobOk, Bundle!Goto, Bundle!Drop, Without
<1>6. /\ m.settings = saved.settings /\ m.versions = saved.versions
      /\ m.discarded = saved.discarded /\ m.contexts = saved.contexts
      /\ DOMAIN m.records = DOMAIN saved.records \ {<<k>>}
      /\ \A key \in DOMAIN m.records : m.records[key] = saved.records[key]
  BY <1>3 DEF ManifestOk, Without, Bundle!Restrict
<1>7. SameBut({k}, files, saved, files, m)
  BY <1>3, <1>4, <1>6 DEF ManifestOk, SameBut, Bundle!Recorded, Bundle!RecordOf, Bundle!External
<1> HIDE DEF m
<1>8. Bundle!NotWanted(m, k)
  <2>1. Bundle!NotWanted(saved, k)
    BY <1>1, <1>2
  <2> QED
    BY <1>4, <1>7, <2>1, BundleSourcesFrame DEF StageNames, Uses
<1>9. JobOk'
  <2>1. <<k>> \in DOMAIN saved.records
    BY <1>1, <1>2 DEF Bundle!Recorded
  <2>2. Len(m.versions) < MaxVersions
    BY <1>2, <1>3, <1>6 DEF JobOk
  <2>3. m = Without(saved', k)
    BY <1>1 DEF m
  <2> QED
    BY <1>1, <1>2, <1>3, <1>4, <1>5, <1>8, <2>1, <2>2, <2>3 DEF JobOk
<1>10. ProgressInv'
  <2>1. misread = {} => \A j \in 1 .. 10 : j < work.stage =>
                           CurrentIn(files, m, Bundle!Stages[j])
    BY <1>2, <1>3, <1>7, BundleOrder, BundleFrame DEF Makes
  <2> QED
    BY <1>1, <1>2, <1>3, <1>5, <2>1 DEF ProgressInv, WriteInv
<1> QED
  BY <1>1, <1>2, <1>5, <1>9, <1>10, BundleWorkOnly DEF WorkOk
-----------------------------------------------------------------------------
(* A step of a job that writes or removes a file. *)
LEMMA BundleFile ==
  ASSUME BundleInv, UNCHANGED <<saved, media, upToDate, edits, stops, misread>>,
         work.op = "job", WorkOk', work'.op = "job", ProgressInv',
         NEW p, NEW x, files' = [files EXCEPT ![p] = x],
         p # <<"playback">>, \A i : p # <<"ext", i>>,
         \A v \in 1 .. Bundle!Latest(saved) : p # <<"minutes", v>>,
         \A k \in {"audio", "slides"} : p = <<k>> => x \in {Bundle!Absent, FixedMade(k)},
         \A k \in {"audio", "own"} : p = <<k>> => x # Bundle!Absent,
         work'.phase = "record" /\ work'.stage < 12 =>
           /\ \A k \in {"audio", "slides"} :
                Bundle!Stages[work'.stage] = k => files'[<<k>>] = FixedMade(k)
           /\ \A k \in {"audio", "own"} :
                Bundle!Stages[work'.stage] = k => files'[<<k>>] # Bundle!Absent
           /\ Bundle!Stages[work'.stage] = "own" => Bundle!Recorded(saved, "audio")
  PROVE  BundleInv'
<1>1. BundleShape /\ WordsInv /\ FixedInv /\ ExtInv /\ PlaybackInv
  BY DEF BundleInv
<1>2. BundleShape'
  BY <1>1 DEF BundleShape, ManifestOk, RecordOk
<1>3. \A q \in BundlePaths : q # p => files'[q] = files[q]
  BY <1>1 DEF BundleShape
<1>4. \A k \in FileNames : <<k>> = p => files'[<<k>>] = x
  BY <1>1, BundleHasPaths DEF BundleShape
<1>5. work'.op = "job" => Bundle!K' = Bundle!Stages[work'.stage]
  BY DEF Bundle!K
<1>6. FixedInv'
  <2>1. \A k \in {"audio", "slides"} : FixedMade(k)' = FixedMade(k)
    BY DEF FixedMade, Bundle!Outside
  <2> QED
    BY <1>1, <1>3, <1>4, <1>5, <2>1, BundleHasPaths
      DEF FixedInv, FileNames, StageNames, Bundle!Recorded
<1>7. WordsInv'
  BY <1>1, <1>3, BundleHasPaths, <1>4, <1>5 DEF WordsInv, FileNames, StageNames, Bundle!Recorded
<1>8. ExtInv'
  BY <1>1, <1>3, BundleHasPaths DEF BundleShape, ExtInv, Bundle!External
<1>9. PlaybackInv'
  BY <1>1, <1>3, BundleHasPaths DEF FileNames, PlaybackInv, Bundle!Recorded
<1>10. ReadyInv'
  BY <1>1 DEF BundleShape, ReadyInv
<1>11. Bundle!VersionsStay' /\ Bundle!MadeOfItsInputs'
  <2>1. Bundle!Latest(saved) \in Nat /\ Bundle!Latest(saved) <= MaxVersions
    BY <1>1 DEF BundleShape, ManifestOk, Bundle!Latest
  <2>2. \A v \in 1 .. Bundle!Latest(saved) : v \in 1 .. MaxVersions
    BY <2>1, PipelineAssumption DEF Bundle!BundleAssumption
  <2> QED
    BY <1>3, <2>2, BundleHasPaths DEF BundleInv, Bundle!VersionsStay, Bundle!MadeOfItsInputs,
      Bundle!Latest, Bundle!Minutes
<1> QED
  BY <1>2, <1>6, <1>7, <1>8, <1>9, <1>10, <1>11 DEF BundleInv

(* What a change of one stage's files leaves as it is for the earlier ones. *)
LEMMA BundleFileFrame ==
  ASSUME NEW i \in 1 .. 11, NEW p, NEW x, NEW m, NEW f, NEW g, g = [f EXCEPT ![p] = x],
         DOMAIN f = BundlePaths, m.settings \in Settings,
         \A s \in FileNames \ Makes(Bundle!Stages[i]) : p # <<s>>,
         Bundle!Stages[i] # "layer2" => \A d : p # <<"layer2", d>>
  PROVE  /\ SameBut(Makes(Bundle!Stages[i]), f, m, g, m)
         /\ \A j \in 1 .. 10 : j < i /\ CurrentIn(f, m, Bundle!Stages[j])
              => CurrentIn(g, m, Bundle!Stages[j])
<1>1. \A q \in BundlePaths : q # p => g[q] = f[q]
  OBVIOUS
<1>2. "layer2" \notin Makes(Bundle!Stages[i]) => Bundle!Stages[i] # "layer2"
  BY DEF Makes
<1>3. SameBut(Makes(Bundle!Stages[i]), f, m, g, m)
  BY <1>1, <1>2, BundleHasPaths DEF SameBut
<1> QED
  BY <1>3, BundleOrder, BundleFrame
-----------------------------------------------------------------------------
(* A stage's function writes its files. *)
LEMMA BundleSourcesRecorded ==
  ASSUME BundleShape, NEW k \in StageNames \cup {"minutes"}, ~Bundle!HasOutside(k),
         Bundle!HasSources(saved, k) \/ k = "layer3", ~Bundle!NotWanted(saved, k)
  PROVE  \A s \in Bundle!Sources(saved, k) :
           /\ s \in DOMAIN saved.records
           /\ s \in Bundle!External(saved) \/ \E t \in StageNames \ {k} : s = <<t>>
           /\ k = "layer2" => s = <<"audio">>
<1>1. CASE k \in {"align", "merged", "minutes"}
  BY <1>1 DEF Bundle!Sources, Bundle!Transcripts, Bundle!Integrated, Bundle!Diarizations,
    Bundle!Summarized, Bundle!Among, Bundle!Recorded, Bundle!External, StageNames
<1>2. CASE k = "layer3"
  BY <1>2 DEF Bundle!Sources, Bundle!Named, Bundle!NotWanted, Bundle!NamesSpeakers, StageNames
<1>3. CASE k \in {"own", "layer1", "layer2", "layer4"}
  BY <1>3 DEF Bundle!Sources, Bundle!HasSources, Bundle!AllReadable, Bundle!Readable, StageNames,
    Bundle!External
<1> QED
  BY <1>1, <1>2, <1>3 DEF StageNames, Bundle!HasOutside

LEMMA BundleFoundFrame ==
  ASSUME BundleShape, NEW k \in StageNames \cup {"minutes"},
         Bundle!HasSources(saved, k) \/ k \in {"layer3", "slides"}, ~Bundle!NotWanted(saved, k),
         ExtInv, NEW p, NEW x, files' = [files EXCEPT ![p] = x],
         p \in {Bundle!PathOf(saved, k), <<"images">>, <<"names">>}
  PROVE  FoundIn(files', saved, k) = FoundIn(files, saved, k)
<1> USE DEF StageNames
<1>1. CASE Bundle!HasOutside(k)
  BY <1>1 DEF FoundIn
<1>2. CASE ~Bundle!HasOutside(k)
  <2>1. \A s \in Bundle!Sources(saved, k) :
          /\ s \in DOMAIN saved.records
          /\ s \in Bundle!External(saved) \/ \E t \in StageNames \ {k} : s = <<t>>
          /\ k = "layer2" => s = <<"audio">>
    BY <1>2, BundleSourcesRecorded DEF Bundle!HasOutside
  <2>2. SUFFICES ASSUME NEW s \in Bundle!Sources(saved, k)
                 PROVE  files'[Bundle!RecordOf(saved, s).path]
                        = files[Bundle!RecordOf(saved, s).path]
    BY <1>2 DEF FoundIn
  <2>3. /\ Bundle!RecordOf(saved, s).path = saved.records[s].path
        /\ IF s = <<"layer2">> THEN saved.records[s].path \in LayerPaths
           ELSE saved.records[s].path = s
    BY <2>1 DEF Bundle!RecordOf, BundleShape, ManifestOk, RecordOk
  <2>4. s \in Bundle!External(saved) => \E i \in 1 .. edits : s = <<"ext", i>>
    BY DEF ExtInv
  <2>5. saved.records[s].path \in BundlePaths
    <3>1. \A i \in 1 .. edits : i \in 1 .. MaxEdits
      BY PipelineAssumption DEF Bundle!BundleAssumption, BundleShape
    <3> QED
      BY <2>1, <2>3, <2>4, <3>1, BundleHasPaths DEF FileNames
  <2>6. p \in {<<k>>, <<"images">>, <<"names">>} \/ (k = "layer2" /\ p \in LayerPaths)
        \/ (k = "minutes" /\ p = <<"minutes", Bundle!Latest(saved) + 1>>)
    BY DEF Bundle!PathOf, Bundle!KeyOf, Bundle!Minutes, LayerPaths, BundleShape, ManifestOk
  <2>7. saved.records[s].path # p
    BY <2>1, <2>3, <2>4, <2>6 DEF LayerPaths
  <2> QED
    BY <2>3, <2>5, <2>7 DEF BundleShape
<1> QED
  BY <1>1, <1>2
(* What a job knows when it writes a file. *)
WriteAt(k, n, roll) ==
  /\ work.op = "job" /\ work.stage < 12 /\ work.mem = saved /\ work.n = n
  /\ k = Bundle!K /\ ~Bundle!Kept(saved, k) /\ ~Bundle!NotWanted(saved, k)
  /\ Bundle!HasSources(saved, k) \/ k \in {"layer3", "slides"}
  /\ k = "own" => Bundle!Recorded(saved, "audio")
  /\ k # "merged" => roll = 0
  /\ \/ k \notin {"slides", "layer3"} /\ n = 0
     \/ k = "slides" /\ n \in 0 .. 2
     \/ k = "layer3" /\ n \in 0 .. 1
  /\ misread = {} =>
       /\ \A j \in 1 .. 10 : j < work.stage => CurrentIn(files, saved, Bundle!Stages[j])
       /\ FoundIn(files, saved, k) = Bundle!Inputs(saved, k)
       /\ k = "slides" /\ n = 2 => files[<<"images">>] # Bundle!Absent
       /\ k = "layer3" /\ n = 1 => files[<<"layer3">>].from = Bundle!Inputs(saved, k)

LEMMA BundleWriteAt ==
  ASSUME BundleInv, Bundle!Write
  PROVE  /\ UNCHANGED <<saved, media, upToDate, edits, stops, misread>>
         /\ \E roll :
              /\ WriteAt(Bundle!K, work.n, roll)
              /\ files' = [files EXCEPT ![Bundle!Written(saved, Bundle!K)[work.n + 1]] =
                             IF Bundle!K = "slides" /\ work.n = 0 THEN Bundle!Absent
                             ELSE Bundle!Content(saved, Bundle!K, roll)]
         /\ Bundle!Goto(IF work.n + 1 = Len(Bundle!Written(saved, Bundle!K)) THEN "record"
                        ELSE "write", work.n + 1, saved)
<1> DEFINE k == Bundle!K
<1>1. /\ UNCHANGED <<saved, media, upToDate, edits, stops, misread>>
      /\ \/ /\ Bundle!Deciding /\ Bundle!Wanted(Bundle!Mem, k)
            /\ ~Bundle!MissingLate(Bundle!Mem, k)
         \/ work.op = "job" /\ work.phase = "write"
  BY DEF Bundle!Write, Bundle!Bounds, Bundle!Job
<1>2. work.op = "job" /\ BundleShape /\ JobOk
  BY <1>1 DEF BundleInv, BundleShape, WorkOk, Bundle!Deciding, Bundle!Job
<1>3. work.stage < 12 /\ work.mem = saved /\ Bundle!Mem = saved
  BY <1>1, <1>2, BundleDeciding DEF JobOk, Bundle!Mem
<1>4. k = Bundle!Stages[work.stage] /\ work.stage \in 1 .. 11 /\ k \in StageNames \cup {"minutes"}
  BY <1>2, <1>3, BundleAt
<1>5. ASSUME NEW roll, k # "merged" => roll = 0
      PROVE  WriteAt(k, work.n, roll)
  <2>1. CASE Bundle!Deciding /\ Bundle!Wanted(saved, k) /\ ~Bundle!MissingLate(saved, k)
    <3>1. /\ work.n = 0 /\ ~Bundle!Kept(saved, k) /\ ~Bundle!NotWanted(saved, k)
          /\ Bundle!HasSources(saved, k)
          /\ misread = {} => \A j \in 1 .. 10 : j < work.stage =>
                               CurrentIn(files, saved, Bundle!Stages[j])
      BY <2>1, BundleDeciding DEF Bundle!Wanted
    <3>2. k = "own" => Bundle!Recorded(saved, "audio")
      BY <3>1 DEF Bundle!HasSources, Bundle!AllReadable, Bundle!Sources, Bundle!Readable,
        Bundle!Recorded
    <3>3. misread = {} => FoundIn(files, saved, k) = Bundle!Inputs(saved, k)
      BY <1>2, <1>4, <2>1, <3>1, BundleFound DEF BundleInv
    <3> HIDE DEF k
    <3> QED
      BY <1>2, <1>3, <1>5, <3>1, <3>2, <3>3 DEF WriteAt, k
  <2>2. CASE work.phase = "write"
    <3>1. /\ ~Bundle!Kept(saved, k) /\ ~Bundle!NotWanted(saved, k)
          /\ \/ k = "slides" /\ work.n \in {1, 2}
             \/ k = "layer3" /\ work.n = 1
      BY <1>2, <1>3, <1>4, <2>2 DEF JobOk
    <3>2. misread = {} => /\ \A j \in 1 .. 10 : j < work.stage =>
                                CurrentIn(files, saved, Bundle!Stages[j])
                          /\ WriteInv(saved, k)
      BY <1>2, <1>3, <1>4 DEF BundleInv, ProgressInv
    <3>3. misread = {} =>
            /\ FoundIn(files, saved, k) = Bundle!Inputs(saved, k)
            /\ k = "slides" /\ work.n = 2 => files[<<"images">>] # Bundle!Absent
            /\ k = "layer3" => files[<<"layer3">>].from = Bundle!Inputs(saved, k)
      BY <2>2, <3>2 DEF WriteInv
    <3> HIDE DEF k
    <3> QED
      BY <1>2, <1>3, <1>5, <3>1, <3>2, <3>3 DEF WriteAt, k
  <2> QED
    BY <1>1, <1>3, <2>1, <2>2
<1>6. k # "merged" => \A roll \in (IF k = "merged" THEN Rolls ELSE {0}) : roll = 0
  OBVIOUS
<1>7. Bundle!Goto(IF work.n + 1 = Len(Bundle!Written(saved, k)) THEN "record" ELSE "write",
                  work.n + 1, saved)
  BY <1>3 DEF Bundle!Write
<1>8. \E roll \in (IF k = "merged" THEN Rolls ELSE {0}) :
        files' = [files EXCEPT ![Bundle!Written(saved, k)[work.n + 1]] =
                    IF k = "slides" /\ work.n = 0 THEN Bundle!Absent
                    ELSE Bundle!Content(saved, k, roll)]
  <2>1. k = "slides" /\ work.n + 1 = 1 <=> k = "slides" /\ work.n = 0
    BY <1>1, <1>2, <1>3, <1>4 DEF JobOk, Bundle!Deciding
  <2> QED
    BY <1>3, <2>1 DEF Bundle!Write
<1> HIDE DEF k
<1>9. PICK roll \in (IF k = "merged" THEN Rolls ELSE {0}) :
        files' = [files EXCEPT ![Bundle!Written(saved, k)[work.n + 1]] =
                    IF k = "slides" /\ work.n = 0 THEN Bundle!Absent
                    ELSE Bundle!Content(saved, k, roll)]
  BY <1>8
<1>10. WriteAt(k, work.n, roll)
  BY <1>5, <1>6
<1> QED
  BY <1>1, <1>7, <1>9, <1>10 DEF k

(* What is written into a file. *)
LEMMA BundleContent ==
  ASSUME NEW k \in StageNames \cup {"minutes"}, NEW roll
  PROVE  /\ Bundle!Content(saved, k, roll).from = FoundIn(files, saved, k)
         /\ Bundle!Content(saved, k, roll).names = Bundle!Names(saved, k)
         /\ Bundle!Content(saved, k, roll) # Bundle!Absent
         /\ k \in {"audio", "slides"} /\ roll = 0 =>
              Bundle!Content(saved, k, roll) = FixedMade(k)
<1>1. /\ Bundle!Content(saved, k, roll).from = FoundIn(files, saved, k)
      /\ Bundle!Content(saved, k, roll).names = Bundle!Names(saved, k)
      /\ Bundle!Content(saved, k, roll).key = k
  BY DEF Bundle!Content, Bundle!Found, FoundIn
<1>2. Bundle!Content(saved, k, roll) # Bundle!Absent
  BY <1>1 DEF Bundle!Absent, StageNames
<1>3. ASSUME k \in {"audio", "slides"}, roll = 0
      PROVE  Bundle!Content(saved, k, roll) = FixedMade(k)
  <2>1. Bundle!Found(saved, k) = Bundle!Outside(saved, k)
    BY <1>3 DEF Bundle!Found, Bundle!HasOutside
  <2>2. Bundle!Names(saved, k) = Bundle!Absent /\ Bundle!Parameters(saved, k) = [version |-> 1]
    BY <1>3 DEF Bundle!Names, Bundle!Parameters
  <2> QED
    BY <1>3, <2>1, <2>2 DEF Bundle!Content, FixedMade
<1> QED
  BY <1>1, <1>2, <1>3

(* Where a job is when it stays at its stage. *)
LEMMA BundleGoesTo ==
  ASSUME JobOk, NEW ph, NEW n, NEW m, Bundle!Goto(ph, n, m)
  PROVE  work' = [op |-> "job", force |-> work.force, stage |-> work.stage, phase |-> ph,
                  n |-> n, mem |-> m, prior |-> work.prior, old |-> work.old]
<1> DEFINE w == [op |-> "job", force |-> work.force, stage |-> work.stage, phase |-> ph,
                 n |-> n, mem |-> m, prior |-> work.prior, old |-> work.old]
<1>1. /\ DOMAIN work = {"op", "force", "stage", "phase", "n", "mem", "prior", "old"}
      /\ work.op = "job"
  BY DEF JobOk
<1>2. work' = [work EXCEPT !.phase = ph, !.n = n, !.mem = m]
  BY DEF Bundle!Goto
<1>3. DOMAIN w = DOMAIN work'
  BY <1>1, <1>2
<1>4. \A x \in DOMAIN w : w[x] = work'[x]
  BY <1>1, <1>2
<1>5. w = [x \in DOMAIN w |-> w[x]] /\ work' = [x \in DOMAIN work' |-> work'[x]]
  BY <1>1, <1>2
<1> QED
  BY <1>3, <1>4, <1>5

(* The step of a job that writes its only file, or its last. *)
LEMMA BundleGoto ==
  ASSUME BundleShape, NEW roll, NEW ph \in {"write", "record"},
         WriteAt(Bundle!K, work.n, roll),
         UNCHANGED saved, Bundle!Goto(ph, work.n + 1, saved),
         ph = "write" => \/ Bundle!K = "slides" /\ work.n \in {0, 1}
                         \/ Bundle!K = "layer3" /\ work.n = 0
  PROVE  /\ WorkOk' /\ work'.op = "job" /\ work'.phase = ph /\ work'.stage = work.stage
         /\ work'.n = work.n + 1 /\ work'.mem = saved
<1>1. /\ work.op = "job" /\ work.stage < 12 /\ work.mem = saved
      /\ ~Bundle!Kept(saved, Bundle!K) /\ ~Bundle!NotWanted(saved, Bundle!K)
  BY DEF WriteAt
<1>2. JobOk /\ Bundle!K = Bundle!Stages[work.stage]
  BY <1>1, BundleAt DEF BundleShape, WorkOk
<1>3. work' = [op |-> "job", force |-> work.force, stage |-> work.stage,
               phase |-> ph, n |-> work.n + 1, mem |-> saved, prior |-> work.prior,
               old |-> work.old]
  BY <1>2, BundleGoesTo
<1>4. JobOk'
  BY <1>1, <1>2, <1>3 DEF JobOk
<1> QED
  BY <1>3, <1>4 DEF WorkOk

(* What a stage writes does not disturb what it and the earlier ones found. *)
LEMMA BundleWriteFrame ==
  ASSUME BundleInv, NEW roll, WriteAt(Bundle!K, work.n, roll), UNCHANGED saved,
         NEW p, NEW x, files' = [files EXCEPT ![p] = x],
         p \in {Bundle!PathOf(saved, Bundle!K), <<"images">>, <<"names">>},
         p = <<"images">> => Bundle!K = "slides", p = <<"names">> => Bundle!K = "layer3"
  PROVE  /\ FoundIn(files', saved, Bundle!K) = FoundIn(files, saved, Bundle!K)
         /\ misread = {} => \A j \in 1 .. 10 : j < work.stage =>
                              CurrentIn(files', saved, Bundle!Stages[j])
<1> DEFINE k == Bundle!K
<1>1. /\ BundleShape /\ ExtInv /\ work.op = "job" /\ work.stage < 12
      /\ ~Bundle!NotWanted(saved, k)
      /\ Bundle!HasSources(saved, k) \/ k \in {"layer3", "slides"}
      /\ misread = {} => \A j \in 1 .. 10 : j < work.stage =>
                           CurrentIn(files, saved, Bundle!Stages[j])
  BY DEF BundleInv, WriteAt
<1>2. k = Bundle!Stages[work.stage] /\ work.stage \in 1 .. 11 /\ k \in StageNames \cup {"minutes"}
  BY <1>1, BundleAt
<1> HIDE DEF k
<1>3. FoundIn(files', saved, k) = FoundIn(files, saved, k)
  BY <1>1, <1>2, BundleFoundFrame DEF k
<1>4. /\ \A s \in FileNames \ Makes(k) : p # <<s>>
      /\ k # "layer2" => \A d : p # <<"layer2", d>>
  BY <1>2 DEF k, Makes, Bundle!PathOf, Bundle!KeyOf, Bundle!Minutes, FileNames, StageNames
<1>5. DOMAIN files = BundlePaths /\ saved.settings \in Settings
  BY <1>1 DEF BundleShape, ManifestOk
<1>6. \A j \in 1 .. 10 : j < work.stage /\ CurrentIn(files, saved, Bundle!Stages[j])
        => CurrentIn(files', saved, Bundle!Stages[j])
  BY <1>2, <1>4, <1>5, BundleFileFrame
<1> QED
  BY <1>1, <1>3, <1>6 DEF k

LEMMA BundleWrite ==
  ASSUME BundleInv, Bundle!Write
  PROVE  BundleInv'
<1> DEFINE k == Bundle!K
<1>1. PICK roll :
        /\ UNCHANGED <<saved, media, upToDate, edits, stops, misread>>
        /\ WriteAt(k, work.n, roll)
        /\ files' = [files EXCEPT ![Bundle!Written(saved, k)[work.n + 1]] =
                       IF k = "slides" /\ work.n = 0 THEN Bundle!Absent
                       ELSE Bundle!Content(saved, k, roll)]
        /\ Bundle!Goto(IF work.n + 1 = Len(Bundle!Written(saved, k)) THEN "record"
                       ELSE "write", work.n + 1, saved)
  BY BundleWriteAt
<1>2. /\ BundleShape /\ work.op = "job" /\ work.stage < 12
      /\ k = Bundle!Stages[work.stage] /\ work.stage \in 1 .. 11
      /\ k \in StageNames \cup {"minutes"}
      /\ DOMAIN files = BundlePaths /\ saved.settings \in Settings
  BY <1>1, BundleAt DEF BundleInv, BundleShape, ManifestOk, WriteAt
<1>3. \A v \in 1 .. Bundle!Latest(saved) : Bundle!Latest(saved) + 1 # v
  BY <1>2 DEF Bundle!Latest, BundleShape, ManifestOk
<1>4. Bundle!PathOf(saved, k) \in BundlePaths
  <2>1. k = "minutes" => Bundle!Latest(saved) + 1 \in 1 .. MaxVersions
    <3>1. Bundle!Latest(saved) \in Nat /\ (k = "minutes" => Bundle!Latest(saved) < MaxVersions)
      BY <1>1, <1>2, BundleAt DEF WriteAt, Bundle!Latest, BundleShape, ManifestOk
    <3> QED
      BY <3>1, PipelineAssumption DEF Bundle!BundleAssumption
  <2> QED
    BY <1>2, <2>1, BundleHasPaths DEF Bundle!PathOf, Bundle!KeyOf, Bundle!Minutes, FileNames
<1> HIDE DEF k
<1>5. CASE k \notin {"slides", "layer3"}
  <2> DEFINE p == Bundle!PathOf(saved, k)
             x == Bundle!Content(saved, k, roll)
  <2>1. Bundle!Written(saved, k) = <<p>> /\ work.n = 0
    BY <1>1, <1>5 DEF Bundle!Written, WriteAt
  <2>2. files' = [files EXCEPT ![p] = x] /\ Bundle!Goto("record", work.n + 1, saved)
    <3>1. Len(Bundle!Written(saved, k)) = 1 /\ Bundle!Written(saved, k)[1] = p
      BY <2>1
    <3>2. (IF work.n + 1 = Len(Bundle!Written(saved, k)) THEN "record" ELSE "write") = "record"
      BY <2>1, <3>1
    <3>3. /\ Bundle!Written(saved, k)[work.n + 1] = p
          /\ (IF k = "slides" /\ work.n = 0 THEN Bundle!Absent
              ELSE Bundle!Content(saved, k, roll)) = x
      BY <1>5, <2>1, <3>1
    <3>4. files' = [files EXCEPT ![p] = x]
      BY <1>1, <3>3, Zenon
    <3> QED
      BY <1>1, <3>2, <3>4, Zenon
  <2>3. WorkOk' /\ work'.op = "job" /\ work'.phase = "record" /\ work'.stage = work.stage
        /\ work'.mem = saved
    BY <1>1, <1>2, <2>2, BundleGoto DEF k
  <2>4. files'[p] = x
    BY <1>2, <1>4, <2>2
  <2>5. p # <<"images">> /\ p # <<"names">>
    BY <1>2 DEF Bundle!PathOf, Bundle!KeyOf, Bundle!Minutes, StageNames
  <2>6. /\ FoundIn(files', saved, k) = FoundIn(files, saved, k)
        /\ misread = {} => \A j \in 1 .. 10 : j < work.stage =>
                             CurrentIn(files', saved, Bundle!Stages[j])
    BY <1>1, <2>2, <2>5, BundleWriteFrame DEF k
  <2> HIDE DEF p, x
  <2>7. ProgressInv'
    <3>1. SUFFICES ASSUME misread = {}
                   PROVE  WriteInv(work.mem, Bundle!Stages[work.stage])'
      BY <1>1, <1>2, <2>3, <2>6 DEF ProgressInv
    <3>2. FoundIn(files', saved, k) = Bundle!Inputs(saved, k)
      BY <1>1, <2>6, <3>1 DEF WriteAt
    <3>3. x.from = Bundle!Inputs(saved, k)
      BY <1>1, <1>2, <3>1, BundleContent DEF WriteAt, x
    <3>4. k = "merged" /\ Bundle!Recorded(saved, "layer3") =>
            x.names.from = Bundle!RecordOf(saved, <<"layer3">>).made.from
      <4>1. SUFFICES ASSUME k = "merged", Bundle!Recorded(saved, "layer3")
                     PROVE  x.names.from = Bundle!RecordOf(saved, <<"layer3">>).made.from
        OBVIOUS
      <4>2. CurrentIn(files, saved, "layer3")
        <5>1. work.stage = 10 /\ Bundle!Stages[9] = "layer3"
          <6>1. Bundle!Stages[work.stage] = "merged" /\ work.stage \in 1 .. 11
            BY <1>2, <4>1
          <6> QED
            BY <6>1, BundleStageIs, BundleStageAt, Zenon
        <5> QED
          BY <1>1, <3>1, <5>1 DEF WriteAt
      <4>3. /\ Bundle!RecordOf(saved, <<"layer3">>) = NewRecordIn(files, saved, "layer3")
            /\ files[<<"names">>].from = files[<<"layer3">>].from
        BY <4>1, <4>2 DEF CurrentIn, Bundle!Kept
      <4>4. Bundle!RecordOf(saved, <<"layer3">>).made = files[<<"layer3">>]
        BY <4>3 DEF NewRecordIn, Bundle!PathOf, Bundle!KeyOf
      <4>5. x.names = files[<<"names">>]
        BY <1>2, <4>1, BundleContent DEF x, Bundle!Names
      <4> QED
        BY <4>3, <4>4, <4>5
    <3> QED
      BY <1>1, <1>2, <1>5, <2>3, <2>4, <3>2, <3>3, <3>4 DEF WriteInv, p, Bundle!PathOf,
        Bundle!KeyOf
  <2>8. /\ p # <<"playback">> /\ \A i : p # <<"ext", i>>
        /\ \A v \in 1 .. Bundle!Latest(saved) : p # <<"minutes", v>>
        /\ \A t \in {"audio", "own", "slides"} : p = <<t>> <=> k = t
    BY <1>2, <1>3 DEF p, Bundle!PathOf, Bundle!KeyOf, Bundle!Minutes, StageNames
  <2>9. x # Bundle!Absent /\ (k = "audio" => x = FixedMade(k))
    BY <1>1, <1>2, BundleContent DEF x, WriteAt
  <2>10. k = "own" => Bundle!Recorded(saved, "audio")
    BY <1>1 DEF WriteAt
  <2>11. \A t \in {"audio", "slides"} : p = <<t>> => x \in {Bundle!Absent, FixedMade(t)}
    BY <1>5, <2>8, <2>9
  <2>12. work'.phase = "record" /\ work'.stage < 12 =>
           /\ \A t \in {"audio", "slides"} :
                Bundle!Stages[work'.stage] = t => files'[<<t>>] = FixedMade(t)
           /\ \A t \in {"audio", "own"} :
                Bundle!Stages[work'.stage] = t => files'[<<t>>] # Bundle!Absent
           /\ Bundle!Stages[work'.stage] = "own" => Bundle!Recorded(saved, "audio")
    BY <1>2, <1>5, <2>3, <2>4, <2>8, <2>9, <2>10
  <2> QED
    <3>1. \A t \in {"audio", "own"} : p = <<t>> => x # Bundle!Absent
      BY <2>9
    <3>2. files' = [files EXCEPT ![p] = x] /\ WorkOk' /\ work'.op = "job"
      BY <2>2, <2>3
    <3> QED
      BY <1>1, <1>2, <2>7, <2>8, <2>11, <2>12, <3>1, <3>2, BundleFile, ZenonT(90)
<1>6. CASE k = "slides"
  <2> DEFINE p == IF work.n = 2 THEN <<"slides">> ELSE <<"images">>
             x == IF work.n = 0 THEN Bundle!Absent ELSE Bundle!Content(saved, k, roll)
             ph == IF work.n = 2 THEN "record" ELSE "write"
  <2>1. /\ work.n \in 0 .. 2 /\ Bundle!Written(saved, k)[work.n + 1] = p
        /\ (IF work.n + 1 = Len(Bundle!Written(saved, k)) THEN "record" ELSE "write") = ph
        /\ (IF k = "slides" /\ work.n = 0 THEN Bundle!Absent
            ELSE Bundle!Content(saved, k, roll)) = x
    BY <1>1, <1>6 DEF Bundle!Written, WriteAt
  <2>2. files' = [files EXCEPT ![p] = x] /\ Bundle!Goto(ph, work.n + 1, saved)
    BY <1>1, <2>1, Zenon
  <2>3. WorkOk' /\ work'.op = "job" /\ work'.phase = ph /\ work'.stage = work.stage
        /\ work'.mem = saved /\ work'.n = work.n + 1
    BY <1>1, <1>2, <1>6, <2>1, <2>2, BundleGoto DEF k
  <2>4. files'[p] = x /\ \A q \in BundlePaths : q # p => files'[q] = files[q]
    BY <1>2, <2>2, BundleHasPaths DEF FileNames, StageNames
  <2>5. p \in {Bundle!PathOf(saved, k), <<"images">>} /\ p # <<"names">>
    BY <1>6 DEF Bundle!PathOf, Bundle!KeyOf
  <2>6. /\ FoundIn(files', saved, k) = FoundIn(files, saved, k)
        /\ misread = {} => \A j \in 1 .. 10 : j < work.stage =>
                             CurrentIn(files', saved, Bundle!Stages[j])
    BY <1>1, <1>6, <2>2, <2>5, BundleWriteFrame DEF k
  <2>7. x = Bundle!Absent \/ (x = FixedMade("slides") /\ x # Bundle!Absent
                             /\ x.from = FoundIn(files, saved, k))
    BY <1>1, <1>2, <1>6, BundleContent DEF WriteAt
  <2>8. work.n # 0 => x # Bundle!Absent
    BY <1>2, <1>6, BundleContent
  <2> HIDE DEF x
  <2>9. ProgressInv'
    <3>1. SUFFICES ASSUME misread = {}
                   PROVE  WriteInv(work.mem, Bundle!Stages[work.stage])'
      BY <1>1, <1>2, <2>3, <2>6 DEF ProgressInv
    <3>2. FoundIn(files', saved, k) = Bundle!Inputs(saved, k)
      BY <1>1, <2>6, <3>1 DEF WriteAt
    <3>3. work'.phase = "record" => files'[Bundle!PathOf(saved, k)].from = Bundle!Inputs(saved, k)
      BY <1>6, <2>3, <2>4, <2>6, <2>7, <2>8, <3>2 DEF Bundle!PathOf, Bundle!KeyOf
    <3>4. work'.phase = "record" \/ work'.n = 2 => files'[<<"images">>] # Bundle!Absent
      BY <1>1, <1>6, <2>1, <2>3, <2>4, <2>8, <3>1, BundleHasPaths DEF WriteAt, FileNames
    <3> QED
      BY <1>1, <1>2, <1>6, <2>1, <2>3, <3>2, <3>3, <3>4 DEF WriteInv
  <2>10. /\ p # <<"playback">> /\ \A i : p # <<"ext", i>>
         /\ \A v \in 1 .. Bundle!Latest(saved) : p # <<"minutes", v>>
         /\ \A t \in {"audio", "own"} : p # <<t>>
    OBVIOUS
  <2>11. work'.phase = "record" => p = <<"slides">> /\ x # Bundle!Absent
    BY <2>3, <2>8
  <2> HIDE DEF p
  <2>12. \A t \in {"audio", "slides"} : p = <<t>> => x \in {Bundle!Absent, FixedMade(t)}
    BY <2>7, <2>10
  <2>13. work'.phase = "record" =>
           /\ \A t \in {"audio", "slides"} :
                Bundle!Stages[work'.stage] = t => files'[<<t>>] = FixedMade(t)
           /\ \A t \in {"audio", "own"} :
                Bundle!Stages[work'.stage] = t => files'[<<t>>] # Bundle!Absent
           /\ Bundle!Stages[work'.stage] = "own" => Bundle!Recorded(saved, "audio")
    BY <1>2, <1>6, <2>3, <2>4, <2>7, <2>11
  <2>14. \A t \in {"audio", "own"} : p = <<t>> => x # Bundle!Absent
    BY <2>10
  <2> QED
    <3>1. files' = [files EXCEPT ![p] = x] /\ WorkOk' /\ work'.op = "job"
      BY <2>2, <2>3
    <3> QED
      BY <1>1, <1>2, <2>9, <2>10, <2>12, <2>13, <2>14, <3>1, BundleFile, ZenonT(60)
<1>7. CASE k = "layer3"
  <2> DEFINE p == IF work.n = 0 THEN <<"layer3">> ELSE <<"names">>
             x == Bundle!Content(saved, k, roll)
             ph == IF work.n = 0 THEN "write" ELSE "record"
  <2>1. /\ work.n \in 0 .. 1 /\ Bundle!Written(saved, k)[work.n + 1] = p
        /\ (IF work.n + 1 = Len(Bundle!Written(saved, k)) THEN "record" ELSE "write") = ph
        /\ (IF k = "slides" /\ work.n = 0 THEN Bundle!Absent
            ELSE Bundle!Content(saved, k, roll)) = x
    BY <1>1, <1>7 DEF Bundle!Written, WriteAt
  <2>2. files' = [files EXCEPT ![p] = x] /\ Bundle!Goto(ph, work.n + 1, saved)
    BY <1>1, <2>1, Zenon
  <2>3. WorkOk' /\ work'.op = "job" /\ work'.phase = ph /\ work'.stage = work.stage
        /\ work'.mem = saved /\ work'.n = work.n + 1
    BY <1>1, <1>2, <1>7, <2>1, <2>2, BundleGoto DEF k
  <2>4. files'[p] = x /\ \A q \in BundlePaths : q # p => files'[q] = files[q]
    BY <1>2, <2>2, BundleHasPaths DEF FileNames, StageNames
  <2>5. p \in {Bundle!PathOf(saved, k), <<"names">>} /\ p # <<"images">>
    BY <1>7 DEF Bundle!PathOf, Bundle!KeyOf
  <2>6. /\ FoundIn(files', saved, k) = FoundIn(files, saved, k)
        /\ misread = {} => \A j \in 1 .. 10 : j < work.stage =>
                             CurrentIn(files', saved, Bundle!Stages[j])
    BY <1>1, <1>7, <2>2, <2>5, BundleWriteFrame DEF k
  <2>7. x.from = FoundIn(files, saved, k) /\ x # Bundle!Absent
    BY <1>2, <1>7, BundleContent
  <2> HIDE DEF x
  <2>8. ProgressInv'
    <3>1. SUFFICES ASSUME misread = {}
                   PROVE  WriteInv(work.mem, Bundle!Stages[work.stage])'
      BY <1>1, <1>2, <2>3, <2>6 DEF ProgressInv
    <3>2. FoundIn(files', saved, k) = Bundle!Inputs(saved, k)
      BY <1>1, <2>6, <3>1 DEF WriteAt
    <3>3. files'[<<"layer3">>].from = Bundle!Inputs(saved, k)
      BY <1>1, <1>7, <2>1, <2>4, <2>6, <2>7, <3>1, <3>2, BundleHasPaths
      DEF WriteAt, FileNames, StageNames
    <3>4. work'.phase = "record" => files'[<<"names">>].from = Bundle!Inputs(saved, k)
      BY <2>3, <2>4, <2>6, <2>7, <3>2
    <3>5. Bundle!PathOf(saved, k) = <<"layer3">>
      BY <1>7 DEF Bundle!PathOf, Bundle!KeyOf
    <3> QED
      BY <1>1, <1>2, <1>7, <2>1, <2>3, <3>2, <3>3, <3>4, <3>5 DEF WriteInv
  <2>9. /\ p # <<"playback">> /\ \A i : p # <<"ext", i>>
        /\ \A v \in 1 .. Bundle!Latest(saved) : p # <<"minutes", v>>
        /\ \A t \in {"audio", "own", "slides"} : p # <<t>>
    OBVIOUS
  <2> HIDE DEF p
  <2>10. /\ \A t \in {"audio", "slides"} : p = <<t>> => x \in {Bundle!Absent, FixedMade(t)}
         /\ \A t \in {"audio", "own"} : p = <<t>> => x # Bundle!Absent
    BY <2>9
  <2>11. \A t \in {"audio", "own", "slides"} : Bundle!Stages[work'.stage] # t
    BY <1>2, <1>7, <2>3
  <2>12. work'.phase = "record" /\ work'.stage < 12 =>
           /\ \A t \in {"audio", "slides"} :
                Bundle!Stages[work'.stage] = t => files'[<<t>>] = FixedMade(t)
           /\ \A t \in {"audio", "own"} :
                Bundle!Stages[work'.stage] = t => files'[<<t>>] # Bundle!Absent
           /\ Bundle!Stages[work'.stage] = "own" => Bundle!Recorded(saved, "audio")
    BY <2>11
  <2>13. files' = [files EXCEPT ![p] = x]
    BY <2>2
  <2>14. WorkOk' /\ work'.op = "job"
    BY <2>3
  <2> QED
    BY <1>1, <1>2, <2>13, <2>14, <2>8, <2>9, <2>10, <2>12, BundleFile, ZenonT(60)
<1> QED
  BY <1>5, <1>6, <1>7
-----------------------------------------------------------------------------
(* A step of a job, or before one, that saves a manifest. *)
LEMMA BundleSaves ==
  ASSUME BundleInv, work.op \in {"none", "job"}, NEW m, saved' = m, ManifestOk(m),
         UNCHANGED <<files, media, misread>>, stops' \in Nat, stops' = 0 => stops = 0,
         edits' \in 0 .. MaxEdits, edits <= edits',
         WorkOk', work'.op \in {"none", "job"}, work'.op = "job" => work'.phase # "record",
         ProgressInv', ReadyInv', upToDate' => work'.op = "none",
         m.discarded = saved.discarded,
         Bundle!External(m) = Bundle!External(saved),
         \A key \in Bundle!External(saved) : m.records[key] = saved.records[key],
         Bundle!Recorded(m, "playback") <=> Bundle!Recorded(saved, "playback"),
         \A k \in {"audio", "own"} :
           /\ Bundle!Recorded(saved, k) => Bundle!Recorded(m, k)
           /\ Bundle!Recorded(m, k) => files[<<k>>] # Bundle!Absent,
         Bundle!Recorded(m, "own") => Bundle!Recorded(m, "audio"),
         \A k \in {"audio", "slides"} :
           Bundle!Recorded(m, k) => m.records[<<k>>].made = FixedMade(k),
         Bundle!VersionsStay', Bundle!MadeOfItsInputs'
  PROVE  BundleInv'
<1>1. BundleShape /\ WordsInv /\ FixedInv /\ ExtInv /\ PlaybackInv
  BY DEF BundleInv
<1>2. BundleShape'
  <2>1. ManifestOk(saved)'
    BY DEF ManifestOk, RecordOk
  <2> QED
    BY <1>1, <2>1 DEF BundleShape
<1>3. FixedInv'
  <2>1. \A k \in {"audio", "slides"} : FixedMade(k)' = FixedMade(k)
    BY DEF FixedMade, Bundle!Outside
  <2> QED
    BY <1>1, <2>1 DEF FixedInv, Bundle!Recorded
<1>4. WordsInv'
  BY <1>1 DEF WordsInv, Bundle!Recorded
<1>5. ExtInv'
  <2>1. Bundle!External(saved)' = Bundle!External(saved)
    BY DEF Bundle!External
  <2>2. \A i \in 1 .. edits : i \in 1 .. edits'
    BY <1>1 DEF BundleShape
  <2> QED
    BY <1>1, <2>1, <2>2 DEF ExtInv
<1>6. PlaybackInv'
  BY <1>1 DEF PlaybackInv, Bundle!Recorded
<1> QED
  BY <1>2, <1>3, <1>4, <1>5, <1>6 DEF BundleInv

(* A step of a job that saves what it has in memory, but for the status. *)
LEMMA BundleSavesMem ==
  ASSUME BundleInv, work.op = "job",
         saved' = work.mem \/ \E outcome : saved' = [work.mem EXCEPT !.status = outcome],
         UNCHANGED <<files, media, edits, misread>>, stops' \in Nat, stops' = 0 => stops = 0,
         WorkOk', work'.op \in {"none", "job"}, work'.op = "job" => work'.phase # "record",
         ProgressInv', ReadyInv', upToDate' => work'.op = "none"
  PROVE  BundleInv'
<1>1. /\ BundleShape /\ WordsInv /\ FixedInv /\ ExtInv
      /\ Bundle!VersionsStay /\ Bundle!MadeOfItsInputs
  BY DEF BundleInv
<1>2. PICK m : saved' = m
  OBVIOUS
<1>3. /\ ManifestOk(work.mem)
      /\ work.mem.versions = saved.versions /\ work.mem.discarded = saved.discarded
      /\ \A key \in DOMAIN work.mem.records :
           key \in DOMAIN saved.records /\ work.mem.records[key] = saved.records[key]
      /\ \A key \in DOMAIN saved.records :
           key \in DOMAIN work.mem.records \cup {<<"layer2">>, <<"layer3">>, <<"layer4">>}
  BY <1>1, BundleMem
<1>4. /\ ManifestOk(m) /\ m.records = work.mem.records
      /\ m.versions = saved.versions /\ m.discarded = saved.discarded
  <2>1. CASE saved' = work.mem
    BY <1>2, <1>3, <2>1
  <2>2. ASSUME NEW outcome, saved' = [work.mem EXCEPT !.status = outcome]
        PROVE  /\ ManifestOk(m) /\ m.records = work.mem.records
               /\ m.versions = saved.versions /\ m.discarded = saved.discarded
    BY <1>2, <1>3, <2>2 DEF ManifestOk, RecordOk
  <2> QED
    BY <2>1, <2>2
<1>5. /\ \A key \in DOMAIN m.records :
           key \in DOMAIN saved.records /\ m.records[key] = saved.records[key]
      /\ \A key \in DOMAIN saved.records :
           key \in DOMAIN m.records \cup {<<"layer2">>, <<"layer3">>, <<"layer4">>}
  BY <1>3, <1>4
<1>6. /\ Bundle!External(m) = Bundle!External(saved)
      /\ \A key \in Bundle!External(saved) : m.records[key] = saved.records[key]
  BY <1>5 DEF Bundle!External
<1>7. /\ \A k \in {"audio", "own", "slides", "playback"} :
           Bundle!Recorded(m, k) <=> Bundle!Recorded(saved, k)
      /\ \A k \in {"audio", "slides"} :
           Bundle!Recorded(m, k) => m.records[<<k>>] = saved.records[<<k>>]
  BY <1>5 DEF Bundle!Recorded
<1>8. /\ \A k \in {"audio", "own"} :
           /\ Bundle!Recorded(saved, k) => Bundle!Recorded(m, k)
           /\ Bundle!Recorded(m, k) => files[<<k>>] # Bundle!Absent
      /\ Bundle!Recorded(m, "own") => Bundle!Recorded(m, "audio")
      /\ \A k \in {"audio", "slides"} :
           Bundle!Recorded(m, k) => m.records[<<k>>].made = FixedMade(k)
  BY <1>1, <1>7 DEF WordsInv, FixedInv
<1>9. Bundle!VersionsStay' /\ Bundle!MadeOfItsInputs'
  BY <1>1, <1>2, <1>4, <1>5 DEF Bundle!VersionsStay, Bundle!MadeOfItsInputs, Bundle!Latest,
    Bundle!Minutes
<1>10. edits' \in 0 .. MaxEdits /\ edits <= edits'
  BY <1>1 DEF BundleShape
<1> QED
  BY <1>2, <1>4, <1>6, <1>7, <1>8, <1>9, <1>10, BundleSaves

(* A job that ends without success, and a process that dies. *)
LEMMA BundleEndJob ==
  ASSUME BundleInv, work.op = "job", NEW outcome, Bundle!EndJob(outcome), UNCHANGED edits,
         stops' \in {stops, stops + 1}
  PROVE  BundleInv'
<1>1. ~upToDate' /\ stops \in Nat
  BY DEF BundleInv, BundleShape, Bundle!EndJob
<1>2. work' = Bundle!Free /\ UNCHANGED <<files, media, misread>>
      /\ saved' = [work.mem EXCEPT !.status = outcome]
  BY DEF Bundle!EndJob, Bundle!Mem
<1>3. work'.op = "none" /\ WorkOk'
  BY <1>2 DEF WorkOk, Bundle!Free
<1>4. ProgressInv' /\ ReadyInv'
  BY <1>1, <1>3 DEF ProgressInv, ReadyInv
<1>5. stops' \in Nat /\ (stops' = 0 => stops = 0)
  BY <1>1
<1> QED
  BY <1>1, <1>2, <1>3, <1>4, <1>5, BundleSavesMem

LEMMA BundleFail ==
  ASSUME BundleInv, Bundle!Fail \/ Bundle!Cancel
  PROVE  BundleInv'
<1>1. work.op = "job" /\ UNCHANGED edits /\ stops' \in {stops, stops + 1}
  BY DEF Bundle!Fail, Bundle!Cancel, Bundle!Job, Bundle!Stop, Bundle!Bounds
<1>2. \E outcome : Bundle!EndJob(outcome)
  BY DEF Bundle!Fail, Bundle!Cancel
<1> QED
  BY <1>1, <1>2, BundleEndJob

LEMMA BundleCrash ==
  ASSUME BundleInv, Bundle!Crash
  PROVE  BundleInv'
<1>1. /\ work' = Bundle!Free /\ stops' = stops + 1
      /\ UNCHANGED <<saved, files, media, misread, upToDate, edits>>
  BY DEF Bundle!Crash, Bundle!Stop
<1>2. work'.op = "none" /\ WorkOk' /\ stops \in Nat
  BY <1>1 DEF WorkOk, Bundle!Free, BundleInv, BundleShape
<1>3. BundleShape'
  BY <1>1, <1>2 DEF BundleInv, BundleShape, ManifestOk, RecordOk
<1>4. FixedInv' /\ WordsInv' /\ ExtInv' /\ PlaybackInv' /\ ProgressInv'
  BY <1>1, <1>2 DEF BundleInv, FixedInv, WordsInv, ExtInv, PlaybackInv, ProgressInv, FixedMade,
    Bundle!Recorded, Bundle!External, Bundle!Outside
<1>5. ReadyInv' /\ Bundle!VersionsStay' /\ Bundle!MadeOfItsInputs'
  BY <1>1 DEF BundleInv, ReadyInv, Bundle!VersionsStay, Bundle!MadeOfItsInputs, Bundle!Latest,
    Bundle!Minutes
<1> QED
  BY <1>3, <1>4, <1>5 DEF BundleInv

(* A job that has been through every stage leaves a current bundle. *)
LEMMA BundleFinish ==
  ASSUME BundleInv, Bundle!Finish
  PROVE  BundleInv'
<1>1. /\ work.op = "job" /\ work.stage = 12 /\ BundleShape /\ JobOk /\ work.mem = saved
  BY BundleNotAtEnd DEF BundleInv, BundleShape, WorkOk, JobOk, Bundle!Finish, Bundle!Job
<1>2. /\ saved' = [saved EXCEPT !.status = "ready"] /\ work' = Bundle!Free
      /\ UNCHANGED <<files, media, misread, edits, stops>>
  BY <1>1 DEF Bundle!Finish, Bundle!Bounds, Bundle!Mem
<1>3. work'.op = "none" /\ WorkOk'
  BY <1>2 DEF WorkOk, Bundle!Free
<1>4. /\ saved'.settings = saved.settings /\ saved'.discarded = saved.discarded
      /\ saved'.contexts = saved.contexts /\ saved'.records = saved.records
      /\ saved'.versions = saved.versions /\ saved.settings \in Settings
  BY <1>1, <1>2 DEF BundleShape, ManifestOk
<1>5. SameBut({}, files, saved, files, saved')
  BY <1>4 DEF SameBut, Bundle!Recorded, Bundle!RecordOf, Bundle!External
<1>6. ReadyInv'
  <2>1. SUFFICES ASSUME misread = {}
                 PROVE  /\ \A k \in StageNames : CurrentIn(files, saved', k)
                        /\ Bundle!Latest(saved') > 0
                        /\ MinutesIn(files, saved', Bundle!Latest(saved'))
    BY <1>2 DEF ReadyInv
  <2>2. \A j \in 1 .. 10 : CurrentIn(files, saved, Bundle!Stages[j])
    BY <1>1, <2>1 DEF BundleInv, ProgressInv
  <2>3. \A k \in StageNames : CurrentIn(files, saved, k)
    BY <2>2, BundlePlace
  <2>4. \A k \in StageNames : CurrentIn(files, saved', k)
    BY <1>5, <2>3, BundleFrame
  <2>5. /\ Bundle!Latest(saved) > 0 /\ MinutesIn(files, saved, Bundle!Latest(saved))
        /\ Bundle!Latest(saved') = Bundle!Latest(saved)
    BY <1>1, <1>4, <2>1 DEF BundleInv, ProgressInv, Bundle!Latest
  <2>6. MinutesIn(files, saved', Bundle!Latest(saved))
    <3>1. \A key : Bundle!RecordOf(saved', key) = Bundle!RecordOf(saved, key)
      BY <1>4 DEF Bundle!RecordOf
    <3>2. {} \cap {"merged", "slides", "brief"} = {}
      OBVIOUS
    <3>3. \A v : MinutesIn(files, saved, v) <=> MinutesIn(files, saved', v)
      BY <1>5, <3>1, <3>2, BundleMinutesFrame
    <3> QED
      BY <2>5, <3>3
  <2> QED
    BY <2>4, <2>5, <2>6
<1>7. ProgressInv' /\ stops' \in Nat
  BY <1>1, <1>2, <1>3 DEF ProgressInv, BundleShape
<1>8. \E outcome : saved' = [work.mem EXCEPT !.status = outcome]
  BY <1>1, <1>2
<1> QED
  BY <1>1, <1>2, <1>3, <1>6, <1>7, <1>8, BundleSavesMem

-----------------------------------------------------------------------------
(* The files that go with a stage that is not wanted, and layer 2 of another *)
(* engine.                                                                   *)
LEMMA BundleDropFile ==
  ASSUME BundleInv, Bundle!DropFile
  PROVE  BundleInv'
<1> DEFINE k == Bundle!K
<1>1. /\ work.op = "job" /\ work.phase = "drop" /\ UNCHANGED <<media, misread, upToDate>>
      /\ UNCHANGED <<edits, stops>> /\ BundleShape
  BY DEF BundleInv, Bundle!DropFile, Bundle!Job, Bundle!Bounds
<1>2. JobOk /\ work.stage < 12
  BY <1>1 DEF BundleShape, WorkOk, JobOk
<1>3. k = Bundle!Stages[work.stage] /\ work.stage \in 1 .. 11
  BY <1>1, <1>2, BundleAt
<1>4. /\ k \in {"layer2", "layer3", "layer4"} /\ work.n \in 0 .. 2
      /\ <<k>> \in DOMAIN saved.records /\ Bundle!NotWanted(work.mem, k)
      /\ work.mem = Without(saved, k)
  BY <1>1, <1>2, <1>3 DEF JobOk
<1>5. misread = {} => \A j \in 1 .. 10 : j < work.stage =>
                        CurrentIn(files, work.mem, Bundle!Stages[j])
  BY <1>1 DEF BundleInv, ProgressInv
<1>6. work.mem.settings \in Settings /\ DOMAIN files = BundlePaths
  BY <1>1, BundleMem DEF ManifestOk, BundleShape
<1> HIDE DEF k
<1>7. CASE work.n < Len(Bundle!Doomed(k))
  <2> DEFINE p == Bundle!Doomed(k)[work.n + 1]
  <2>1. /\ files' = [files EXCEPT ![p] = Bundle!Absent] /\ UNCHANGED saved
        /\ Bundle!Goto("drop", work.n + 1, work.mem)
    BY <1>7 DEF k, Bundle!DropFile, Bundle!Mem
  <2>2. \/ k = "layer2" /\ p \in LayerPaths
        \/ k = "layer3" /\ p \in {<<"layer3">>, <<"names">>}
        \/ k = "layer4" /\ p = <<"layer4">>
    <3>1. CASE k = "layer3"
      <4>1. Bundle!Doomed(k) = <<<<"layer3">>, <<"names">>>>
        BY <3>1 DEF Bundle!Doomed
      <4>2. work.n = 0 \/ work.n = 1
        BY <1>4, <1>7, <4>1
      <4> QED
        BY <3>1, <4>1, <4>2
    <3>2. CASE k # "layer3"
      <4>1. Bundle!Doomed(k) = <<saved.records[<<k>>].path>>
        BY <3>2 DEF Bundle!Doomed
      <4>2. work.n = 0
        BY <1>4, <1>7, <4>1
      <4>3. RecordOk(saved.records[<<k>>], <<k>>)
        BY <1>1, <1>4 DEF BundleShape, ManifestOk
      <4> QED
        BY <1>4, <3>2, <4>1, <4>2, <4>3 DEF RecordOk
    <3> QED
      BY <3>1, <3>2
  <2>3. work.n + 1 \in 0 .. 2
    BY <1>4, <1>7 DEF Bundle!Doomed
  <2> HIDE DEF p
  <2>4. /\ \A s \in FileNames \ Makes(k) : p # <<s>>
        /\ k # "layer2" => \A d : p # <<"layer2", d>>
    BY <2>2 DEF Makes, LayerPaths
  <2>5. misread = {} => \A j \in 1 .. 10 : j < work.stage =>
                          CurrentIn(files', work.mem, Bundle!Stages[j])
    BY <1>3, <1>5, <1>6, <2>1, <2>4, BundleFileFrame
  <2>6. work' = [op |-> "job", force |-> work.force, stage |-> work.stage, phase |-> "drop",
                 n |-> work.n + 1, mem |-> work.mem, prior |-> work.prior, old |-> work.old]
    BY <1>2, <2>1, BundleGoesTo
  <2>7. JobOk'
    BY <1>2, <1>3, <1>4, <2>1, <2>3, <2>6 DEF JobOk
  <2>8. work'.op = "job" /\ WorkOk' /\ work'.phase = "drop"
    BY <2>6, <2>7 DEF WorkOk
  <2>9. ProgressInv'
    BY <1>1, <1>2, <1>3, <2>5, <2>6 DEF ProgressInv, WriteInv
  <2>10. /\ p # <<"playback">> /\ \A i : p # <<"ext", i>>
         /\ \A v \in 1 .. Bundle!Latest(saved) : p # <<"minutes", v>>
         /\ \A t \in {"audio", "own", "slides"} : p # <<t>>
    BY <2>2 DEF LayerPaths
  <2>11. UNCHANGED <<saved, media, upToDate, edits, stops, misread>>
    BY <1>1, <2>1
  <2>12. /\ \A t \in {"audio", "slides"} :
              p = <<t>> => Bundle!Absent \in {Bundle!Absent, FixedMade(t)}
         /\ \A t \in {"audio", "own"} : p = <<t>> => Bundle!Absent # Bundle!Absent
    BY <2>10
  <2> QED
    BY <1>1, <2>1, <2>8, <2>9, <2>10, <2>11, <2>12, BundleFile, ZenonT(30)
<1>8. CASE ~(work.n < Len(Bundle!Doomed(k)))
  <2>1. saved' = work.mem /\ Bundle!Advance(work.mem) /\ UNCHANGED files
    BY <1>8 DEF k, Bundle!DropFile, Bundle!Mem
  <2>2. WorkOk' /\ work'.op = "job" /\ work'.phase = "decide"
        /\ work'.stage = work.stage + 1 /\ work'.mem = work.mem
    <3>1. \A m : m = work.mem => m.versions = work.mem.versions
      OBVIOUS
    <3>2. PICK m : m = work.mem
      OBVIOUS
    <3> QED
      BY <1>1, <1>2, <2>1, <3>2, BundleAdvances
  <2>3. ~Bundle!Recorded(work.mem, k)
    BY <1>4, <1>1 DEF Bundle!Recorded, Without, Bundle!Restrict, BundleShape, ManifestOk
  <2>4. CurrentIn(files, work.mem, k) /\ k # "minutes"
    BY <1>4, <2>3 DEF CurrentIn
  <2>5. ProgressInv'
    BY <1>1, <1>2, <1>5, <2>1, <2>2, <2>4, BundleAdvanced DEF k
  <2>6. ReadyInv' /\ ~upToDate' /\ stops' \in Nat
    BY <1>1 DEF BundleShape, ReadyInv
  <2> QED
    BY <1>1, <2>1, <2>2, <2>5, <2>6, BundleSavesMem
<1> QED
  BY <1>7, <1>8

LEMMA BundleUnlink ==
  ASSUME BundleInv, Bundle!Unlink
  PROVE  BundleInv'
<1> DEFINE k == Bundle!K
           p == work.old
<1>1. /\ work.op = "job" /\ work.phase = "unlink" /\ BundleShape
      /\ UNCHANGED <<saved, media, misread, upToDate, edits, stops>>
      /\ files' = [files EXCEPT ![p] = Bundle!Absent]
  BY DEF BundleInv, Bundle!Unlink, Bundle!Job, Bundle!Bounds
<1>2. JobOk /\ work.stage < 12 /\ work.mem = saved
  BY <1>1 DEF BundleShape, WorkOk, JobOk
<1>3. k = Bundle!Stages[work.stage] /\ work.stage \in 1 .. 11
  BY <1>1, <1>2, BundleAt
<1>4. k = "layer2" /\ p \in LayerPaths \ {Bundle!PathOf(saved, k)}
  BY <1>1, <1>2, <1>3 DEF JobOk
<1>5. saved.settings \in Settings /\ DOMAIN files = BundlePaths
  BY <1>1 DEF BundleShape, ManifestOk
<1>6. Bundle!Advance(saved)
  BY <1>2 DEF Bundle!Unlink, Bundle!Mem
<1>7. WorkOk' /\ work'.op = "job" /\ work'.phase = "decide"
      /\ work'.stage = work.stage + 1 /\ work'.mem = saved
  BY <1>1, <1>2, <1>6, BundleAdvances
<1> HIDE DEF k, p
<1>8. \A s \in FileNames \ Makes(k) : p # <<s>>
  BY <1>4 DEF LayerPaths
<1>9. ProgressInv'
  <2>1. SUFFICES ASSUME misread = {}
                 PROVE  /\ \A j \in 1 .. 10 : j < work.stage =>
                             CurrentIn(files', saved, Bundle!Stages[j])
                        /\ CurrentIn(files', saved, k)
    BY <1>1, <1>2, <1>4, <1>7, BundleAdvanced DEF k
  <2>2. /\ \A j \in 1 .. 10 : j < work.stage => CurrentIn(files, saved, Bundle!Stages[j])
        /\ CurrentIn(files, saved, k)
    BY <1>1, <1>2, <1>3, <2>1 DEF BundleInv, ProgressInv, WriteInv
  <2>3. \A j \in 1 .. 10 : j < work.stage => CurrentIn(files', saved, Bundle!Stages[j])
    BY <1>1, <1>3, <1>4, <1>5, <1>8, <2>2, BundleFileFrame
  <2>4. files'[Bundle!PathOf(saved, k)] = files[Bundle!PathOf(saved, k)]
    <3>1. Bundle!PathOf(saved, k) \in BundlePaths
      BY <1>4, <1>5, BundleHasPaths DEF Bundle!PathOf
    <3> QED
      BY <1>1, <1>4, <1>5, <3>1
  <2>5. NewRecordIn(files', saved, k) = NewRecordIn(files, saved, k)
    BY <1>4, <2>4 DEF NewRecordIn, ParametersIn
  <2>6. CurrentIn(files', saved, k)
    BY <1>4, <2>2, <2>5 DEF CurrentIn
  <2> QED
    BY <2>3, <2>6
<1>10. /\ p # <<"playback">> /\ \A i : p # <<"ext", i>>
       /\ \A v \in 1 .. Bundle!Latest(saved) : p # <<"minutes", v>>
       /\ \A t \in {"audio", "own", "slides"} : p # <<t>>
  BY <1>4 DEF LayerPaths
<1>11. /\ \A t \in {"audio", "slides"} :
            p = <<t>> => Bundle!Absent \in {Bundle!Absent, FixedMade(t)}
       /\ \A t \in {"audio", "own"} : p = <<t>> => Bundle!Absent # Bundle!Absent
       /\ work'.phase # "record"
  BY <1>7, <1>10
<1> QED
  BY <1>1, <1>7, <1>9, <1>10, <1>11, BundleFile, ZenonT(30)

-----------------------------------------------------------------------------
(* The version that was written is listed. *)
LEMMA BundleAppend ==
  ASSUME NEW v, v \in Seq(Bundle!Range(v)), NEW x
  PROVE  /\ Append(v, x) \in Seq(Bundle!Range(Append(v, x)))
         /\ Len(Append(v, x)) = Len(v) + 1 /\ Append(v, x)[Len(v) + 1] = x
         /\ \A i \in 1 .. Len(v) : Append(v, x)[i] = v[i]
<1> DEFINE w == Append(v, x)
<1>1. w \in Seq(Bundle!Range(v) \cup {x}) /\ Len(w) = Len(v) + 1 /\ w[Len(v) + 1] = x
      /\ \A i \in 1 .. Len(v) : w[i] = v[i]
  OBVIOUS
<1>2. \A i \in 1 .. Len(w) : w[i] \in Bundle!Range(w)
  BY <1>1 DEF Bundle!Range
<1>3. w \in Seq(Bundle!Range(w))
  BY <1>1, <1>2
<1> QED
  BY <1>1, <1>3

LEMMA BundlePublish ==
  ASSUME BundleInv, Bundle!Publish
  PROVE  BundleInv'
<1> DEFINE top == Bundle!Latest(saved) + 1
           text == files[<<"minutes", top>>]
<1>1. /\ work.op = "job" /\ work.phase = "publish" /\ BundleShape
      /\ UNCHANGED <<files, media, misread, upToDate, edits, stops>>
  BY DEF BundleInv, Bundle!Publish, Bundle!Job, Bundle!Bounds
<1>2. JobOk /\ work.stage < 12 /\ work.mem = saved
  BY <1>1 DEF BundleShape, WorkOk, JobOk
<1>3. Bundle!K = Bundle!Stages[work.stage] /\ work.stage \in 1 .. 11
  BY <1>1, <1>2, BundleAt
<1>4. Bundle!K = "minutes" /\ work.stage = 11
  BY <1>1, <1>2, <1>3, BundleStageIs DEF JobOk
<1>5. PICK m : m = [saved EXCEPT !.versions = Append(@, text)]
  OBVIOUS
<1>6. saved' = m /\ Bundle!Advance(m)
  BY <1>2, <1>5 DEF Bundle!Publish, Bundle!Mem, Bundle!Minutes
<1>7. ManifestOk(saved) /\ saved.versions \in Seq(Bundle!Range(saved.versions))
      /\ Bundle!Latest(saved) \in Nat /\ Bundle!Latest(saved) < MaxVersions
  BY <1>1, <1>2, BundleAt DEF BundleShape, ManifestOk, Bundle!Latest
<1>8. /\ m.settings = saved.settings /\ m.versions = Append(saved.versions, text)
      /\ m.discarded = saved.discarded /\ m.contexts = saved.contexts
      /\ m.records = saved.records
  BY <1>5, <1>7 DEF ManifestOk
<1>9. Bundle!Latest(m) = top
  BY <1>7, <1>8, BundleAppend DEF Bundle!Latest
<1>10. ManifestOk(m)
  <2>1. m = [records |-> m.records, versions |-> m.versions, settings |-> m.settings,
             status |-> m.status, discarded |-> m.discarded, contexts |-> m.contexts]
    BY <1>5, <1>7 DEF ManifestOk
  <2>2. m.versions \in Seq(Bundle!Range(m.versions))
    BY <1>7, <1>8, BundleAppend
  <2>3. Len(m.versions) <= MaxVersions
    BY <1>7, <1>9, PipelineAssumption DEF Bundle!Latest, Bundle!BundleAssumption
  <2> QED
    BY <1>7, <1>8, <2>1, <2>2, <2>3 DEF ManifestOk
<1>11. WorkOk' /\ work'.op = "job" /\ work'.phase = "decide"
       /\ work'.stage = work.stage + 1 /\ work'.mem = m
  BY <1>1, <1>2, <1>4, <1>6, BundleAdvances
<1>12. SameBut({}, files, saved, files, m)
  BY <1>7, <1>8 DEF SameBut, ManifestOk, Bundle!Recorded, Bundle!RecordOf, Bundle!External
<1>13. ProgressInv'
  <2>1. SUFFICES ASSUME misread = {}
                 PROVE  /\ \A j \in 1 .. 10 : j < work.stage =>
                             CurrentIn(files, m, Bundle!Stages[j])
                        /\ Bundle!Latest(m) > 0 /\ MinutesIn(files, m, Bundle!Latest(m))
    BY <1>1, <1>2, <1>4, <1>11, BundleAdvanced
  <2>2. /\ \A j \in 1 .. 10 : j < work.stage => CurrentIn(files, saved, Bundle!Stages[j])
        /\ MinutesIn(files, saved, top)
    BY <1>1, <1>2, <1>3, <2>1 DEF BundleInv, ProgressInv, WriteInv
  <2>3. \A j \in 1 .. 10 : j < work.stage => CurrentIn(files, m, Bundle!Stages[j])
    BY <1>3, <1>12, <2>2, BundleOrder, BundleFrame
  <2>4. \A n : MinutesIn(files, saved, n) <=> MinutesIn(files, m, n)
    <3>1. \A key : Bundle!RecordOf(m, key) = Bundle!RecordOf(saved, key)
      BY <1>8 DEF Bundle!RecordOf
    <3>2. {} \cap {"merged", "slides", "brief"} = {}
      OBVIOUS
    <3> QED
      BY <1>12, <3>1, <3>2, BundleMinutesFrame
  <2> QED
    BY <1>7, <1>9, <2>2, <2>3, <2>4
<1>14. Bundle!VersionsStay'
  <2>1. \A i \in 1 .. top : i \in 1 .. Bundle!Latest(saved) \/ i = top
    BY <1>7
  <2>2. \A i \in 1 .. Bundle!Latest(saved) : files[<<"minutes", i>>] = saved.versions[i]
    <3>1. Bundle!VersionsStay
      BY DEF BundleInv
    <3> QED
      BY <3>1 DEF Bundle!VersionsStay, Bundle!Minutes
  <2>3. /\ m.versions[top] = files[<<"minutes", top>>]
        /\ \A i \in 1 .. Bundle!Latest(saved) : m.versions[i] = saved.versions[i]
    BY <1>7, <1>8, BundleAppend DEF Bundle!Latest
  <2> HIDE DEF top
  <2>4. \A i \in 1 .. top : files[<<"minutes", i>>] = m.versions[i]
    BY <2>1, <2>2, <2>3
  <2>5. files' = files /\ saved' = m /\ Bundle!Latest(m) = top
    BY <1>1, <1>6, <1>9
  <2> QED
    BY <2>4, <2>5 DEF Bundle!VersionsStay, Bundle!Minutes
<1>15. Bundle!MadeOfItsInputs'
  BY <1>1, <1>6, <1>8 DEF BundleInv, Bundle!MadeOfItsInputs
<1>16. /\ Bundle!External(m) = Bundle!External(saved)
       /\ \A key \in Bundle!External(saved) : m.records[key] = saved.records[key]
       /\ \A k : Bundle!Recorded(m, k) <=> Bundle!Recorded(saved, k)
  BY <1>8 DEF Bundle!External, Bundle!Recorded
<1>17. /\ \A k \in {"audio", "own"} : Bundle!Recorded(m, k) => files[<<k>>] # Bundle!Absent
       /\ Bundle!Recorded(m, "own") => Bundle!Recorded(m, "audio")
       /\ \A k \in {"audio", "slides"} :
            Bundle!Recorded(m, k) => m.records[<<k>>].made = FixedMade(k)
  BY <1>8, <1>16 DEF BundleInv, WordsInv, FixedInv
<1>18. /\ stops' \in Nat /\ edits' \in 0 .. MaxEdits /\ edits <= edits'
       /\ ReadyInv' /\ ~upToDate'
  BY <1>1 DEF BundleShape, ReadyInv
<1> HIDE DEF text, top
<1> QED
  BY <1>1, <1>6, <1>8, <1>10, <1>11, <1>13, <1>14, <1>15, <1>16, <1>17, <1>18, BundleSaves

-----------------------------------------------------------------------------
(* A job records what a stage has made. *)
LEMMA BundleSaveFacts ==
  ASSUME BundleInv, Bundle!Save
  PROVE  /\ work.op = "job" /\ work.phase = "record" /\ work.stage < 12 /\ work.mem = saved
         /\ BundleShape /\ JobOk
         /\ ~Bundle!Kept(saved, Bundle!K) /\ ~Bundle!NotWanted(saved, Bundle!K)
         /\ misread = {} => /\ \A j \in 1 .. 10 : j < work.stage =>
                                 CurrentIn(files, saved, Bundle!Stages[j])
                            /\ WriteInv(saved, Bundle!K)
         /\ UNCHANGED <<files, media, misread, upToDate, edits, stops>>
<1>1. /\ work.op = "job" /\ work.phase = "record" /\ BundleShape
      /\ UNCHANGED <<files, media, misread, upToDate, edits, stops>>
  BY DEF BundleInv, Bundle!Save, Bundle!Job, Bundle!Bounds
<1>2. JobOk /\ work.stage < 12 /\ work.mem = saved
  BY <1>1 DEF BundleShape, WorkOk, JobOk
<1>3. Bundle!K = Bundle!Stages[work.stage] /\ work.stage \in 1 .. 11
  BY <1>1, <1>2, BundleAt
<1>4. ~Bundle!Kept(saved, Bundle!K) /\ ~Bundle!NotWanted(saved, Bundle!K)
  BY <1>1, <1>2, <1>3 DEF JobOk
<1>5. misread = {} => /\ \A j \in 1 .. 10 : j < work.stage =>
                           CurrentIn(files, saved, Bundle!Stages[j])
                      /\ WriteInv(saved, Bundle!K)
  BY <1>1, <1>2, <1>3 DEF BundleInv, ProgressInv
<1> QED
  BY <1>1, <1>2, <1>4, <1>5

(* The manifest with a new record. *)
With(m, k) ==
  [m EXCEPT !.records = Bundle!Put(@, Bundle!KeyOf(m, k), Bundle!NewRecord(m, k))]

LEMMA BundleWith ==
  ASSUME BundleShape, NEW k \in StageNames \cup {"minutes"}, NEW m, m = With(saved, k)
  PROVE  /\ ManifestOk(m)
         /\ m.settings = saved.settings /\ m.versions = saved.versions
         /\ m.discarded = saved.discarded /\ m.contexts = saved.contexts
         /\ DOMAIN m.records = DOMAIN saved.records \cup {Bundle!KeyOf(saved, k)}
         /\ m.records[Bundle!KeyOf(saved, k)] = Bundle!NewRecord(saved, k)
         /\ \A key \in DOMAIN saved.records : key # Bundle!KeyOf(saved, k) =>
              m.records[key] = saved.records[key]
         /\ SameBut({k}, files, saved, files, m)
<1> DEFINE c == Bundle!KeyOf(saved, k)
           rec == Bundle!NewRecord(saved, k)
<1>1. ManifestOk(saved)
  BY DEF BundleShape
<1>2. m.records = Bundle!Put(saved.records, c, rec)
      /\ m = [records |-> m.records, versions |-> saved.versions, settings |-> saved.settings,
              status |-> saved.status, discarded |-> saved.discarded,
              contexts |-> saved.contexts]
  BY <1>1 DEF ManifestOk, With
<1>3. /\ k \in StageNames => c = <<k>>
      /\ k = "minutes" => c = <<"minutes", Bundle!Latest(saved) + 1>>
  BY DEF Bundle!KeyOf, Bundle!Minutes, StageNames
<1>4. RecordOk(rec, c)
  BY <1>1 DEF RecordOk, Bundle!NewRecord, ManifestOk, LayerPaths, Bundle!PathOf, Bundle!KeyOf,
    Bundle!Minutes, StageNames
<1> HIDE DEF c, rec
<1>5. /\ DOMAIN m.records = DOMAIN saved.records \cup {c}
      /\ m.records[c] = rec
      /\ \A key \in DOMAIN saved.records : key # c => m.records[key] = saved.records[key]
      /\ m.records = [key \in DOMAIN m.records |-> m.records[key]]
  BY <1>2 DEF Bundle!Put
<1>6. ManifestOk(m)
  <2>1. \A key \in DOMAIN m.records : RecordOk(m.records[key], key)
    BY <1>1, <1>4, <1>5 DEF ManifestOk
  <2> QED
    BY <1>1, <1>2, <1>5, <2>1 DEF ManifestOk
<1>7. SameBut({k}, files, saved, files, m)
  <2>1. \A s \in StageNames \ {k} : <<s>> # c
    BY <1>3 DEF StageNames
  <2>2. c[1] # "ext"
    BY <1>3 DEF StageNames
  <2> QED
    BY <1>1, <1>2, <1>5, <2>1, <2>2 DEF ManifestOk, SameBut, Bundle!Recorded, Bundle!RecordOf,
      Bundle!External
<1> QED
  BY <1>2, <1>5, <1>6, <1>7 DEF c, rec

(* A record says what its files were made of. *)
LEMMA BundleSaveMade ==
  ASSUME BundleInv, Bundle!Save, saved' = With(saved, Bundle!K)
  PROVE  Bundle!MadeOfItsInputs'
<1> DEFINE k == Bundle!K
           c == Bundle!KeyOf(saved, k)
           rec == Bundle!NewRecord(saved, k)
<1>1. /\ BundleShape /\ work.op = "job" /\ work.phase = "record" /\ work.stage < 12
      /\ misread = {} => WriteInv(saved, k)
      /\ UNCHANGED misread
  BY BundleSaveFacts
<1>2. k \in StageNames \cup {"minutes"}
  BY <1>1, BundleAt
<1>3. PICK m : m = With(saved, k)
  OBVIOUS
<1>4. /\ DOMAIN m.records = DOMAIN saved.records \cup {c}
      /\ m.records[c] = rec
      /\ \A key \in DOMAIN saved.records : key # c => m.records[key] = saved.records[key]
  BY <1>1, <1>2, <1>3, BundleWith
<1>5. SUFFICES ASSUME misread = {}
               PROVE  /\ rec.made.from = rec.inputs
                      /\ (k = "merged" /\ <<"layer3">> \in DOMAIN rec.inputs)
                           => rec.made.names.from = rec.inputs[<<"layer3">>].from
  <2>1. c[1] = "merged" => k = "merged"
    BY <1>2 DEF Bundle!KeyOf, Bundle!Minutes, StageNames
  <2> HIDE DEF c, rec, k
  <2>2. saved' = m
    BY <1>3 DEF k
  <2> QED
    BY <1>1, <1>4, <1>5, <2>1, <2>2 DEF BundleInv, Bundle!MadeOfItsInputs
<1>6. /\ rec.made = files[Bundle!PathOf(saved, k)] /\ rec.inputs = Bundle!Inputs(saved, k)
  BY DEF Bundle!NewRecord
<1>7. /\ files[Bundle!PathOf(saved, k)].from = Bundle!Inputs(saved, k)
      /\ k = "merged" /\ Bundle!Recorded(saved, "layer3") =>
           files[<<"merged">>].names.from = Bundle!RecordOf(saved, <<"layer3">>).made.from
  BY <1>1, <1>5 DEF WriteInv
<1>8. k = "merged" /\ <<"layer3">> \in DOMAIN Bundle!Inputs(saved, k) =>
        /\ Bundle!Recorded(saved, "layer3") /\ Bundle!PathOf(saved, k) = <<"merged">>
        /\ Bundle!Inputs(saved, k)[<<"layer3">>] = Bundle!RecordOf(saved, <<"layer3">>).made
  <2>1. SUFFICES ASSUME k = "merged", <<"layer3">> \in DOMAIN Bundle!Inputs(saved, k)
                 PROVE  /\ Bundle!Recorded(saved, "layer3")
                        /\ Bundle!PathOf(saved, k) = <<"merged">>
                        /\ Bundle!Inputs(saved, k)[<<"layer3">>]
                           = Bundle!RecordOf(saved, <<"layer3">>).made
    OBVIOUS
  <2>2. Bundle!Inputs(saved, k) = [s \in Bundle!Integrated(saved) |->
                                     Bundle!RecordOf(saved, s).made]
    BY <2>1 DEF Bundle!Inputs, Bundle!HasOutside, Bundle!Sources
  <2>3. <<"layer3">> \in Bundle!Integrated(saved)
    BY <2>1, <2>2
  <2>4. Bundle!Recorded(saved, "layer3")
    BY <2>3 DEF Bundle!Integrated, Bundle!Transcripts, Bundle!Diarizations, Bundle!Among,
      Bundle!External, Bundle!Recorded
  <2> QED
    BY <2>1, <2>2, <2>3, <2>4 DEF Bundle!PathOf, Bundle!KeyOf
<1> QED
  BY <1>6, <1>7, <1>8

(* And is the one its stage would get. *)
LEMMA BundleSaveCurrent ==
  ASSUME BundleInv, Bundle!Save, NEW m, m = With(saved, Bundle!K), misread = {}
  PROVE  /\ \A j \in 1 .. 10 : j < work.stage => CurrentIn(files, m, Bundle!Stages[j])
         /\ Bundle!K # "minutes" => CurrentIn(files, m, Bundle!K)
         /\ Bundle!K = "minutes" => MinutesIn(files, m, Bundle!Latest(m) + 1)
<1> DEFINE k == Bundle!K
           c == Bundle!KeyOf(saved, k)
           rec == Bundle!NewRecord(saved, k)
<1>1. /\ BundleShape /\ work.op = "job" /\ work.phase = "record" /\ work.stage < 12
      /\ ~Bundle!NotWanted(saved, k)
      /\ \A j \in 1 .. 10 : j < work.stage => CurrentIn(files, saved, Bundle!Stages[j])
      /\ WriteInv(saved, k)
  BY BundleSaveFacts
<1>2. k \in StageNames \cup {"minutes"} /\ k = Bundle!Stages[work.stage]
      /\ work.stage \in 1 .. 11
  BY <1>1, BundleAt
<1>3. /\ m.settings = saved.settings /\ m.versions = saved.versions
      /\ c \in DOMAIN m.records /\ m.records[c] = rec
      /\ SameBut({k}, files, saved, files, m)
  BY <1>1, <1>2, BundleWith
<1>4. rec = [inputs |-> Bundle!Inputs(saved, k), params |-> Bundle!Parameters(saved, k),
             path |-> Bundle!PathOf(saved, k), made |-> files[Bundle!PathOf(saved, k)]]
  BY DEF Bundle!NewRecord
<1>5. Bundle!Parameters(saved, k) = ParametersIn(files, saved, k)
  BY DEF Bundle!Parameters, ParametersIn, Bundle!Hints, HintsIn
<1> HIDE DEF k, c, rec
<1>6. \A j \in 1 .. 10 : j < work.stage => CurrentIn(files, m, Bundle!Stages[j])
  <2>1. \A t : {t} \subseteq Makes(t)
    BY DEF Makes
  <2>2. \A j \in 1 .. 10 : j < work.stage => Uses(Bundle!Stages[j]) \cap {k} = {}
                                             /\ Bundle!Stages[j] \in StageNames
    BY <1>2, <2>1, BundleOrder
  <2> QED
    BY <1>1, <1>3, <2>2, BundleFrame
<1>7. Bundle!RecordOf(m, c) = rec
  BY <1>3 DEF Bundle!RecordOf
<1>8. ASSUME k # "minutes"
      PROVE  CurrentIn(files, m, k)
  <2>1. k \in StageNames /\ c = <<k>>
    BY <1>2, <1>8 DEF c, Bundle!KeyOf
  <2>2. /\ Bundle!Inputs(m, k) = Bundle!Inputs(saved, k)
        /\ ParametersIn(files, m, k) = ParametersIn(files, saved, k)
        /\ ~Bundle!NotWanted(m, k)
    BY <1>1, <1>3, <2>1, BundleSourcesFrame
  <2>3. Bundle!PathOf(m, k) = Bundle!PathOf(saved, k)
    BY <1>3, <1>8 DEF Bundle!PathOf, Bundle!KeyOf
  <2>4. Bundle!RecordOf(m, <<k>>) = NewRecordIn(files, m, k)
    BY <1>4, <1>5, <1>7, <2>1, <2>2, <2>3 DEF NewRecordIn
  <2>5. /\ k = "slides" => files[<<"images">>] # Bundle!Absent
        /\ k = "layer3" => files[<<"names">>].from = files[<<"layer3">>].from
    BY <1>1 DEF WriteInv
  <2> QED
    BY <2>2, <2>4, <2>5 DEF CurrentIn
<1>9. ASSUME k = "minutes"
      PROVE  MinutesIn(files, m, Bundle!Latest(m) + 1)
  <2>1. /\ Bundle!Inputs(m, k) = Bundle!Inputs(saved, k)
        /\ ParametersIn(files, m, k) = ParametersIn(files, saved, k)
    <3>1. {k} \cap {"merged", "slides", "brief"} = {}
      BY <1>9
    <3> QED
      BY <1>3, <1>9, <3>1, BundleMinutesInputs
  <2>2. Bundle!Latest(m) = Bundle!Latest(saved)
    BY <1>3 DEF Bundle!Latest
  <2>3. /\ c = <<"minutes", Bundle!Latest(saved) + 1>>
        /\ Bundle!PathOf(saved, k) = <<"minutes", Bundle!Latest(saved) + 1>>
    BY <1>9 DEF c, Bundle!PathOf, Bundle!KeyOf, Bundle!Minutes
  <2> QED
    BY <1>4, <1>5, <1>7, <1>9, <2>1, <2>2, <2>3 DEF MinutesIn
<1> QED
  BY <1>6, <1>8, <1>9 DEF k
LEMMA BundleSave ==
  ASSUME BundleInv, Bundle!Save
  PROVE  BundleInv'
<1> DEFINE k == Bundle!K
           before == Bundle!RecordOf(saved, <<"layer2">>)
           c == Bundle!KeyOf(saved, k)
           rec == Bundle!NewRecord(saved, k)
<1>1. /\ BundleShape /\ JobOk /\ work.op = "job" /\ work.phase = "record" /\ work.stage < 12
      /\ work.mem = saved
      /\ ~Bundle!Kept(saved, k) /\ ~Bundle!NotWanted(saved, k)
      /\ UNCHANGED <<files, media, misread, upToDate, edits, stops>>
  BY BundleSaveFacts
<1>2. k \in StageNames \cup {"minutes"} /\ k = Bundle!Stages[work.stage]
      /\ work.stage \in 1 .. 11 /\ (k = "minutes" <=> work.stage = 11)
  BY <1>1, BundleAt
<1>3. PICK m : m = With(saved, k)
  OBVIOUS
<1>4. /\ saved' = m
      /\ CASE k = "minutes" -> Bundle!Goto("publish", 0, m)
           [] k = "layer2" /\ before # Bundle!NoRecord
              /\ before.path # Bundle!PathOf(saved, k) ->
                work' = [work EXCEPT !.phase = "unlink", !.mem = m, !.old = before.path]
           [] OTHER -> Bundle!Advance(m)
  <2>1. k = "layer2" => Bundle!PathOf(m, k) = Bundle!PathOf(saved, k)
    BY <1>1, <1>2, <1>3, BundleWith DEF Bundle!PathOf
  <2> QED
    BY <1>1, <1>3, <2>1 DEF Bundle!Save, Bundle!Mem, With
<1>5. /\ ManifestOk(m) /\ m.settings = saved.settings /\ m.versions = saved.versions
      /\ m.discarded = saved.discarded /\ m.contexts = saved.contexts
      /\ DOMAIN m.records = DOMAIN saved.records \cup {c} /\ m.records[c] = rec
      /\ \A key \in DOMAIN saved.records : key # c => m.records[key] = saved.records[key]
      /\ SameBut({k}, files, saved, files, m)
  BY <1>1, <1>2, <1>3, BundleWith, ZenonT(60)
<1>6. misread = {} =>
        /\ \A j \in 1 .. 10 : j < work.stage => CurrentIn(files, m, Bundle!Stages[j])
        /\ k # "minutes" => CurrentIn(files, m, k)
        /\ k = "minutes" => MinutesIn(files, m, Bundle!Latest(m) + 1)
  BY <1>3, BundleSaveCurrent
<1>7. ~Bundle!Kept(m, k) /\ ~Bundle!NotWanted(m, k)
  <2>1. CASE k = "minutes"
    BY <2>1 DEF Bundle!Kept, Bundle!NotWanted
  <2>2. CASE k # "minutes"
    BY <1>1, <1>2, <1>5, <2>2, BundleSourcesFrame
  <2> QED
    BY <2>1, <2>2
<1>8. /\ k \in StageNames => c = <<k>>
      /\ k = "minutes" => c = <<"minutes", Bundle!Latest(saved) + 1>>
  BY DEF Bundle!KeyOf, Bundle!Minutes, StageNames
<1>9. rec.made = files[Bundle!PathOf(saved, k)]
  BY DEF Bundle!NewRecord
<1> HIDE DEF k, c, rec, before
<1>10. WorkOk' /\ work'.op = "job" /\ work'.phase # "record" /\ ProgressInv'
  <2>1. CASE k = "minutes"
    <3>1. Bundle!Goto("publish", 0, m)
      BY <1>4, <2>1
    <3>2. work' = [op |-> "job", force |-> work.force, stage |-> work.stage,
                   phase |-> "publish", n |-> 0, mem |-> m, prior |-> work.prior,
                   old |-> work.old]
      BY <1>1, <3>1, BundleGoesTo
    <3>3. Bundle!KeyOf(m, k) = c
      BY <1>5 DEF c, Bundle!KeyOf, Bundle!Latest
    <3>4. Len(m.versions) < MaxVersions
      BY <1>1, <1>5 DEF JobOk
    <3>5. JobOk'
      BY <1>1, <1>2, <1>4, <1>5, <1>7, <2>1, <3>2, <3>3, <3>4 DEF JobOk
    <3>6. ProgressInv'
      BY <1>1, <1>2, <1>6, <2>1, <3>2 DEF ProgressInv, WriteInv
    <3> QED
      BY <3>2, <3>5, <3>6 DEF WorkOk
  <2>2. CASE k = "layer2" /\ before # Bundle!NoRecord
             /\ before.path # Bundle!PathOf(saved, k)
    <3>1. work' = [work EXCEPT !.phase = "unlink", !.mem = m, !.old = before.path]
      BY <1>4, <2>2
    <3>2. work' = [op |-> "job", force |-> work.force, stage |-> work.stage,
                   phase |-> "unlink", n |-> work.n, mem |-> m, prior |-> work.prior,
                   old |-> before.path]
      <4> DEFINE w == [op |-> "job", force |-> work.force, stage |-> work.stage,
                       phase |-> "unlink", n |-> work.n, mem |-> m, prior |-> work.prior,
                       old |-> before.path]
      <4>1. /\ DOMAIN work = {"op", "force", "stage", "phase", "n", "mem", "prior", "old"}
            /\ work.op = "job"
        BY <1>1 DEF JobOk
      <4>2. DOMAIN w = DOMAIN work'
        BY <3>1, <4>1
      <4>3. \A x \in DOMAIN w : w[x] = work'[x]
        BY <3>1, <4>1
      <4>4. w = [x \in DOMAIN w |-> w[x]] /\ work' = [x \in DOMAIN work' |-> work'[x]]
        BY <3>1, <4>1
      <4> QED
        BY <4>2, <4>3, <4>4
    <3>3. before.path \in LayerPaths
      BY <1>1, <2>2 DEF before, Bundle!RecordOf, BundleShape, ManifestOk, RecordOk
    <3>4. Bundle!PathOf(m, k) = Bundle!PathOf(saved, k)
      BY <1>5, <2>2 DEF Bundle!PathOf
    <3>5. Len(m.versions) < MaxVersions
      BY <1>1, <1>5 DEF JobOk
    <3>6. JobOk'
      BY <1>1, <1>2, <1>4, <1>7, <2>2, <3>2, <3>3, <3>4, <3>5 DEF JobOk
    <3>7. ProgressInv'
      <4>1. /\ work'.phase = "unlink" /\ work'.stage = work.stage /\ work'.mem = m
            /\ work.stage # 12
        BY <1>1, <3>2
      <4>2. SUFFICES ASSUME misread = {}
                     PROVE  WriteInv(work.mem, Bundle!Stages[work.stage])'
        BY <1>1, <1>6, <4>1 DEF ProgressInv
      <4>3. CurrentIn(files', m, k) /\ k = "layer2"
        BY <1>1, <1>6, <2>2, <4>2
      <4> QED
        BY <1>2, <4>1, <4>3 DEF WriteInv
    <3> QED
      BY <3>2, <3>6, <3>7 DEF WorkOk
  <2>3. CASE k # "minutes" /\ ~(k = "layer2" /\ before # Bundle!NoRecord
                                 /\ before.path # Bundle!PathOf(saved, k))
    <3>1. Bundle!Advance(m)
      BY <1>4, <2>3
    <3>2. WorkOk' /\ work'.op = "job" /\ work'.phase = "decide"
          /\ work'.stage = work.stage + 1 /\ work'.mem = m
      BY <1>1, <1>4, <1>5, <3>1, BundleAdvances
    <3>3. ProgressInv'
      BY <1>1, <1>6, <2>3, <3>2, BundleAdvanced DEF k
    <3> QED
      BY <3>2, <3>3
  <2> QED
    BY <2>1, <2>2, <2>3
<1>11. /\ Bundle!External(m) = Bundle!External(saved)
       /\ \A key \in Bundle!External(saved) : m.records[key] = saved.records[key]
  <2>1. c[1] # "ext"
    BY <1>2, <1>8 DEF StageNames
  <2> QED
    BY <1>5, <2>1 DEF Bundle!External
<1>12. /\ c # <<"playback">>
       /\ \A s \in {"audio", "own", "slides"} : c = <<s>> <=> k = s
  BY <1>2, <1>8 DEF StageNames
<1>13. /\ Bundle!Recorded(m, "playback") <=> Bundle!Recorded(saved, "playback")
       /\ \A s \in {"audio", "own", "slides"} :
            Bundle!Recorded(m, s) <=> Bundle!Recorded(saved, s) \/ k = s
  BY <1>5, <1>12 DEF Bundle!Recorded
<1>14. /\ k = "own" => Bundle!Recorded(saved, "audio")
       /\ k \in {"own", "audio"} => files[<<k>>] # Bundle!Absent
       /\ k \in {"audio", "slides"} => files[<<k>>] = FixedMade(k)
  BY <1>1 DEF k, BundleInv, WordsInv, FixedInv
<1>15. /\ \A s \in {"audio", "own"} : Bundle!Recorded(m, s) => files[<<s>>] # Bundle!Absent
       /\ Bundle!Recorded(m, "own") => Bundle!Recorded(m, "audio")
  BY <1>13, <1>14 DEF BundleInv, WordsInv
<1>16. \A s \in {"audio", "slides"} : Bundle!Recorded(m, s) => m.records[<<s>>].made = FixedMade(s)
  <2>1. \A s \in {"audio", "slides"} : k = s => m.records[<<s>>].made = FixedMade(s)
    BY <1>5, <1>9, <1>12, <1>14 DEF Bundle!PathOf, Bundle!KeyOf
  <2>2. \A s \in {"audio", "slides"} : k # s /\ Bundle!Recorded(saved, s) =>
          m.records[<<s>>].made = FixedMade(s)
    BY <1>5, <1>12 DEF Bundle!Recorded, BundleInv, FixedInv
  <2> QED
    BY <1>13, <2>1, <2>2
<1>17. Bundle!VersionsStay' /\ Bundle!MadeOfItsInputs'
  <2>1. Bundle!MadeOfItsInputs'
    BY <1>3, <1>4, BundleSaveMade DEF k
  <2>2. Bundle!VersionsStay'
    BY <1>1, <1>4, <1>5 DEF BundleInv, Bundle!VersionsStay, Bundle!Latest, Bundle!Minutes
  <2> QED
    BY <2>1, <2>2
<1>18. /\ stops' \in Nat /\ edits' \in 0 .. MaxEdits /\ edits <= edits'
       /\ ReadyInv' /\ ~upToDate'
  BY <1>1 DEF BundleShape, ReadyInv
<1> QED
  BY <1>1, <1>4, <1>5, <1>10, <1>11, <1>13, <1>15, <1>16, <1>17, <1>18, BundleSaves
-----------------------------------------------------------------------------
(* The start of a job, and the calls between the jobs. *)
LEMMA BundleIdle ==
  ASSUME BundleInv, Bundle!Idle
  PROVE  BundleShape /\ work.op = "none" /\ ManifestOk(saved) /\ edits \in Nat /\ stops \in Nat
BY DEF BundleInv, BundleShape, Bundle!Idle

LEMMA BundleSavesSame ==
  ASSUME BundleInv, work.op = "none", NEW m, saved' = m, ManifestOk(m),
         m.records = saved.records, m.versions = saved.versions,
         m.discarded = saved.discarded,
         UNCHANGED <<files, media, misread, stops>>, edits' \in 0 .. MaxEdits, edits <= edits',
         WorkOk', work'.op \in {"none", "job"}, work'.op = "job" => work'.phase # "record",
         ProgressInv', ~upToDate'
  PROVE  BundleInv'
<1>1. /\ BundleShape /\ WordsInv /\ FixedInv /\ Bundle!VersionsStay /\ Bundle!MadeOfItsInputs
      /\ stops \in Nat
  BY DEF BundleInv, BundleShape
<1>2. /\ Bundle!External(m) = Bundle!External(saved)
      /\ \A key \in Bundle!External(saved) : m.records[key] = saved.records[key]
      /\ \A k : Bundle!Recorded(m, k) <=> Bundle!Recorded(saved, k)
  BY DEF Bundle!External, Bundle!Recorded
<1>3. /\ \A k \in {"audio", "own"} : Bundle!Recorded(m, k) => files[<<k>>] # Bundle!Absent
      /\ Bundle!Recorded(m, "own") => Bundle!Recorded(m, "audio")
      /\ \A k \in {"audio", "slides"} :
           Bundle!Recorded(m, k) => m.records[<<k>>].made = FixedMade(k)
  BY <1>1, <1>2 DEF WordsInv, FixedInv
<1>4. Bundle!VersionsStay' /\ Bundle!MadeOfItsInputs' /\ ReadyInv'
  BY <1>1 DEF Bundle!VersionsStay, Bundle!MadeOfItsInputs, Bundle!Latest, Bundle!Minutes, ReadyInv
<1> QED
  BY <1>1, <1>2, <1>3, <1>4, BundleSaves

LEMMA BundleStartJob ==
  ASSUME BundleInv, NEW force, Bundle!StartJob(force)
  PROVE  BundleInv'
<1>1. /\ Bundle!Idle /\ Bundle!Latest(saved) < MaxVersions
      /\ UNCHANGED <<files, media, misread, edits, stops>> /\ ~upToDate'
  BY DEF Bundle!StartJob, Bundle!Bounds
<1>2. PICK m : m = [saved EXCEPT !.status = "processing"]
  OBVIOUS
<1>3. /\ saved' = m
      /\ work' = [op |-> "job", force |-> force, stage |-> 1, phase |-> "decide", n |-> 0,
                  mem |-> m, prior |-> saved.status, old |-> <<"none">>]
  BY <1>2 DEF Bundle!StartJob
<1>4. BundleShape /\ work.op = "none" /\ ManifestOk(saved)
  BY <1>1, BundleIdle
<1>5. /\ ManifestOk(m) /\ m.records = saved.records /\ m.versions = saved.versions
      /\ m.discarded = saved.discarded
  BY <1>2, <1>4 DEF ManifestOk, RecordOk
<1>6. JobOk' /\ work'.op = "job" /\ work'.phase = "decide" /\ work'.stage = 1
  BY <1>1, <1>3, <1>5 DEF JobOk, Bundle!Latest
<1>7. ProgressInv'
  BY <1>6 DEF ProgressInv, WriteInv
<1>8. edits' \in 0 .. MaxEdits /\ edits <= edits'
  BY <1>1, <1>4 DEF BundleShape
<1> QED
  BY <1>1, <1>3, <1>4, <1>5, <1>6, <1>7, <1>8, BundleSavesSame DEF WorkOk

LEMMA BundleEdit ==
  ASSUME BundleInv, Bundle!Edit
  PROVE  /\ edits' = edits + 1 /\ edits \in Nat /\ edits' \in 0 .. MaxEdits /\ edits <= edits'
         /\ edits' > 0 /\ \A i \in 1 .. edits : i \in 1 .. edits'
BY PipelineAssumption DEF BundleInv, BundleShape, Bundle!Edit, Bundle!BundleAssumption

LEMMA BundleSetConfig ==
  ASSUME BundleInv, NEW s \in Settings, Bundle!SetConfig(s)
  PROVE  BundleInv'
<1>1. /\ Bundle!Idle /\ Bundle!Edit /\ UNCHANGED <<files, media, work, misread, stops>>
      /\ ~upToDate'
  BY DEF Bundle!SetConfig
<1>2. PICK m : m = [saved EXCEPT !.settings = s]
  OBVIOUS
<1>3. saved' = m
  BY <1>2 DEF Bundle!SetConfig
<1>4. BundleShape /\ work.op = "none" /\ ManifestOk(saved)
  BY <1>1, BundleIdle
<1>5. /\ ManifestOk(m) /\ m.records = saved.records /\ m.versions = saved.versions
      /\ m.discarded = saved.discarded
  BY <1>2, <1>4 DEF ManifestOk, RecordOk
<1>6. WorkOk' /\ work'.op = "none" /\ ProgressInv'
  BY <1>1, <1>4 DEF BundleShape, WorkOk, ProgressInv
<1> QED
  BY <1>1, <1>3, <1>4, <1>5, <1>6, BundleEdit, BundleSavesSame

(* What a call that only begins leaves as it is. *)
LEMMA BundleCallBegins ==
  ASSUME BundleInv, UNCHANGED <<saved, files, media, misread, stops>>, work.op = "none",
         WorkOk', edits' \in 0 .. MaxEdits, \A i \in 1 .. edits : i \in 1 .. edits',
         work'.op \in {"context", "discard", "playback"},
         upToDate' => upToDate /\ work'.op = "playback",
         work'.op = "discard" =>
           /\ work'.phase = "playback"
           /\ <<"system">> \in work'.tracks => Bundle!Recorded(saved, "own"),
         work'.op = "context" =>
           work'.phase = "write" /\ <<"ext", work'.id>> \notin DOMAIN saved.records
  PROVE  BundleInv'
<1>1. /\ BundleShape /\ FixedInv /\ WordsInv /\ ExtInv /\ PlaybackInv /\ ReadyInv
      /\ Bundle!VersionsStay /\ Bundle!MadeOfItsInputs
  BY DEF BundleInv
<1>2. BundleShape'
  BY <1>1 DEF BundleShape, ManifestOk, RecordOk
<1>3. FixedInv'
  BY <1>1 DEF FixedInv, FixedMade, Bundle!Recorded, Bundle!Outside
<1>4. WordsInv'
  BY <1>1 DEF WordsInv, Bundle!Recorded
<1>5. ExtInv'
  BY <1>1 DEF ExtInv, Bundle!External
<1>6. PlaybackInv' /\ ProgressInv'
  BY <1>1 DEF PlaybackInv, ProgressInv, Bundle!Recorded
<1>7. ReadyInv' /\ Bundle!VersionsStay' /\ Bundle!MadeOfItsInputs'
  BY <1>1 DEF ReadyInv, Bundle!VersionsStay, Bundle!MadeOfItsInputs, Bundle!Latest, Bundle!Minutes
<1> QED
  BY <1>2, <1>3, <1>4, <1>5, <1>6, <1>7 DEF BundleInv

LEMMA BundleRegisterContext ==
  ASSUME BundleInv, Bundle!RegisterContext
  PROVE  BundleInv'
<1>1. /\ Bundle!Idle /\ Bundle!Edit /\ UNCHANGED <<saved, files, media, misread, stops>>
      /\ work' = [op |-> "context", phase |-> "write", id |-> edits + 1] /\ ~upToDate'
  BY DEF Bundle!RegisterContext
<1>2. /\ edits' = edits + 1 /\ edits \in Nat /\ edits' \in 0 .. MaxEdits /\ edits <= edits'
      /\ edits' > 0 /\ \A i \in 1 .. edits : i \in 1 .. edits'
  BY <1>1, BundleEdit
<1>3. WorkOk' /\ work'.op = "context" /\ work'.phase = "write" /\ work'.id = edits + 1
  BY <1>1, <1>2 DEF WorkOk
<1>4. <<"ext", edits + 1>> \notin DOMAIN saved.records
  <2>1. SUFFICES ASSUME <<"ext", edits + 1>> \in DOMAIN saved.records PROVE FALSE
    OBVIOUS
  <2>2. PICK i \in 1 .. edits : <<"ext", edits + 1>> = <<"ext", i>>
    BY <2>1 DEF BundleInv, ExtInv, Bundle!External
  <2> QED
    BY <1>2, <2>2
<1> QED
  BY <1>1, <1>2, <1>3, <1>4, BundleIdle, BundleCallBegins

LEMMA BundleDiscardTracks ==
  ASSUME BundleInv, NEW asked \in SUBSET Bundle!Tracks, Bundle!DiscardTracks(asked)
  PROVE  BundleInv'
<1> DEFINE left == asked \ saved.discarded
<1>1. /\ Bundle!Idle /\ Bundle!Edit /\ UNCHANGED <<saved, files, media, misread, stops>>
      /\ work' = [op |-> "discard", phase |-> "playback", left |-> left, tracks |-> left]
      /\ ~upToDate' /\ (<<"system">> \in left => Bundle!Recorded(saved, "own"))
  BY DEF Bundle!DiscardTracks
<1>2. left \subseteq Bundle!Tracks
  OBVIOUS
<1> HIDE DEF left
<1>3. /\ WorkOk' /\ work'.op = "discard" /\ work'.phase = "playback" /\ work'.tracks = left
  BY <1>1, <1>2 DEF WorkOk
<1> QED
  BY <1>1, <1>3, BundleEdit, BundleIdle, BundleCallBegins

LEMMA BundlePreparePlayback ==
  ASSUME BundleInv, Bundle!PreparePlayback
  PROVE  BundleInv'
<1>1. /\ Bundle!Idle /\ saved.discarded = {}
      /\ UNCHANGED <<saved, files, media, misread, upToDate, edits, stops>>
      /\ work' = [op |-> "playback", phase |-> "write"]
  BY DEF Bundle!PreparePlayback, Bundle!Bounds
<1>2. WorkOk' /\ work'.op = "playback"
  BY <1>1 DEF WorkOk
<1>3. edits' \in 0 .. MaxEdits /\ \A i \in 1 .. edits : i \in 1 .. edits'
  BY <1>1 DEF BundleInv, BundleShape
<1> QED
  BY <1>1, <1>2, <1>3, BundleIdle, BundleCallBegins
-----------------------------------------------------------------------------
(* The steps of those calls. *)
LEMMA BundleExtIn ==
  ASSUME BundleShape, NEW i \in 1 .. edits
  PROVE  <<"ext", i>> \in BundlePaths
<1>1. i \in 1 .. MaxEdits
  BY PipelineAssumption DEF BundleShape, Bundle!BundleAssumption
<1> QED
  BY <1>1, BundleHasPaths

LEMMA BundleVersionIn ==
  ASSUME BundleShape, NEW v \in 1 .. Bundle!Latest(saved)
  PROVE  <<"minutes", v>> \in BundlePaths
<1>1. Bundle!Latest(saved) \in Nat /\ Bundle!Latest(saved) <= MaxVersions
  BY DEF BundleShape, ManifestOk, Bundle!Latest
<1>2. v \in 1 .. MaxVersions
  BY <1>1, PipelineAssumption DEF Bundle!BundleAssumption
<1> QED
  BY <1>2, BundleHasPaths

(* A call writes or removes a file that no stage reads yet. *)
LEMMA BundleCallFile ==
  ASSUME BundleInv, UNCHANGED <<saved, media, misread, upToDate, edits, stops>>,
         work.op # "job", work'.op # "job", WorkOk',
         work'.op = "discard" => work.op = "discard" /\ work'.tracks = work.tracks,
         upToDate' => work'.op \in {"none", "playback"},
         NEW p, NEW x, files' = [files EXCEPT ![p] = x],
         \/ p = <<"playback">>
         \/ p \notin DOMAIN saved.records /\ ~upToDate /\ \E i : p = <<"ext", i>>,
         work'.op = "context" /\ work'.phase \in {"write", "record"} =>
           <<"ext", work'.id>> \notin DOMAIN saved.records,
         work'.op = "context" /\ work'.phase = "record" =>
           files'[<<"ext", work'.id>>] # Bundle!Absent,
         PlaybackInv'
  PROVE  BundleInv'
<1>1. /\ BundleShape /\ FixedInv /\ WordsInv /\ ExtInv /\ ReadyInv /\ ManifestOk(saved)
      /\ Bundle!VersionsStay /\ Bundle!MadeOfItsInputs
  BY DEF BundleInv, BundleShape
<1>2. \A q \in BundlePaths : q # p => files'[q] = files[q]
  BY <1>1 DEF BundleShape
<1>3. BundleShape'
  BY <1>1 DEF BundleShape, ManifestOk, RecordOk
<1>4. \A k \in FileNames \ {"playback"} : files'[<<k>>] = files[<<k>>]
  <2>1. SUFFICES ASSUME NEW k \in FileNames \ {"playback"}
                 PROVE  files'[<<k>>] = files[<<k>>]
    OBVIOUS
  <2>2. <<k>> \in BundlePaths
    BY BundleHasPaths
  <2>3. <<k>> # p
    OBVIOUS
  <2> QED
    BY <1>2, <2>2, <2>3
<1>5. FixedInv'
  <2>1. \A k \in {"audio", "slides"} : FixedMade(k)' = FixedMade(k)
    BY DEF FixedMade, Bundle!Outside
  <2>2. \A k \in {"audio", "slides"} : files'[<<k>>] = files[<<k>>]
    BY <1>4 DEF FileNames, StageNames
  <2> QED
    BY <1>1, <2>1, <2>2 DEF FixedInv, Bundle!Recorded
<1>6. WordsInv'
  <2>1. \A k \in {"audio", "own"} : files'[<<k>>] = files[<<k>>]
    BY <1>4 DEF FileNames, StageNames
  <2> QED
    BY <1>1, <2>1 DEF WordsInv, Bundle!Recorded
<1>7. ExtInv'
  <2>1. \A key \in Bundle!External(saved) : files'[key] = files[key]
    BY <1>1, <1>2, BundleExtIn DEF ExtInv, Bundle!External
  <2> QED
    BY <1>1, <2>1 DEF ExtInv, Bundle!External
<1>8. Bundle!VersionsStay'
  <2>1. \A v \in 1 .. Bundle!Latest(saved) : files'[<<"minutes", v>>] = files[<<"minutes", v>>]
    <3>1. SUFFICES ASSUME NEW v \in 1 .. Bundle!Latest(saved)
                   PROVE  files'[<<"minutes", v>>] = files[<<"minutes", v>>]
      OBVIOUS
    <3>2. <<"minutes", v>> \in BundlePaths
      BY <1>1, BundleVersionIn
    <3>3. <<"minutes", v>> # p
      OBVIOUS
    <3> QED
      BY <1>2, <3>2, <3>3
  <2>2. \A v \in 1 .. Bundle!Latest(saved) : files'[<<"minutes", v>>] = saved.versions[v]
    BY <1>1, <2>1 DEF Bundle!VersionsStay, Bundle!Minutes
  <2> QED
    BY <2>2 DEF Bundle!VersionsStay, Bundle!Minutes, Bundle!Latest
<1>9. ReadyInv'
  <2>1. SUFFICES ASSUME upToDate, misread = {}
                 PROVE  /\ \A k \in StageNames : CurrentIn(files', saved, k)
                        /\ Bundle!Latest(saved) > 0
                        /\ MinutesIn(files', saved, Bundle!Latest(saved))
    BY DEF ReadyInv
  <2>2. p = <<"playback">>
    BY <2>1
  <2>3. SameBut({"playback"}, files, saved, files', saved)
    <3>1. \A s \in Settings : files'[<<"layer2", s.diar>>] = files[<<"layer2", s.diar>>]
      BY <1>2, <2>2, BundleHasPaths
    <3> QED
      BY <1>1, <1>4, <3>1 DEF SameBut, ManifestOk
  <2>4. \A k \in StageNames : Uses(k) \cap {"playback"} = {}
    BY DEF Uses, StageNames
  <2>5. \A k \in StageNames : CurrentIn(files', saved, k)
    BY <1>1, <2>1, <2>3, <2>4, BundleFrame DEF ReadyInv
  <2>6. Bundle!Latest(saved) > 0 /\ Bundle!Latest(saved) \in 1 .. Bundle!Latest(saved)
        /\ MinutesIn(files, saved, Bundle!Latest(saved))
    BY <1>1, <2>1 DEF ReadyInv, ManifestOk, Bundle!Latest
  <2>7. files'[<<"minutes", Bundle!Latest(saved)>>] = files[<<"minutes", Bundle!Latest(saved)>>]
    BY <1>1, <1>2, <2>2, <2>6, BundleVersionIn
  <2>8. {"playback"} \cap {"merged", "slides", "brief"} = {}
    OBVIOUS
  <2> QED
    BY <2>3, <2>5, <2>6, <2>7, <2>8, BundleMinutesFrame
<1>10. ProgressInv' /\ Bundle!MadeOfItsInputs'
  BY <1>1 DEF ProgressInv, Bundle!MadeOfItsInputs
<1> QED
  BY <1>3, <1>5, <1>6, <1>7, <1>8, <1>9, <1>10 DEF BundleInv
(* A call saves the manifest. *)
LEMMA BundleCallSaves ==
  ASSUME BundleInv, work.op \in {"context", "discard", "playback"}, NEW m, saved' = m,
         ManifestOk(m), UNCHANGED <<files, media, misread, upToDate, edits, stops>>,
         WorkOk', work'.op \in {"none", "context"}, upToDate => work'.op = "none",
         m.versions = saved.versions,
         \A k \in {"audio", "own", "slides"} :
           /\ Bundle!Recorded(m, k) <=> Bundle!Recorded(saved, k)
           /\ Bundle!Recorded(m, k) => m.records[<<k>>] = saved.records[<<k>>],
         ExtInv', PlaybackInv', Bundle!MadeOfItsInputs', ReadyInv'
  PROVE  BundleInv'
<1>1. /\ BundleShape /\ FixedInv /\ WordsInv /\ Bundle!VersionsStay
  BY DEF BundleInv
<1>2. BundleShape'
  <2>1. ManifestOk(saved)'
    BY DEF ManifestOk, RecordOk
  <2> QED
    BY <1>1, <2>1 DEF BundleShape
<1>3. FixedInv'
  <2>1. \A k \in {"audio", "slides"} : FixedMade(k)' = FixedMade(k)
    BY DEF FixedMade, Bundle!Outside
  <2> QED
    BY <1>1, <2>1 DEF FixedInv, Bundle!Recorded
<1>4. WordsInv'
  BY <1>1 DEF WordsInv, Bundle!Recorded
<1>5. Bundle!VersionsStay' /\ ProgressInv'
  BY <1>1 DEF Bundle!VersionsStay, Bundle!Latest, Bundle!Minutes, ProgressInv
<1> QED
  BY <1>2, <1>3, <1>4, <1>5 DEF BundleInv

LEMMA BundleContextStep ==
  ASSUME BundleInv, Bundle!ContextStep
  PROVE  BundleInv'
<1> DEFINE key == <<"ext", work.id>>
<1>1. /\ work.op = "context" /\ UNCHANGED <<media, misread, upToDate, edits, stops>>
      /\ BundleShape /\ ExtInv /\ PlaybackInv /\ ManifestOk(saved)
  BY DEF BundleInv, BundleShape, Bundle!ContextStep, Bundle!Bounds
<1>2. /\ work = [op |-> "context", phase |-> work.phase, id |-> work.id]
      /\ work.phase \in {"write", "record", "list"} /\ work.id = edits /\ edits > 0
      /\ edits \in Nat /\ ~upToDate
  BY <1>1 DEF BundleShape, WorkOk
<1>3. key \in BundlePaths /\ work.id \in 1 .. edits
  BY <1>1, <1>2, BundleExtIn
<1>4. CASE work.phase = "write"
  <2> DEFINE x == [key |-> "ext", from |-> work.id]
  <2>1. /\ files' = [files EXCEPT ![key] = x] /\ UNCHANGED saved
        /\ work' = [work EXCEPT !.phase = "record"]
    BY <1>4 DEF Bundle!ContextStep
  <2>2. work' = [op |-> "context", phase |-> "record", id |-> work.id]
    BY <1>2, <2>1
  <2>3. WorkOk' /\ work'.op = "context" /\ work'.phase = "record" /\ work'.id = work.id
    BY <1>1, <1>2, <2>2 DEF WorkOk
  <2>4. key \notin DOMAIN saved.records
    BY <1>1, <1>4 DEF ExtInv
  <2>5. x # Bundle!Absent /\ files'[key] = x /\ files'[<<"playback">>] = files[<<"playback">>]
    <3>1. x.key # "absent"
      OBVIOUS
    <3>2. <<"playback">> \in BundlePaths
      BY BundleHasPaths DEF FileNames
    <3> QED
      BY <1>1, <1>3, <2>1, <3>1, <3>2 DEF Bundle!Absent, BundleShape
  <2>6. PlaybackInv'
    BY <1>1, <2>1, <2>3, <2>5 DEF PlaybackInv, Bundle!Recorded
  <2> HIDE DEF x
  <2>7. \E i : key = <<"ext", i>>
    OBVIOUS
  <2>8. /\ files'[<<"ext", work'.id>>] # Bundle!Absent
        /\ <<"ext", work'.id>> \notin DOMAIN saved.records
    BY <2>3, <2>4, <2>5
  <2> QED
    BY <1>1, <1>2, <2>1, <2>3, <2>4, <2>6, <2>7, <2>8, BundleCallFile
<1>5. CASE work.phase = "record"
  <2> DEFINE rec == [inputs |-> Bundle!Origin("source"), params |-> Bundle!Origin("parser"),
                     path |-> key, made |-> files[key]]
  <2>1. /\ saved' = [saved EXCEPT !.records = Bundle!Put(@, key, rec)] /\ UNCHANGED files
        /\ work' = [work EXCEPT !.phase = "list"]
    BY <1>5 DEF Bundle!ContextStep
  <2>2. work' = [op |-> "context", phase |-> "list", id |-> work.id]
    BY <1>2, <2>1
  <2>3. WorkOk' /\ work'.op = "context" /\ work'.phase = "list"
    BY <1>1, <1>2, <2>2 DEF WorkOk
  <2>4. PICK m : m = saved'
    OBVIOUS
  <2>5. RecordOk(rec, key) /\ rec.made = files[key]
    BY DEF RecordOk
  <2>6. key \notin DOMAIN saved.records /\ files[key] # Bundle!Absent
    BY <1>1, <1>5 DEF ExtInv
  <2> HIDE DEF rec
  <2>7. /\ m = [records |-> m.records, versions |-> saved.versions, settings |-> saved.settings,
                status |-> saved.status, discarded |-> saved.discarded,
                contexts |-> saved.contexts]
        /\ m.records = Bundle!Put(saved.records, key, rec)
    BY <1>1, <2>1, <2>4 DEF ManifestOk
  <2>8. /\ DOMAIN m.records = DOMAIN saved.records \cup {key} /\ m.records[key] = rec
        /\ \A q \in DOMAIN saved.records : m.records[q] = saved.records[q]
        /\ m.records = [q \in DOMAIN m.records |-> m.records[q]]
    BY <2>6, <2>7 DEF Bundle!Put
  <2>9. ManifestOk(m)
    BY <1>1, <2>5, <2>7, <2>8 DEF ManifestOk
  <2>10. /\ \A k \in {"audio", "own", "slides", "playback"} :
               /\ Bundle!Recorded(m, k) <=> Bundle!Recorded(saved, k)
               /\ Bundle!Recorded(m, k) => m.records[<<k>>] = saved.records[<<k>>]
         /\ m.discarded = saved.discarded /\ m.versions = saved.versions
    BY <2>7, <2>8 DEF Bundle!Recorded
  <2>11. ExtInv'
    <3>1. \A q \in Bundle!External(m) : q \in Bundle!External(saved) \/ q = key
      BY <2>8 DEF Bundle!External
    <3>2. \A q \in Bundle!External(m) : \E i \in 1 .. edits :
            q = <<"ext", i>> /\ files[q] # Bundle!Absent /\ files[q] = m.records[q].made
      <4>1. SUFFICES ASSUME NEW q \in Bundle!External(m)
                     PROVE  \E i \in 1 .. edits :
                              /\ q = <<"ext", i>> /\ files[q] # Bundle!Absent
                              /\ files[q] = m.records[q].made
        OBVIOUS
      <4>2. CASE q = key
        BY <1>3, <2>5, <2>6, <2>8, <4>2
      <4>3. CASE q # key
        <5>1. q \in Bundle!External(saved) /\ q \in DOMAIN saved.records
          BY <3>1, <4>3 DEF Bundle!External
        <5> QED
          BY <1>1, <2>8, <5>1 DEF ExtInv
      <4> QED
        BY <4>2, <4>3
    <3> QED
      BY <1>1, <2>1, <2>3, <2>4, <3>2 DEF ExtInv
  <2>12. PlaybackInv'
    BY <1>1, <2>1, <2>3, <2>4, <2>10 DEF PlaybackInv
  <2>13. Bundle!MadeOfItsInputs'
    <3>1. key[1] = "ext"
      OBVIOUS
    <3> QED
      BY <1>1, <2>4, <2>8, <3>1 DEF BundleInv, Bundle!MadeOfItsInputs
  <2>14. ReadyInv'
    BY <1>1, <1>2 DEF ReadyInv
  <2> QED
    BY <1>1, <1>2, <2>1, <2>3, <2>4, <2>9, <2>10, <2>11, <2>12, <2>13, <2>14, BundleCallSaves
<1>6. CASE work.phase = "list"
  <2>1. /\ saved' = [saved EXCEPT !.contexts = @ \cup {work.id}] /\ UNCHANGED files
        /\ work' = Bundle!Free
    BY <1>6 DEF Bundle!ContextStep
  <2>2. WorkOk' /\ work'.op = "none"
    BY <2>1 DEF WorkOk, Bundle!Free
  <2>3. PICK m : m = saved'
    OBVIOUS
  <2>4. /\ ManifestOk(m) /\ m.records = saved.records /\ m.versions = saved.versions
        /\ m.discarded = saved.discarded
    <3>1. m = [records |-> saved.records, versions |-> saved.versions,
               settings |-> saved.settings, status |-> saved.status,
               discarded |-> saved.discarded, contexts |-> saved.contexts \cup {work.id}]
      BY <1>1, <2>1, <2>3 DEF ManifestOk
    <3> QED
      BY <1>1, <3>1 DEF ManifestOk
  <2>5. ExtInv' /\ PlaybackInv' /\ ReadyInv' /\ Bundle!MadeOfItsInputs'
    BY <1>1, <1>2, <2>1, <2>2, <2>3, <2>4 DEF BundleInv, ExtInv, PlaybackInv, ReadyInv,
      Bundle!MadeOfItsInputs, Bundle!External, Bundle!Recorded
  <2>6. \A k \in {"audio", "own", "slides"} :
          /\ Bundle!Recorded(m, k) <=> Bundle!Recorded(saved, k)
          /\ Bundle!Recorded(m, k) => m.records[<<k>>] = saved.records[<<k>>]
    BY <2>4 DEF Bundle!Recorded
  <2> QED
    BY <1>1, <1>2, <2>1, <2>2, <2>3, <2>4, <2>5, <2>6, BundleCallSaves
<1> QED
  BY <1>2, <1>4, <1>5, <1>6

(* A call that deletes tracks, and what it leaves as it is. *)
LEMMA BundleCallWork ==
  ASSUME BundleInv, UNCHANGED <<saved, files, misread, upToDate, edits, stops>>,
         work.op = "discard", work'.op = "discard", work'.tracks = work.tracks, WorkOk',
         PlaybackInv', <<"system">> \notin media' => Bundle!Recorded(saved, "own")
  PROVE  BundleInv'
<1>1. /\ BundleShape /\ FixedInv /\ WordsInv /\ ExtInv /\ ReadyInv
      /\ Bundle!VersionsStay /\ Bundle!MadeOfItsInputs
  BY DEF BundleInv
<1>2. ~upToDate
  BY <1>1 DEF BundleShape
<1>3. BundleShape'
  BY <1>1, <1>2 DEF BundleShape, ManifestOk, RecordOk
<1>4. FixedInv'
  BY <1>1 DEF FixedInv, FixedMade, Bundle!Recorded, Bundle!Outside
<1>5. WordsInv' /\ ExtInv'
  BY <1>1 DEF WordsInv, ExtInv, Bundle!Recorded, Bundle!External
<1>6. ProgressInv' /\ ReadyInv' /\ Bundle!VersionsStay' /\ Bundle!MadeOfItsInputs'
  BY <1>1, <1>2 DEF ProgressInv, ReadyInv, Bundle!VersionsStay, Bundle!MadeOfItsInputs,
    Bundle!Latest, Bundle!Minutes
<1> QED
  BY <1>3, <1>4, <1>5, <1>6 DEF BundleInv

LEMMA BundleDiscardStep ==
  ASSUME BundleInv, Bundle!DiscardStep
  PROVE  BundleInv'
<1>1. /\ work.op = "discard" /\ UNCHANGED <<misread, upToDate, edits, stops>>
      /\ BundleShape /\ WordsInv /\ ExtInv /\ PlaybackInv /\ ManifestOk(saved)
  BY DEF BundleInv, BundleShape, Bundle!DiscardStep, Bundle!Bounds
<1>2. /\ work = [op |-> "discard", phase |-> work.phase, left |-> work.left,
                 tracks |-> work.tracks]
      /\ work.phase \in {"playback", "unlink"} /\ work.left \subseteq work.tracks
      /\ work.tracks \subseteq Bundle!Tracks /\ ~upToDate
  BY <1>1 DEF BundleShape, WorkOk
<1>3. <<"playback">> \in BundlePaths
  BY BundleHasPaths DEF FileNames
<1>4. CASE work.phase = "playback" /\ work' = [work EXCEPT !.phase = "unlink"]
           /\ UNCHANGED <<saved, media>>
           /\ files' = IF Bundle!Recorded(saved, "playback")
                       THEN [files EXCEPT ![<<"playback">>] = Bundle!Absent] ELSE files
  <2>1. work' = [op |-> "discard", phase |-> "unlink", left |-> work.left,
                 tracks |-> work.tracks]
    BY <1>2, <1>4
  <2>2. WorkOk' /\ work'.op = "discard" /\ work'.phase = "unlink" /\ work'.tracks = work.tracks
    BY <1>2, <2>1 DEF WorkOk
  <2>3. CASE Bundle!Recorded(saved, "playback")
    <3>1. files' = [files EXCEPT ![<<"playback">>] = Bundle!Absent]
      BY <1>4, <2>3
    <3>2. files'[<<"playback">>] = Bundle!Absent
      BY <1>1, <1>3, <3>1 DEF BundleShape
    <3>3. PlaybackInv'
      BY <1>1, <1>4, <2>2, <3>2 DEF PlaybackInv, Bundle!Recorded
    <3> QED
      BY <1>1, <1>2, <1>4, <2>2, <3>1, <3>3, BundleCallFile
  <2>4. CASE ~Bundle!Recorded(saved, "playback")
    <3>1. files' = files
      BY <1>4, <2>4
    <3>2. PlaybackInv'
      BY <1>1, <1>4, <2>2, <2>4, <3>1 DEF PlaybackInv, Bundle!Recorded
    <3>3. <<"system">> \notin media => Bundle!Recorded(saved, "own")
      BY <1>1 DEF WordsInv
    <3> QED
      BY <1>1, <1>4, <2>2, <3>1, <3>2, <3>3, BundleCallWork
  <2> QED
    BY <2>3, <2>4
<1>5. ASSUME work.phase = "unlink", NEW t \in work.left, media' = media \ {t},
             work' = [work EXCEPT !.left = @ \ {t}], UNCHANGED <<saved, files>>
      PROVE  BundleInv'
  <2>1. work' = [op |-> "discard", phase |-> "unlink", left |-> work.left \ {t},
                 tracks |-> work.tracks]
    BY <1>2, <1>5
  <2>2. WorkOk' /\ work'.op = "discard" /\ work'.phase = "unlink" /\ work'.tracks = work.tracks
    BY <1>2, <2>1 DEF WorkOk
  <2>3. PlaybackInv'
    BY <1>1, <1>5, <2>2 DEF PlaybackInv, Bundle!Recorded
  <2>4. <<"system">> \notin media' => Bundle!Recorded(saved, "own")
    BY <1>1, <1>2, <1>5 DEF WordsInv
  <2> QED
    BY <1>1, <1>5, <2>2, <2>3, <2>4, BundleCallWork
<1>6. CASE /\ work.phase = "unlink" /\ UNCHANGED <<files, media>> /\ work' = Bundle!Free
           /\ saved' = [saved EXCEPT !.discarded = @ \cup work.tracks,
                          !.records = Bundle!Restrict(@, DOMAIN @ \ {<<"playback">>})]
  <2>1. WorkOk' /\ work'.op = "none"
    BY <1>6 DEF WorkOk, Bundle!Free
  <2>2. PICK m : m = saved'
    OBVIOUS
  <2>3. /\ m = [records |-> m.records, versions |-> saved.versions, settings |-> saved.settings,
                status |-> saved.status, discarded |-> saved.discarded \cup work.tracks,
                contexts |-> saved.contexts]
        /\ m.records = Bundle!Restrict(saved.records, DOMAIN saved.records \ {<<"playback">>})
    BY <1>1, <1>6, <2>2 DEF ManifestOk
  <2>4. /\ DOMAIN m.records = DOMAIN saved.records \ {<<"playback">>}
        /\ \A q \in DOMAIN m.records : m.records[q] = saved.records[q]
        /\ m.records = [q \in DOMAIN m.records |-> m.records[q]]
    BY <2>3 DEF Bundle!Restrict
  <2>5. m.versions = saved.versions /\ m.discarded \subseteq Bundle!Tracks
    BY <1>1, <1>2, <2>3 DEF ManifestOk
  <2>6. ManifestOk(m)
    <3>1. \A q \in DOMAIN m.records : RecordOk(m.records[q], q)
      BY <1>1, <2>4 DEF ManifestOk
    <3>2. /\ m = [records |-> m.records, versions |-> m.versions, settings |-> m.settings,
                  status |-> m.status, discarded |-> m.discarded, contexts |-> m.contexts]
          /\ m.settings = saved.settings
      BY <2>3
    <3> QED
      BY <1>1, <2>4, <2>5, <3>1, <3>2 DEF ManifestOk
  <2>7. /\ \A k \in {"audio", "own", "slides"} :
             /\ Bundle!Recorded(m, k) <=> Bundle!Recorded(saved, k)
             /\ Bundle!Recorded(m, k) => m.records[<<k>>] = saved.records[<<k>>]
        /\ ~Bundle!Recorded(m, "playback")
    BY <2>4 DEF Bundle!Recorded
  <2>8. ExtInv'
    <3>1. \A q \in Bundle!External(m) :
            q \in Bundle!External(saved) /\ m.records[q] = saved.records[q]
      BY <2>4 DEF Bundle!External
    <3> QED
      BY <1>1, <1>6, <2>1, <2>2, <3>1 DEF ExtInv
  <2>9. PlaybackInv'
    BY <1>1, <1>6, <2>1, <2>2, <2>7 DEF PlaybackInv
  <2>10. Bundle!MadeOfItsInputs' /\ ReadyInv'
    BY <1>1, <1>2, <2>2, <2>4 DEF BundleInv, Bundle!MadeOfItsInputs, ReadyInv
  <2> QED
    BY <1>1, <1>2, <1>6, <2>1, <2>2, <2>5, <2>6, <2>7, <2>8, <2>9, <2>10, BundleCallSaves
<1> QED
  BY <1>4, <1>5, <1>6 DEF Bundle!DiscardStep

LEMMA BundlePlaybackStep ==
  ASSUME BundleInv, Bundle!PlaybackStep
  PROVE  BundleInv'
<1>1. /\ work.op = "playback" /\ UNCHANGED <<media, misread, upToDate, edits, stops>>
      /\ BundleShape /\ ExtInv /\ PlaybackInv /\ ReadyInv /\ ManifestOk(saved)
  BY DEF BundleInv, BundleShape, Bundle!PlaybackStep, Bundle!Bounds
<1>2. work = [op |-> "playback", phase |-> work.phase] /\ saved.discarded = {}
  BY <1>1 DEF BundleShape, WorkOk
<1> DEFINE key == <<"playback">>
<1>3. CASE work.phase = "write"
  <2> DEFINE x == [key |-> "playback", from |-> Bundle!PlaybackInputs]
  <2>1. /\ files' = [files EXCEPT ![key] = x] /\ UNCHANGED saved
        /\ work' = [work EXCEPT !.phase = "record"]
    BY <1>3 DEF Bundle!PlaybackStep
  <2>2. work' = [op |-> "playback", phase |-> "record"]
    BY <1>2, <2>1
  <2>3. WorkOk' /\ work'.op = "playback" /\ work'.phase = "record"
    BY <1>1, <1>2, <2>1, <2>2 DEF WorkOk
  <2> HIDE DEF x
  <2>4. PlaybackInv'
    BY <1>1, <1>2, <2>1, <2>3 DEF PlaybackInv
  <2> QED
    BY <1>1, <2>1, <2>3, <2>4, BundleCallFile
<1>4. CASE work.phase = "record"
  <2> DEFINE rec == [inputs |-> Bundle!PlaybackInputs, params |-> Bundle!Origin("recipe"),
                     path |-> key, made |-> files[key]]
  <2>1. /\ saved' = [saved EXCEPT !.records = Bundle!Put(@, key, rec)]
        /\ work' = Bundle!Free /\ UNCHANGED files
    BY <1>4 DEF Bundle!PlaybackStep
  <2>2. WorkOk' /\ work'.op = "none"
    BY <2>1 DEF WorkOk, Bundle!Free
  <2>3. PICK m : m = saved'
    OBVIOUS
  <2>4. RecordOk(rec, key)
    BY DEF RecordOk
  <2> HIDE DEF rec
  <2>5. /\ m = [records |-> m.records, versions |-> saved.versions, settings |-> saved.settings,
                status |-> saved.status, discarded |-> saved.discarded,
                contexts |-> saved.contexts]
        /\ m.records = Bundle!Put(saved.records, key, rec)
    BY <1>1, <2>1, <2>3 DEF ManifestOk
  <2>6. /\ DOMAIN m.records = DOMAIN saved.records \cup {key} /\ m.records[key] = rec
        /\ \A q \in DOMAIN saved.records : q # key => m.records[q] = saved.records[q]
        /\ m.records = [q \in DOMAIN m.records |-> m.records[q]]
    BY <2>5 DEF Bundle!Put
  <2>7. ManifestOk(m)
    BY <1>1, <2>4, <2>5, <2>6 DEF ManifestOk
  <2>8. \A s : s # key =>
          /\ s \in DOMAIN m.records <=> s \in DOMAIN saved.records
          /\ Bundle!RecordOf(m, s) = Bundle!RecordOf(saved, s)
    BY <2>6 DEF Bundle!RecordOf
  <2>9. /\ \A k \in {"audio", "own", "slides"} :
             /\ Bundle!Recorded(m, k) <=> Bundle!Recorded(saved, k)
             /\ Bundle!Recorded(m, k) => m.records[<<k>>] = saved.records[<<k>>]
        /\ Bundle!Recorded(m, "playback") /\ m.discarded = {} /\ m.versions = saved.versions
    BY <1>2, <2>5, <2>6 DEF Bundle!Recorded
  <2>10. Bundle!External(m) = Bundle!External(saved)
         /\ \A q \in Bundle!External(m) : q # key /\ m.records[q] = saved.records[q]
    BY <2>6 DEF Bundle!External
  <2>11. ExtInv'
    BY <1>1, <2>1, <2>2, <2>3, <2>10 DEF ExtInv
  <2>12. PlaybackInv'
    BY <2>2, <2>3, <2>9 DEF PlaybackInv
  <2>13. Bundle!MadeOfItsInputs'
    <3>1. key[1] = "playback"
      OBVIOUS
    <3> QED
      BY <1>1, <2>3, <2>6, <3>1 DEF BundleInv, Bundle!MadeOfItsInputs
  <2>14. SameBut({"playback"}, files, saved, files, m)
    <3>1. \A s \in StageNames : s # "playback" /\ <<s>> # key
      BY DEF StageNames
    <3>2. \A q \in Bundle!External(saved) : Bundle!RecordOf(saved, q) = Bundle!RecordOf(m, q)
      BY <2>8, <2>10
    <3> QED
      BY <1>1, <2>5, <2>8, <2>10, <3>1, <3>2 DEF SameBut, Bundle!Recorded, ManifestOk
  <2>15. ReadyInv'
    <3>1. SUFFICES ASSUME upToDate, misread = {}
                   PROVE  /\ \A k \in StageNames : CurrentIn(files, m, k)
                          /\ Bundle!Latest(m) > 0 /\ MinutesIn(files, m, Bundle!Latest(m))
      BY <1>1, <2>1, <2>3 DEF ReadyInv
    <3>2. \A k \in StageNames : Uses(k) \cap {"playback"} = {}
      BY DEF Uses, StageNames
    <3>3. \A k \in StageNames : CurrentIn(files, m, k)
      BY <1>1, <2>14, <3>1, <3>2, BundleFrame DEF ReadyInv
    <3>4. \A v : MinutesIn(files, saved, v) <=> MinutesIn(files, m, v)
      <4>1. {"playback"} \cap {"merged", "slides", "brief"} = {}
        OBVIOUS
      <4>2. \A v : Bundle!RecordOf(m, <<"minutes", v>>) = Bundle!RecordOf(saved, <<"minutes", v>>)
        BY <2>8
      <4> QED
        BY <2>14, <4>1, <4>2, BundleMinutesFrame
    <3>5. Bundle!Latest(m) = Bundle!Latest(saved)
      BY <2>9 DEF Bundle!Latest
    <3> QED
      BY <1>1, <3>1, <3>3, <3>4, <3>5 DEF ReadyInv
  <2> QED
    BY <1>1, <2>1, <2>2, <2>3, <2>7, <2>9, <2>11, <2>12, <2>13, <2>15, BundleCallSaves
<1> QED
  BY <1>3, <1>4 DEF Bundle!PlaybackStep

-----------------------------------------------------------------------------
(* The invariant holds of a new meeting and through every step. *)
LEMMA BundleInit ==
  ASSUME Bundle!Init
  PROVE  BundleInv
<1>1. PICK s \in Settings :
        saved = [records |-> << >>, versions |-> << >>, settings |-> s,
                 status |-> "recorded", discarded |-> {}, contexts |-> {}]
  BY DEF Bundle!Init
<1>2. /\ files = [p \in BundlePaths |-> Bundle!Absent]
      /\ media = Bundle!Tracks /\ work = Bundle!Free
      /\ misread = {} /\ upToDate = FALSE /\ edits = 0 /\ stops = 0
  BY BundlePathsAre DEF Bundle!Init
<1>3. /\ saved.records = << >> /\ saved.versions = << >> /\ saved.settings = s
      /\ saved.discarded = {} /\ DOMAIN saved.records = {}
      /\ saved.records = [key \in DOMAIN saved.records |-> saved.records[key]]
  BY <1>1
<1>4. ManifestOk(saved)
  <2>1. saved = [records |-> saved.records, versions |-> saved.versions,
                 settings |-> saved.settings, status |-> saved.status,
                 discarded |-> saved.discarded, contexts |-> saved.contexts]
    BY <1>1
  <2>2. /\ saved.versions \in Seq(Bundle!Range(saved.versions))
        /\ Len(saved.versions) <= MaxVersions
    BY <1>3, PipelineAssumption DEF Bundle!BundleAssumption
  <2> QED
    BY <1>3, <2>1, <2>2 DEF ManifestOk
<1>5. work.op = "none"
  BY <1>2 DEF Bundle!Free
<1>6. BundleShape
  BY <1>2, <1>4, <1>5, PipelineAssumption DEF BundleShape, WorkOk, Bundle!BundleAssumption
<1>7. \A k : ~Bundle!Recorded(saved, k)
  BY <1>3 DEF Bundle!Recorded
<1>8. FixedInv
  <2>1. \A k \in {"audio", "slides"} : <<k>> \in BundlePaths
    BY BundleHasPaths DEF FileNames, StageNames
  <2> QED
    BY <1>2, <1>5, <1>7, <2>1 DEF FixedInv
<1>9. WordsInv
  BY <1>2, <1>5, <1>7 DEF WordsInv, Bundle!Tracks
<1>10. ExtInv
  BY <1>3, <1>5 DEF ExtInv, Bundle!External
<1>11. PlaybackInv
  <2>1. <<"playback">> \in BundlePaths
    BY BundleHasPaths DEF FileNames
  <2> QED
    BY <1>2, <1>3, <1>5, <2>1 DEF PlaybackInv
<1>12. ProgressInv /\ ReadyInv
  BY <1>2, <1>5 DEF ProgressInv, ReadyInv
<1>13. Bundle!VersionsStay /\ Bundle!MadeOfItsInputs
  BY <1>3 DEF Bundle!VersionsStay, Bundle!MadeOfItsInputs, Bundle!Latest
<1> QED
  BY <1>6, <1>8, <1>9, <1>10, <1>11, <1>12, <1>13 DEF BundleInv

LEMMA BundleStutter ==
  ASSUME BundleInv, UNCHANGED bvars
  PROVE  BundleInv'
<1>1. UNCHANGED <<saved, files, media, work, misread, upToDate, edits, stops>>
  BY DEF bvars
<1>2. BundleShape'
  BY <1>1 DEF BundleInv, BundleShape, ManifestOk, RecordOk, WorkOk, JobOk
<1>3. FixedInv' /\ WordsInv'
  BY <1>1 DEF BundleInv, FixedInv, WordsInv, FixedMade, Bundle!Recorded, Bundle!Outside, Bundle!K
<1>4. ExtInv' /\ PlaybackInv'
  BY <1>1 DEF BundleInv, ExtInv, PlaybackInv, Bundle!Recorded, Bundle!External
<1>5. ProgressInv'
  BY <1>1 DEF BundleInv, ProgressInv, WriteInv
<1>6. ReadyInv' /\ Bundle!VersionsStay' /\ Bundle!MadeOfItsInputs'
  BY <1>1 DEF BundleInv, ReadyInv, Bundle!VersionsStay, Bundle!MadeOfItsInputs, Bundle!Latest,
    Bundle!Minutes
<1> QED
  BY <1>2, <1>3, <1>4, <1>5, <1>6 DEF BundleInv

LEMMA BundleNext ==
  ASSUME BundleInv, Bundle!Next
  PROVE  BundleInv'
<1>1. CASE Bundle!Process \/ Bundle!Refresh
  BY <1>1, BundleStartJob DEF Bundle!Process, Bundle!Refresh
<1>2. CASE Bundle!Skip \/ Bundle!Drop \/ Bundle!DropFile
  BY <1>2, BundleSkip, BundleDrop, BundleDropFile
<1>3. CASE Bundle!Write \/ Bundle!Save \/ Bundle!Unlink
  BY <1>3, BundleWrite, BundleSave, BundleUnlink
<1>4. CASE Bundle!Publish \/ Bundle!Finish \/ Bundle!Fail \/ Bundle!Cancel \/ Bundle!Crash
  BY <1>4, BundlePublish, BundleFinish, BundleFail, BundleCrash
<1>5. CASE \E s \in Settings : Bundle!SetConfig(s)
  BY <1>5, BundleSetConfig
<1>6. CASE Bundle!RegisterContext \/ Bundle!ContextStep
  BY <1>6, BundleRegisterContext, BundleContextStep
<1>7. CASE \E asked \in SUBSET Bundle!Tracks : Bundle!DiscardTracks(asked)
  BY <1>7, BundleDiscardTracks
<1>8. CASE Bundle!DiscardStep \/ Bundle!PreparePlayback \/ Bundle!PlaybackStep
  BY <1>8, BundleDiscardStep, BundlePreparePlayback, BundlePlaybackStep
<1> QED
  BY <1>1, <1>2, <1>3, <1>4, <1>5, <1>6, <1>7, <1>8 DEF Bundle!Next, Bundle!JobStep

(* What the invariant says of a bundle between its steps. *)
LEMMA BundlePromises ==
  ASSUME BundleInv
  PROVE  Bundle!BundleSafe
<1>1. /\ BundleShape /\ WordsInv /\ PlaybackInv /\ ReadyInv
      /\ Bundle!VersionsStay /\ Bundle!MadeOfItsInputs
  BY DEF BundleInv
<1>2. \A k : Bundle!Parameters(saved, k) = ParametersIn(files, saved, k)
  BY DEF Bundle!Parameters, ParametersIn, Bundle!Hints, HintsIn
<1>3. Bundle!ReadyIsCurrent
  <2>1. SUFFICES ASSUME upToDate, misread = {}
                 PROVE  Bundle!ReadyIsCurrent
    BY DEF Bundle!ReadyIsCurrent
  <2>2. Bundle!Range(Bundle!Stages) \ {"minutes"} = StageNames
    BY BundleStageRange DEF StageNames
  <2>3. ASSUME NEW k \in StageNames
        PROVE  IF Bundle!NotWanted(saved, k) THEN ~Bundle!Recorded(saved, k)
               ELSE \/ Bundle!Kept(saved, k)
                    \/ /\ Bundle!RecordOf(saved, <<k>>) = Bundle!NewRecord(saved, k)
                       /\ Bundle!Identical(saved, k)
    <3>1. CurrentIn(files, saved, k)
      BY <1>1, <2>1 DEF ReadyInv
    <3>2. Bundle!NewRecord(saved, k) = NewRecordIn(files, saved, k)
      BY <1>2 DEF Bundle!NewRecord, NewRecordIn
    <3>3. Bundle!KeyOf(saved, k) = <<k>>
      BY DEF Bundle!KeyOf, StageNames
    <3>4. k = "layer3" => Bundle!PathOf(saved, k) = <<"layer3">>
      BY DEF Bundle!PathOf, Bundle!KeyOf
    <3> QED
      BY <3>1, <3>2, <3>3, <3>4 DEF CurrentIn, Bundle!Identical, NewRecordIn
  <2>4. Bundle!Latest(saved) > 0 /\ MinutesIn(files, saved, Bundle!Latest(saved))
    BY <1>1, <2>1 DEF ReadyInv
  <2> QED
    BY <1>2, <2>2, <2>3, <2>4 DEF Bundle!ReadyIsCurrent, MinutesIn, Bundle!Minutes
<1>4. Bundle!WordsOutliveAudio
  BY <1>1 DEF WordsInv, Bundle!WordsOutliveAudio
<1>5. Bundle!NoPlaybackOfDiscarded
  BY <1>1 DEF PlaybackInv, Bundle!NoPlaybackOfDiscarded, BundleShape, WorkOk
<1> QED
  BY <1>1, <1>3, <1>4, <1>5 DEF Bundle!BundleSafe

(* Of every meeting, whatever its configurations, the answers of its model, and *)
(* however often it is processed, edited, cancelled or interrupted: what an     *)
(* artifact was made of is what its record says, a job that ended well leaves   *)
(* what a first run would make, published minutes stay, audio goes only when    *)
(* its words are kept, and playbacks with their tracks (pipeline.py,            *)
(* bundle/session.py, handlers/lifecycle.py).                                   *)
THEOREM BundleIsSafe == PipelineSpec => []BundleSafe
<1>1. PipelineInit => BundleInv
  BY BundleInit DEF PipelineInit
<1>2. BundleInv /\ [PipelineNext]_<<focus, vars, bvars, ivars, hvars, tvars, cvars>> => BundleInv'
  BY BundleNext, BundleStutter DEF PipelineNext
<1>3. BundleInv => BundleSafe
  BY BundlePromises DEF BundleSafe
<1> QED
  BY <1>1, <1>2, <1>3, PTL DEF PipelineSpec
=============================================================================
