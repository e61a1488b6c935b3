------------------------- MODULE TranscriptionLedger -------------------------
(***************************************************************************)
(* The durable audio-attempt ledger of narumi's API transcription          *)
(* (pipeline/src/narumi/transcribe: checkpoints.py, _storage.py,           *)
(* _checkpoint_format.py, api_stage.py, api_transcript.py).                *)
(*                                                                         *)
(* One meeting directory is shared by several processes (the resident      *)
(* server's job threads and the narumi-dev CLI).  A run takes the          *)
(* process-shared execution lease, registers its plan, checks every saved  *)
(* success and the user's retry confirmation, then walks the plan's chunks *)
(* in order: reuse a saved success, or save a pending receipt, upload the  *)
(* audio, and save the outcome.  Each durable write is an action of its    *)
(* own, and the process may crash between any two of them.                 *)
(*                                                                         *)
(* An I/O error that reaches no disk, an error raised after the rename     *)
(* took effect, a cancellation between two steps and a crash all end a run *)
(* in the same way, keeping what was installed before: Stop models them.   *)
(***************************************************************************)
EXTENDS Integers, Sequences, FiniteSets

CONSTANTS
  Proc,         \* processes (or job threads) that may run API transcription
  Plan,         \* input fingerprints: the plans the meeting's audio can give
  Chunk,        \* chunk fingerprints
  Track,        \* audio tracks
  ChunksOf,     \* the ordered chunks of each plan
  TrackOf,      \* the track of each chunk
  MaxEpoch,     \* bound on the cache_epoch a selection carries
  MaxAttempts,  \* bound: no request once this many attempts were made
  Nobody,       \* the lease is free
  NoRetry       \* the request carries no retry confirmation

Epoch == 0 .. MaxEpoch
NoProof == -1
Retry == [plan : Plan, chunk : Chunk, blocked : Epoch]

ASSUME LedgerAssumption ==
  /\ Plan # {}
  /\ MaxEpoch \in Nat /\ MaxAttempts \in Nat
  /\ ChunksOf \in [Plan -> Seq(Chunk)]
  /\ \A pl \in Plan : ChunksOf[pl] # << >>
  /\ \A pl \in Plan : \A i, j \in DOMAIN ChunksOf[pl] :
       ChunksOf[pl][i] = ChunksOf[pl][j] => i = j
  /\ TrackOf \in [Chunk -> Track]
  /\ Nobody \notin Proc
  /\ NoRetry \notin Retry

(* run_api_transcribe takes the chunks of one track after those of another. *)
ASSUME TracksAreTogether ==
  \A pl \in Plan : \A i, j, k \in DOMAIN ChunksOf[pl] :
    i < j /\ j < k /\ TrackOf[ChunksOf[pl][i]] = TrackOf[ChunksOf[pl][k]]
      => TrackOf[ChunksOf[pl][j]] = TrackOf[ChunksOf[pl][i]]

VARIABLES
  (* on disk, shared by the processes *)
  planFiles,    \* plans/<input fingerprint>.json
  recorded,     \* plans of ledger.json; {} when there is no ledger.json
  entry,        \* entries of ledger.json
  resultFiles,  \* results/<chunk>-<attempt>.json
  transcripts,  \* transcripts/own-<track>/<digest>.json
  published,    \* the manifest's transcripts/own-<track> record
  lease,        \* the flock on execution.lock
  (* in memory, per process *)
  pc,
  job,
  (* observation *)
  attempts,     \* attempt ids issued so far
  uploads,      \* chunks handed to the provider, with what authorised each
  refused       \* attempts the provider certainly did not accept

disk == <<planFiles, recorded, entry, resultFiles, transcripts, published>>
history == <<attempts, uploads, refused>>
vars == <<disk, lease, pc, job, history>>

(***************************************************************************)
(* Types                                                                   *)
(***************************************************************************)
UnknownStates == {"pending", "unknown"}
EntryStates == {"absent", "unattempted", "known_failed", "succeeded"}
                 \cup UnknownStates
Entry == [state : EntryStates, attempt : Nat, epoch : Epoch, was : BOOLEAN]
NoEntry == [state |-> "absent", attempt |-> 0, epoch |-> 0, was |-> FALSE]
Unattempted == [state |-> "unattempted", attempt |-> 0, epoch |-> 0, was |-> FALSE]

Assembly == SUBSET (Chunk \X Nat)      \* which attempt's result each chunk gave
Job == [plan : Plan, epoch : Epoch, retry : Retry \cup {NoRetry},
        spent : BOOLEAN,               \* _proof_consumed
        at : Nat,                      \* index of the chunk being processed
        attempt : Nat, was : BOOLEAN,  \* the TranscriptionAttempt in hand
        known : BOOLEAN,               \* the error in hand proves non-delivery
        got : Assembly,                \* segments assembled for this track
        view : [Track -> Assembly]]    \* manifest records loaded with the bundle

PC == {"idle", "opened", "init", "write_plan", "save_plan", "preflight",
       "chunk", "dispatch", "in_flight", "failing", "replied", "saving",
       "publish", "register"}
Leased == PC \ {"idle", "opened"}
Upload == [chunk : Chunk, attempt : Nat, epoch : Epoch,
           proof : Epoch \cup {NoProof}]

IdleJob == [plan |-> CHOOSE pl \in Plan : TRUE, epoch |-> 0, retry |-> NoRetry,
            spent |-> FALSE, at |-> 1, attempt |-> 0, was |-> FALSE,
            known |-> FALSE, got |-> {}, view |-> [t \in Track |-> {}]]

(* The ledger, the files, the manifest and the runs. *)
TypeOK ==
  /\ planFiles \subseteq Plan /\ recorded \subseteq Plan
  /\ entry \in [Chunk -> Entry]
  /\ resultFiles \subseteq Chunk \X Nat
  /\ transcripts \subseteq Assembly
  /\ published \in [Track -> Assembly]
  /\ lease \in Proc \cup {Nobody}
  /\ pc \in [Proc -> PC] /\ job \in [Proc -> Job]
  /\ attempts \in Nat
  /\ uploads \subseteq Upload /\ refused \subseteq Nat

Init ==
  /\ planFiles = {} /\ recorded = {} /\ resultFiles = {} /\ transcripts = {}
  /\ entry = [c \in Chunk |-> NoEntry]
  /\ published = [t \in Track |-> {}]
  /\ lease = Nobody
  /\ pc = [p \in Proc |-> "idle"] /\ job = [p \in Proc |-> IdleJob]
  /\ attempts = 0 /\ uploads = {} /\ refused = {}

(***************************************************************************)
(* Helpers                                                                 *)
(***************************************************************************)
Chunks(pl) == {ChunksOf[pl][i] : i \in DOMAIN ChunksOf[pl]}
TrackChunks(pl, t) == {c \in Chunks(pl) : TrackOf[c] = t}
Here(p) == ChunksOf[job[p].plan][job[p].at]
Before(p) == {ChunksOf[job[p].plan][i] : i \in 1 .. job[p].at - 1}
LastOfPlan(p) == job[p].at = Len(ChunksOf[job[p].plan])
(* Mutant: every chunk ends its track. *)
LastOfTrackEager(p) == job[p].at > 0

LastOfTrack(p) ==
  LastOfPlan(p) \/ TrackOf[ChunksOf[job[p].plan][job[p].at + 1]] # TrackOf[Here(p)]

InDoubt(c) == entry[c].state \in UnknownStates
Succeeded(c) == entry[c].state = "succeeded"
Saved(c) == <<c, entry[c].attempt>> \in resultFiles

FirstUnknown(pl, c) ==
  \E i \in DOMAIN ChunksOf[pl] :
    /\ ChunksOf[pl][i] = c /\ InDoubt(c)
    /\ \A j \in 1 .. i - 1 : ~InDoubt(ChunksOf[pl][j])

(* Mutants: a confirmation under the same epoch, and a stale confirmation. *)
VerifyRetrySameEpoch(pl, e, r) ==
  r # NoRetry /\ r.plan = pl /\ FirstUnknown(pl, r.chunk)
    /\ r.blocked = entry[r.chunk].epoch
VerifyRetryStale(pl, e, r) ==
  r # NoRetry /\ r.plan = pl /\ FirstUnknown(pl, r.chunk)
    /\ e > entry[r.chunk].epoch

(* _verify_retry: the confirmation r names this input, its first unresolved
   chunk and that chunk's recorded epoch, and the selection's epoch e has moved
   on. *)
VerifyRetry(pl, e, r) ==
  /\ r # NoRetry
  /\ r.plan = pl
  /\ FirstUnknown(pl, r.chunk)
  /\ r.blocked = entry[r.chunk].epoch
  /\ e > entry[r.chunk].epoch

(* _pending: the ledger still holds the receipt of the attempt in hand. *)
StillPending(p) ==
  /\ entry[Here(p)].state = "pending"
  /\ entry[Here(p)].attempt = job[p].attempt
  /\ entry[Here(p)].epoch = job[p].epoch
  /\ entry[Here(p)].was = job[p].was

Goto(p, l) == pc' = [pc EXCEPT ![p] = l]
With(p, j) == job' = [job EXCEPT ![p] = j]
Leave(p) ==
  /\ Goto(p, "idle") /\ With(p, IdleJob)
  /\ lease' = IF lease = p THEN Nobody ELSE lease

(***************************************************************************)
(* Starting a run                                                          *)
(***************************************************************************)
(* The job loads the bundle and with it the manifest's records. *)
Open(p) ==
  /\ pc[p] = "idle"
  /\ attempts < MaxAttempts                      \* bound
  /\ Goto(p, "opened")
  /\ With(p, [IdleJob EXCEPT !.view = published])
  /\ UNCHANGED <<disk, lease, history>>

(* Mutant: the lease is not exclusive. *)
AcquireShared(p, pl) ==
  /\ pc[p] = "opened"
  /\ lease' = p
  /\ Goto(p, "init")
  /\ With(p, [job[p] EXCEPT !.plan = pl])
  /\ UNCHANGED <<disk, history>>

(* transcription_execution_lock, then the plan built from the audio present. *)
Acquire(p, pl) ==
  /\ pc[p] = "opened" /\ lease = Nobody
  /\ lease' = p
  /\ Goto(p, "init")
  /\ With(p, [job[p] EXCEPT !.plan = pl])
  /\ UNCHANGED <<disk, history>>

(* Mutant: a contender waits for the lease. *)
BusyWaits(p) == pc[p] = "opened" /\ lease # Nobody /\ UNCHANGED vars

Busy(p) ==
  /\ pc[p] = "opened" /\ lease # Nobody
  /\ Leave(p)
  /\ UNCHANGED <<disk, history>>

(***************************************************************************)
(* TranscriptionCheckpoints._initialize                                    *)
(***************************************************************************)
Sound == IF recorded = {} THEN planFiles = {} /\ resultFiles = {}
                          ELSE planFiles = recorded

Initialize(p) ==
  /\ pc[p] = "init"
  /\ Sound
  /\ Goto(p, IF job[p].plan \in recorded THEN "preflight" ELSE "write_plan")
  /\ UNCHANGED <<disk, lease, job, history>>

StorageError(p) ==
  /\ pc[p] = "init" /\ ~Sound
  /\ Leave(p)
  /\ UNCHANGED <<disk, history>>

WritePlan(p) ==
  /\ pc[p] = "write_plan"
  /\ planFiles' = planFiles \cup {job[p].plan}
  /\ Goto(p, "save_plan")
  /\ UNCHANGED <<recorded, entry, resultFiles, transcripts, published, lease,
                 job, history>>

SavePlan(p) ==
  /\ pc[p] = "save_plan"
  /\ recorded' = recorded \cup {job[p].plan}
  /\ entry' = [c \in Chunk |->
       IF c \in Chunks(job[p].plan) /\ entry[c].state = "absent"
       THEN Unattempted ELSE entry[c]]
  /\ Goto(p, "preflight")
  /\ UNCHANGED <<planFiles, resultFiles, transcripts, published, lease, job,
                 history>>

(***************************************************************************)
(* TranscriptionCheckpoints.preflight                                      *)
(***************************************************************************)
Permitted(pl, e, r) ==
  /\ \A c \in Chunks(pl) : Succeeded(c) => Saved(c)
  /\ IF r # NoRetry THEN VerifyRetry(pl, e, r)
                    ELSE \A c \in Chunks(pl) : ~InDoubt(c)

(* The selection's epoch and the request's confirmation were fixed with the
   request and are first read here.  They may be any: clearing and restoring a
   selection restarts its epoch, another process may hold an older manifest,
   and a confirmation may be stale, wrong or presented twice. *)
Preflight(p, e, r) ==
  /\ pc[p] = "preflight"
  /\ Permitted(job[p].plan, e, r)
  /\ Goto(p, "chunk")
  /\ With(p, [job[p] EXCEPT !.epoch = e, !.retry = r])
  /\ UNCHANGED <<disk, lease, history>>

PreflightRefuses(p, e, r) ==
  /\ pc[p] = "preflight" /\ ~Permitted(job[p].plan, e, r)
  /\ Leave(p)
  /\ UNCHANGED <<disk, history>>

(***************************************************************************)
(* One chunk of run_api_transcribe                                         *)
(***************************************************************************)
(* The chunk's segments join the track; after a track's last chunk the run
   publishes the track before it goes on. *)
Assemble(p, n) ==
  LET j == [job[p] EXCEPT !.got = @ \cup {<<Here(p), n>>}] IN
    IF LastOfTrack(p) THEN Goto(p, "publish") /\ With(p, j)
    ELSE Goto(p, "chunk") /\ With(p, [j EXCEPT !.at = @ + 1])

Reuse(p) ==
  /\ pc[p] = "chunk"
  /\ Succeeded(Here(p)) /\ Saved(Here(p))
  /\ Assemble(p, entry[Here(p)].attempt)
  /\ UNCHANGED <<disk, lease, history>>

(* begin_attempt's conditions *)
MayAttempt(p) ==
  /\ (job[p].retry # NoRetry /\ ~job[p].spent) =>
       VerifyRetry(job[p].plan, job[p].epoch, job[p].retry)
  /\ \A c \in Before(p) : Succeeded(c)
  /\ InDoubt(Here(p)) =>
       /\ job[p].retry # NoRetry
       /\ ~job[p].spent
       /\ job[p].retry.chunk = Here(p)

(* Mutant: a saved success is attempted again. *)
BeginAttemptForced(p) ==
  /\ pc[p] = "chunk" /\ MayAttempt(p)
  /\ attempts' = attempts + 1
  /\ entry' = [entry EXCEPT ![Here(p)] =
       [state |-> "pending", attempt |-> attempts + 1, epoch |-> job[p].epoch,
        was |-> InDoubt(Here(p))]]
  /\ With(p, [job[p] EXCEPT !.attempt = attempts + 1,
                            !.was = InDoubt(Here(p)),
                            !.spent = @ \/ InDoubt(Here(p))])
  /\ Goto(p, "dispatch")
  /\ UNCHANGED <<planFiles, recorded, resultFiles, transcripts, published,
                 lease, uploads, refused>>

BeginAttempt(p) ==
  /\ pc[p] = "chunk" /\ ~Succeeded(Here(p))
  /\ MayAttempt(p)
  /\ attempts' = attempts + 1
  /\ entry' = [entry EXCEPT ![Here(p)] =
       [state |-> "pending", attempt |-> attempts + 1, epoch |-> job[p].epoch,
        was |-> InDoubt(Here(p))]]
  /\ With(p, [job[p] EXCEPT !.attempt = attempts + 1,
                            !.was = InDoubt(Here(p)),
                            !.spent = @ \/ InDoubt(Here(p))])
  /\ Goto(p, "dispatch")
  /\ UNCHANGED <<planFiles, recorded, resultFiles, transcripts, published,
                 lease, uploads, refused>>

AttemptRefused(p) ==
  /\ pc[p] = "chunk"
  /\ IF Succeeded(Here(p)) THEN ~Saved(Here(p)) ELSE ~MayAttempt(p)
  /\ Leave(p)
  /\ UNCHANGED <<disk, history>>

(***************************************************************************)
(* provider.transcribe_chunk                                               *)
(***************************************************************************)
SendAudio(p) ==
  /\ pc[p] = "dispatch"
  /\ uploads' = uploads \cup
       {[chunk |-> Here(p), attempt |-> job[p].attempt, epoch |-> job[p].epoch,
         proof |-> IF job[p].was THEN job[p].retry.blocked ELSE NoProof]}
  /\ Goto(p, "in_flight")
  /\ UNCHANGED <<disk, lease, job, attempts, refused>>

(* Nothing left the machine: the provider changed, is busy, has no credential,
   or the run was cancelled.  A failed lease release still says "unknown". *)
FailBeforeSend(p, known) ==
  /\ pc[p] = "dispatch"
  /\ Goto(p, "failing") /\ With(p, [job[p] EXCEPT !.known = known])
  /\ UNCHANGED <<disk, lease, history>>

(* The provider answered with a status that proves it did not accept. *)
Refuse(p, known) ==
  /\ pc[p] = "in_flight"
  /\ refused' = refused \cup {job[p].attempt}
  /\ Goto(p, "failing") /\ With(p, [job[p] EXCEPT !.known = known])
  /\ UNCHANGED <<disk, lease, attempts, uploads>>

(* Mutant: the transport resends a lost request by itself. *)
LoseOutcomeAndResend(p) ==
  /\ pc[p] = "in_flight"
  /\ Goto(p, "dispatch")
  /\ UNCHANGED <<disk, lease, job, history>>

(* Timeout, lost connection, cancellation after the first byte, another status
   or a reply that does not validate. *)
LoseOutcome(p) ==
  /\ pc[p] = "in_flight"
  /\ Goto(p, "failing") /\ With(p, [job[p] EXCEPT !.known = FALSE])
  /\ UNCHANGED <<disk, lease, history>>

(* Mutant: the ledger entry is saved without the result file. *)
ReplyUnsaved(p) ==
  /\ pc[p] = "in_flight"
  /\ Goto(p, "saving")
  /\ UNCHANGED <<disk, lease, job, history>>

Reply(p) ==
  /\ pc[p] = "in_flight"
  /\ Goto(p, "replied")
  /\ UNCHANGED <<disk, lease, job, history>>

(***************************************************************************)
(* fail() and succeed()                                                    *)
(***************************************************************************)
(* Mutants: an earlier doubt is forgotten; a state the format does not know. *)
FailedStateForgets(p) == IF ~job[p].known THEN "unknown" ELSE "known_failed"
FailedStateOther(p) ==
  IF job[p].was \/ ~job[p].known THEN "unknown" ELSE "failed"

(* fail: an attempt that resends an unknown outcome can never make it known. *)
FailedState(p) ==
  IF job[p].was \/ ~job[p].known THEN "unknown" ELSE "known_failed"

RecordFailure(p) ==
  /\ pc[p] = "failing"
  /\ entry' = IF StillPending(p)
               THEN [entry EXCEPT ![Here(p)].state = FailedState(p)] ELSE entry
  /\ Leave(p)
  /\ UNCHANGED <<planFiles, recorded, resultFiles, transcripts, published,
                 history>>

SaveResult(p) ==
  /\ pc[p] = "replied"
  /\ IF StillPending(p)
     THEN /\ resultFiles' = resultFiles \cup {<<Here(p), job[p].attempt>>}
          /\ Goto(p, "saving")
          /\ UNCHANGED <<lease, job>>
     ELSE Leave(p) /\ UNCHANGED resultFiles
  /\ UNCHANGED <<planFiles, recorded, entry, transcripts, published, history>>

RecordSuccess(p) ==
  /\ pc[p] = "saving"
  /\ entry' = [entry EXCEPT ![Here(p)].state = "succeeded"]
  /\ Assemble(p, job[p].attempt)
  /\ UNCHANGED <<planFiles, recorded, resultFiles, transcripts, published,
                 lease, history>>

(***************************************************************************)
(* publish_transcript: the immutable file, then the manifest record        *)
(***************************************************************************)
WriteTranscript(p) ==
  /\ pc[p] = "publish"
  /\ transcripts' = transcripts \cup {job[p].got}
  /\ Goto(p, "register")
  /\ UNCHANGED <<planFiles, recorded, entry, resultFiles, published, lease,
                 job, history>>

(* Bundle.save writes the whole manifest this process loaded at Open. *)
RegisterTranscript(p) ==
  LET view == [job[p].view EXCEPT ![TrackOf[Here(p)]] = job[p].got] IN
  /\ pc[p] = "register"
  /\ published' = IF job[p].view = view THEN published ELSE view
  /\ IF LastOfPlan(p) THEN Leave(p)
     ELSE /\ Goto(p, "chunk")
          /\ With(p, [job[p] EXCEPT !.at = @ + 1, !.got = {}, !.view = view])
          /\ UNCHANGED lease
  /\ UNCHANGED <<planFiles, recorded, entry, resultFiles, transcripts, history>>

(* A crash, a cancellation or an I/O error ends the run where it stands; the
   kernel (or the context manager) releases the lease. *)
Stop(p) ==
  /\ pc[p] # "idle"
  /\ Leave(p)
  /\ UNCHANGED <<disk, history>>

(***************************************************************************)
(* Specification                                                           *)
(***************************************************************************)
Step(p) ==
  \/ (\E pl \in Plan : Acquire(p, pl)) \/ Busy(p)
  \/ Initialize(p) \/ StorageError(p) \/ WritePlan(p) \/ SavePlan(p)
  \/ \E e \in Epoch, r \in Retry \cup {NoRetry} : Preflight(p, e, r) \/ PreflightRefuses(p, e, r)
  \/ Reuse(p) \/ BeginAttempt(p) \/ AttemptRefused(p)
  \/ SendAudio(p) \/ (\E known \in BOOLEAN : FailBeforeSend(p, known))
  \/ (\E known \in BOOLEAN : Refuse(p, known)) \/ LoseOutcome(p) \/ Reply(p)
  \/ RecordFailure(p) \/ SaveResult(p) \/ RecordSuccess(p)
  \/ WriteTranscript(p) \/ RegisterTranscript(p)

Next == \E p \in Proc : Open(p) \/ Step(p) \/ Stop(p)

Spec == Init /\ [][Next]_vars

(* A started run keeps taking its steps: threads are scheduled and every HTTP
   call has a deadline.  Nothing promises a request, and nothing a crash. *)
FairSpec == Spec /\ \A p \in Proc : WF_vars(Step(p))
(***************************************************************************)
(* Properties                                                              *)
(***************************************************************************)
(* The execution lease admits one run: nobody else is between taking it and
   publishing (transcription_execution_lock). *)
LeaseExclusive ==
  \A p, q \in Proc : pc[p] \in Leased /\ pc[q] \in Leased => p = q

(* Audio that left the machine, and that the provider did not certainly turn
   down, keeps its chunk blocked until its result is saved: no crash, failed
   write or later known failure makes it look sendable again. *)
DoubtIsKept ==
  \A u \in uploads : u.attempt \notin refused =>
    entry[u.chunk].state \in UnknownStates \cup {"succeeded"}

(* A chunk that may already have been accepted is uploaded again only on a
   confirmation that names that attempt's epoch or a later one, under a newer
   epoch (_verify_retry). *)
ResendIsConfirmed ==
  \A u, v \in uploads :
    (u.chunk = v.chunk /\ u.attempt < v.attempt /\ u.attempt \notin refused)
      => (v.proof # NoProof /\ u.epoch <= v.proof /\ v.proof < v.epoch)

(* One confirmation pays for one upload, across crashes, restarts, repeated
   requests and known failures of the confirmed attempt. *)
ConfirmationSpentOnce ==
  \A u, v \in uploads :
    (u.chunk = v.chunk /\ u.proof # NoProof /\ u.proof = v.proof) => u = v

(* A success the ledger records always has its result file: the file is
   durable before the entry (succeed). *)
SuccessHasResult == \A c \in Chunk : Succeeded(c) => Saved(c)

(* A transcript the manifest names is on disk, covers one recorded plan's
   track completely, and holds for each chunk the very result the ledger
   keeps, even when another process saved an older manifest over it. *)
PublishedIsProven ==
  \A t \in Track : published[t] # {} =>
    /\ published[t] \in transcripts
    /\ \E pl \in recorded : {x[1] : x \in published[t]} = TrackChunks(pl, t)
    /\ \A x \in published[t] : Succeeded(x[1]) /\ entry[x[1]].attempt = x[2]

(* A recorded success is final: no step changes it or uploads its chunk. *)
SuccessIsFinal ==
  [][\A c \in Chunk : Succeeded(c) =>
       /\ entry'[c] = entry[c]
       /\ \A u \in uploads' \ uploads : u.chunk # c]_vars

(* Every run that starts ends and gives the lease back. *)
RunsEnd == \A p \in Proc : pc[p] # "idle" ~> pc[p] = "idle"

(***************************************************************************)
(* The ledger implements ConfirmedDelivery: a chunk's credit is a process  *)
(* standing between its durable receipt and the upload.                    *)
(***************************************************************************)
Mark(c) == CASE InDoubt(c) -> "doubt"
             [] Succeeded(c) -> "done"
             [] OTHER -> "open"

D == INSTANCE ConfirmedDelivery WITH
       mark   <- [c \in Chunk |-> Mark(c)],
       epoch  <- [c \in Chunk |-> entry[c].epoch],
       resent <- [c \in Chunk |-> entry[c].was],
       credit <- [c \in Chunk |->
                    \E p \in Proc : pc[p] = "dispatch" /\ Here(p) = c],
       sent   <- [c \in Chunk |-> {u.attempt : u \in {w \in uploads : w.chunk = c}}]

(* Each chunk's audio is delivered as the abstract protocol promises: one
   upload per grant, a further grant only above the epoch in doubt, and no
   grant after the result. *)
ImplementsDelivery == D!Spec
=============================================================================
