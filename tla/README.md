# narumi: TLA+ models, checks and proofs

narumi records meetings on macOS and turns them into transcripts and minutes.
This directory models the parts of it whose correctness depends on the order of
durable writes, on threads and processes that meet, and on requests to metered
services whose outcome may stay unknown. Every module is translated from the
source; paths below are relative to the repository, with `P` for
`pipeline/src/narumi`, `S` for `server/src/narumi_server` and `A` for
`app/Sources`.

`PROJECT.json` lists, per definition, the lines it stands for; the hazards of
the code, each with the properties that would catch it going wrong; and the
theorems.

## 1. The system

### 1.1 Components and their state

| Part | Code | State | Operations |
|---|---|---|---|
| API transcription ledger | `P/transcribe/{checkpoints,_storage,_checkpoint_format,api_stage,api_transcript}.py` | `ledger.json`, `plans/`, `results/`, `execution.lock` of a meeting; immutable transcripts; the manifest's record | lease, register plan, preflight, begin / fail / succeed an attempt, publish a track |
| Chunk plan | `P/transcribe/{chunks,_wav}.py` | content-addressed chunk files, staged files | open, stream and hash, install, check the sources again |
| Recording session | `S/recording.py`, `S/handlers/recording.py`, `S/context.py` | recorder process, active meeting, operation gate, controller lock; manifest status | start, stop, permission and display queries, close |
| Minutes checkpoints | `P/generate/{checkpoints,bounded}.py` | one checkpoint file per provenance, one retry guard per meeting | open (inventory check), complete a prompt (reuse, receipt, dispatch, outcome), resolve the guard |
| Minutes text | `P/generate/{minutes,bounded}.py`, `P/slides/embed.py` | the prompts and summaries of one generation | chunk, summarise, reduce, write |
| Merged transcript | `P/align/intervals.py`, `P/generate/{integrate,cache,speakers,asr_speakers}.py` | `merged.json` and its cache of intervals | align, integrate, name |
| Meeting bundle, pipeline stages | `P/bundle`, `P/pipeline.py`, the `run_*` of each stage, `P/playback` | manifest, artifacts with input hashes, versions of minutes | run a stage, process, refresh, discard, play back |
| Catalog | `P/catalog`, `S/handlers/{meetings,search}.py` | derived index, jobs, audit log | upsert, index, rebuild, list, search |
| Replay by `request_id` | `S/idempotency.py` | table `requests` (disk); registry of locks (memory) | run, look a lock up, clean the registry |
| Meeting jobs | `S/jobs.py`, `S/locks.py`, `S/handlers/{common,processing,meetings,lifecycle}.py` | table `jobs`, manifests (disk); futures, cancel events, meeting locks (memory) | submit, run, cancel, shut down, recover; locked writes of a meeting |
| Provider registry and leases | `P/providers/{service,store,_requests,connections,catalog,generation,transcription}.py` | registry document, Keychain accounts, receipts, the provider's lease | connect, replace a key, test, probe, delete, select, generate, recover |
| Sign-in | `P/providers/{auth,_codex_auth}.py`, `P/providers/codex/_session.py` | authentication operations, the credential file, the backend's slot | sign in, cancel, sign out, disable, delete, close, start |
| Provider runtimes | `P/providers/{runtime,_runtime_lease}.py`, `P/providers/codex/_runtime.py` | installed and verified executables, `flock`, preparations | prepare, accept, copy, verify, cancel, recover |
| Provider protocols | `P/providers/http_generation.py`, `metadata/`, `openai_compatible*.py`, `claude/`, `codex/` | sockets, deadlines, worker processes, process trees | one request, one worker, one turn |
| Engines, diarization, exporters, gaia | `P/transcribe`, `P/diarize`, `P/export`, `P/gaia` | none of their own | pure computation, external libraries, single requests |
| Transports, dispatch, command lines | `S/app.py`, `S/transports.py`, `S/secure_transport.py`, `S/cli*.py` | data-root lease, bootstrap file | dispatch a tool on a thread |
| Menu-bar app | `A/NarumiMenuBarCore`, `A/NarumiMenuBar` | update gate, request and retry stores, ownership of server and runtime | user interface and its state machines |
| Recorder | `A/NarumiRecorderKit`, `A/narumi-recorder` | capture | start, stop, events |

### 1.2 How they interact

* A tool call is dispatched on a thread (`S/app.py`), passes the **replay**
  store, and reaches a handler. Handlers that write a meeting take its **write
  lock**; long work is submitted as a **job** while the lock is held, and the
  job takes the same lock when it runs.
* A job brings the **stages** of a bundle up to date. With a selected model its
  transcription stage builds a **chunk plan** and runs the **ledger**, its
  integration stage asks the model about the intervals that changed, and its
  minutes stage runs the **text** under the **checkpoints**; every call of a
  model takes the **provider lease** in the registry, and then speaks one of
  the **protocols**. `narumi-dev` runs the same transcription stage in its own
  process, so the ledger is shared by processes, with `execution.lock` as its
  lease.
* The **catalog** is refreshed after each manifest is saved; its rebuild takes
  no meeting's lock.
* **Recording** handlers share the controller with the shutdown of the server,
  which stops an active recording before it waits for jobs.
* The app and the CLI are clients of the tools.

### 1.3 What is hard

1. *Unknown outcomes.* A request that may have been accepted is billed and must
   not be repeated by itself; crashes, lost answers, certain refusals of a
   confirmed retry, stale or repeated confirmations and epochs that move back
   all meet in a few durable entries (ledger, checkpoints, receipts of probes),
   and each protocol has to tell which of its failures are certain.
2. *Two stores, one fact.* Result before entry, plan before ledger, checkpoint
   before guard, row after lock, registry before Keychain, file before record,
   manifest before index: a crash fits between any two writes.
3. *Reads before a lock, used after it.* The active meeting (stop), the busy
   check (`locked_bundle`), a looked-up lock (`idempotency.py`), a provider
   record before and after the call it was read for, a manifest a rebuild
   opened.
4. *Processes that outlive their owner*: a recorder, a Claude worker with its
   CLI, a Codex app server with descendants that leave the group.
5. *Shutdown while threads are at work*, and restart after a death.

### 1.4 What makes each part correct

* Ledger: doubt is never lost, a resend is confirmed and pays one upload,
  recorded successes have their results and are final, published transcripts are
  proven by the ledger, the lease is exclusive, runs end. Chunk plan: it covers
  the audio the manifest names, and the same audio has the same plan.
* Recording: no recorder process without a controller that can stop it; an
  active recording stays under status `recording`; a failed start leaves
  nothing, a capture leaves its bundle; calls return.
* Checkpoints: doubt is guarded and overtaken only under a newer epoch, answers
  are final, the budget survives restarts. Text: every prompt fits and nothing
  that was said is dropped.
* Merged transcript: what reuses rows is what a run from nothing makes.
* Bundle: an artifact is made of what its record says, a job that ended well
  leaves the bundle current, versions and words stay.
* Catalog: lists and searches say what the manifests say.
* Replay: calls of one key are serialized, a saved call takes effect once.
* Jobs: one job per meeting, run under the configuration it was accepted with;
  rows end, once; the status tells the truth.
* Providers: no key or credential is lost in a store or left without a record
  that shows it; a lease is owned and given back; a probe is paid once; a
  runtime called ready is the one that was verified; an outcome told as certain
  is certain; no process outlives its call unnoticed.

## 2. The modules

| Module | Models | Run | Proved |
|---|---|---|---|
| `TranscriptionLedger` | ledger, lease, chunk loop, publication | `transcription` | `TranscriptionLedgerProofs` |
| `ConfirmedDelivery` | abstract: what is promised per audio chunk | `transcription` (as `ImplementsDelivery`) | `TranscriptionLedgerProofs` |
| `RecordingSession` | controller, handlers, shutdown | `recording`, `wrong_meeting`, `close_race` | `RecordingSessionProofs` |
| `MinutesCheckpoints` | checkpoint and guard files | `pipeline`, `minutes_wedge` | `PipelineProofs` |
| `BundleStages` | stages, records, versions, edits of a bundle | `pipeline`, `stale_artifact` | `PipelineProofs` |
| `Integration` | alignment, speaker votes, cached rows, names | `pipeline` | no |
| `ChunkPlan` | cutting and hashing audio that may change | `pipeline` | no |
| `MinutesText` | prompts within their limits | `pipeline` | no |
| `Catalog` | index, writers, rebuild, reads | `pipeline` | `PipelineProofs` |
| `Idempotency` | replay store and lock registry | `idempotency` | `IdempotencyProofs` |
| `MeetingJobs` | job manager, meeting locks, locked handlers | `jobs` | `MeetingJobsProofs` |
| `ProviderRegistry` | connections, keys, leases, receipts | `providers` | `ProviderRequestProofs` |
| `ProviderSignIn` | sign-in and its credential file | `signin`, `signout_overtaken` | `ProviderSignInProofs` |
| `RuntimePreparation` | preparing an executable | `providers` | `ProviderRuntimeProofs` |
| `ClaudeWorker` | one-shot workers and their watchdogs | `providers` | `ProviderRuntimeProofs` |
| `CodexGeneration` | an app server and its process tree | `providers` | `ProviderRuntimeProofs` |
| `ProviderExchange` | one HTTP request | `providers` | `ProviderRequestProofs` |

The `MC*` modules declare model values, instances and symmetry. Two of them
compose: `MCPipeline` puts the six parts that make minutes of a recording into
one specification, `MCProviders` five parts of the provider layer. The parts
of one composition share no variable: what one hands to the other is, for the
receiver, an input it takes as arbitrary (a plan, a text, a lease's outcome).
So `focus` picks the part that moves while the others rest in an initial state;
interleaving them would multiply states and add no behaviour. The sign-ins share
no variable with the rest either; `MCSignIn` runs them alone, with more handlers
and operations than the composition has room for.

Definitions marked *a plausible bug* are wrong variants that stand before the
definition they vary. No action uses them; they show that a property is able to
fail.

### 2.1 `TranscriptionLedger`

A process (`Proc`) is a server job or a `narumi-dev` run. `pc[p]` is its place in
`run_api_transcribe`, `job[p]` what it holds in memory: plan, epoch, retry
confirmation, position, the attempt in hand, and `view`, the manifest it loaded.
On disk: `planFiles`, `recorded` (plans of `ledger.json`), `entry` (its
entries), `resultFiles`, `transcripts`, `published` (the manifest), `lease`.
Audio, hashes and texts are abstracted: a chunk is a model value that may belong
to two plans, a result is its attempt's number, a transcript is the set of
(chunk, attempt) pairs it was assembled from.

| Code | Actions |
|---|---|
| `transcription_execution_lock` | `Acquire`, `Busy` (it never waits) |
| `_initialize` | `Initialize`, `StorageError`, `WritePlan`, `SavePlan` |
| `preflight` | `Preflight`, `PreflightRefuses` |
| chunk loop, `begin_attempt` | `Reuse`, `BeginAttempt`, `AttemptRefused` |
| `transcribe_chunk` | `SendAudio`, `FailBeforeSend`, `Refuse`, `LoseOutcome`, `Reply` |
| `fail`, `succeed` | `RecordFailure`, `SaveResult`, `RecordSuccess` |
| `publish_transcript`, `Bundle.save` | `WriteTranscript`, `RegisterTranscript` |
| crash, cancellation, I/O error | `Stop`, at every place |

An error before a rename and one after it end a run alike, keeping what was
installed: they are `Stop` before and after the action. Epoch and confirmation
of a run are arbitrary, since a selection that is cleared and restored restarts
its epoch and a confirmation may be stale or repeated. `attempts`, `uploads`
and `refused` are observations; no guard but the bound `MaxAttempts` reads them.

`ConfirmedDelivery` says what the design document promises for one chunk: an
upload spends a grant, a grant above doubt needs the user's confirmation and a
higher epoch, a delivered result is final. The mapping (`D` in the ledger) reads
the mark off the entry's state, and the grant's credit off a process that stands
between its receipt and the upload.

### 2.2 `RecordingSession`

Threads that start, threads that stop, and the one that closes the server share
the controller. A step is what a thread does between two points where another
thread's step matters. `gate` is the fail-fast operation gate, `control` the
controller's lock while a start waits for its recorder; `active` and `proc` are
the fields others read without it. A recorder may exit at any moment, with or
without its last event. `StopStep` follows `stop_recording`: read the active
meeting, take *that* meeting's lock (5 s), stop *the* recorder, finalize. The
closer runs the same handler and then aborts. Each start uses up one id.
Queued jobs do not run here (they are in `MeetingJobs`), and nothing repairs a
manifest left `recording` by a killed server: no code does.

### 2.3 `MinutesCheckpoints`

`Path` is what a checkpoint is named after: attempt identity, cache epoch and the
rest of the provenance. `attempts` and `entry` are in the checkpoint, `guard` and
`owner` in the retry guard. `Open` is the constructor with
`_verify_guard_inventory`; `Reuse`, `SaveReceipt`, `SaveGuard`, `Dispatch`,
the outcomes and the two saves after each outcome are `complete`. `doubt` and
`sends` are observations.

### 2.4 `BundleStages`, `Integration`, `ChunkPlan`, `MinutesText`

`BundleStages`: `saved` is the manifest on disk, `files` what each path holds,
`media` the tracks, `work` the job or call at work with its manifest in memory.
A job goes through `Stages`; each is `Skip`ped, or dropped (`Drop`, `DropFile`),
or `Write`s its files one by one and `Save`s its record; `Publish`, `Finish`,
`Fail`, `Cancel`, `Crash` end it. Calls under the meeting's lock are `SetConfig`,
`RegisterContext`, `DiscardTracks`, `PreparePlayback`. A file's content, and so
its hash, is what it was made of, so `Inputs` are compared as the code compares
hashes. `misread` remembers stages that were skipped with a file that is not
the recorded one (see `stale_artifact`).

`Integration`: `RunIntegrate` is one run with or without force, dying before or
after the cache is written. `Clusters`, `IntervalDrafts`, `AssignByOverlap` and
`Fingerprint` follow the functions of those names; a model's answer is its
prompt, so a row made of another interval differs.

`ChunkPlan`: a run opens the tracks, streams and hashes them chunk by chunk,
compares what it read with what it opened, installs, and checks all sources
again. `ReplaceAudio` changes a file between any two steps.

`MinutesText`: `ChunkLines` and `SplitText` cut the transcript, `Take`, `Recall`,
`Complete`, `Reduce` ask for summaries until they fit. A character is the set of
lines it tells of, so "nothing is dropped" can be said of the final prompt.

### 2.5 `Catalog`

`bundle` is the truth on disk, `rows`, `entries`, `found` the index, `writer` the
thread that holds a meeting's lock, `rebuild` the one that holds none. Each
transaction is a step: `Save` of the manifest and `SyncCatalog` of its rows are
two. `doubted` remembers the meetings whose rows a crash or a rebuild left
behind (section 3.4).

### 2.6 `Idempotency`

A lock object is numbered as it is made (`made`), because the registry
(`inflight`) may drop a key and make another lock for it. `LookupBlocking` is `_lock_for` alone; `Acquire`
comes later; `LookupPermission` does both under the guard. Then `Replay`, or
`Start`, `HandlerSucceeds` / `HandlerFails`, `Save` / `SaveFails`. `Restart` keeps
the `requests` table only.

### 2.7 `MeetingJobs`

Handlers: `Begin` (checks before the lock), `TakeLock` / `GiveUp`, `Recheck`, then
`Submit` (regenerate), `SetConfig` or `Delete`, or `Raise`. Worker: `Start`,
`MarkRunning`, `Open`, one of `StageSucceeds` / `StageFails` / `StageCancelled`,
`Finish`; a `provider_setup` job has no meeting and goes through `Setup`. Users:
`CancelQueued`, `CancelRunning`. Server: `Close`, `Exit`, `Crash`, `Restart`.
Writes of bookkeeping may fail (`Fault`); a failed row write leaves an *orphan*,
a failed status write or a death an *abandoned* meeting, both remembered as
observations. The deletion of a meeting is a configuration `Deleted`.

### 2.8 The provider layer

`ProviderRegistry`: `record` and `catalog` of each connection, the lease
`check`, `receipt` per request, `keychain`, `selection`; `swap` is a credential
swap inside its transaction, with its steps against the Keychain. `task` is a
thread that waits for the provider (`BeginTest` / `EndTest`, `BeginVerify` /
`Send` / `EndVerify`, `BeginGeneration` / `EndGeneration`, `BeginTranscription` /
`EndTranscription`). `EndFails` is a release that could not be written and
`RecoverRelease` the thread that retries it. `Close`, `Stop` (a death), `Start`,
`DeleteStale`, `ClearMarker`, `FinishStart` are the ends and starts of a server.

`ProviderSignIn`: a handler's steps (`Register` and `StopWorker`, or `SignOut`;
`AwaitWorker`, `Reserve`, `Clear`, `Confirm` or `GiveUp`) against a worker's: of a
sign-in `PrepareRecord`, `BeginErase`, `BeginLogin`, `Install` or `EndSession`,
`Finish` or `Resolve`; of a sign-out `BeginSignOut`, `AwaitSignOut`, `EndSignOut`.
One connection and its `file`. `phase` is the backend's registered generation,
`slot` the operation it runs, `target` the generation a call of the backend's
`logout` has read. `Close` is the service's part of a shutdown, `CloseBackend` and
`Drain` the backend's. `Start` removes crash copies; if it cannot, it records a
credential it has not seen. Every read of the registry by a worker may fail as
well, which counts as "not pending" (`Dequeue`, `EndSession`, `EndInstall`,
`BeginSignOut`). `conn.assumed` is an observation: `present` was written by a step
that had not looked at the file.

`RuntimePreparation`: `Prepare`, `Submit`, `Accept` hold the registry's lock; a
job passes its gate, then `Inspect`, `Copy`, `Verify`, `Finish`; whoever sees the
job's row ended does `Observe`. `flock` is the operating system's lock.

`ClaudeWorker`: the call's thread (`Enter` .. `Leave`), the watchdog (`Boot`,
`Watch`, `SignalTerm`, `CleanUp`), the worker (`ReadRequest` .. `Answer`) and its
CLI are processes of their own; each may die, and the server too.

`CodexGeneration`: the generation's thread, whoever cancels it, the watchdog
and the tree (app, anchor, a stray that left the group). `Freeze` stops all
processes before `FinishTerminate` kills them.

`ProviderExchange`: `TakeSlot`, `Resolve`, `Connect`, `Handshake`, `Mark`, `Write`,
`ReadHead`, `ReadBody` with `Expire` and `Poll` closing the socket under them;
the parsers (`ParsedMinutes`, ...) say what each kind of answer means.

## 3. The runs

| Run | Instance | Question |
|---|---|---|
| `transcription` | two scopes, see 3.1 | Is doubt kept, is every resend confirmed, does a confirmation pay once, are successes backed and final, is the lease exclusive, is what is published proven, does every run end, and does the ledger implement `ConfirmedDelivery`? |
| `recording` | 2 ids, 1 starter, 2 stoppers, the closer, fair | No stray recorder, bundles are of captures, calls end |
| `wrong_meeting`, `close_race` | same | *violations*, see 3.3 |
| `pipeline` | `MCPipeline` | Doubt and budget of the checkpoints; records, versions and words of a bundle; reuse of rows; plans of chunks; prompts; the index |
| `minutes_wedge` | 2 epochs, 2 provenances, 2 prompts | *violation* |
| `stale_artifact` | bundle, no edits, two answers of the model, one stop | *violation* |
| `idempotency` | 3 callers, 2 blocking keys, 1 permission key, registry of 2 keys, 4 calls | Serialization, one effect, return |
| `jobs` | 1 meeting, 2 handlers, 2 jobs, 1 death, 1 failed write | One job, accepted configuration, truthful rows and status, all work ends |
| `signin` | sign-ins, 1 handler, 2 operations, 3 revisions, 2 starts, 1 failure | Does a credential ever stay unseen, does a session shown have one, is a record written blindly only after a failure, and does a handler that withdraws an operation return? |
| `signout_overtaken` | sign-ins, 2 handlers, 3 operations, 3 revisions, no failure | *violation* |
| `providers` | `MCProviders` | Keys, leases and receipts; runtimes; the three protocols; whatever begins settles |

### 3.1 Bounds, and why they are enough

* `transcription` checks two scopes at once, told apart by `deep`. The wide one
  has both processes and both plans (a microphone track is added to a meeting,
  the system chunks are shared), one attempt and one epoch below the bounds of
  the cfg. The deep one has one process and one plan, but epochs 0..2 and three
  attempts: it takes an attempt, a confirmed attempt, and one that presents the
  same confirmation again. Lease, publication and shared results need two
  processes or plans and no third attempt; the spending of a confirmation
  needs no second process, because the lease admits one. The theorems hold for
  all processes, plans, epochs and attempts.
* Recording: two stops, one shutdown and a start suffice for every pair of calls
  to overlap; two ids let a stop that waited meet another recording.
* Checkpoints: `MaxReceipts` = 4 receipts cover two prompts under two
  provenances or epochs, and a retry; the theorems drop all bounds.
* Bundle: three configurations that switch the diarization engine, the provider
  and the hints, two versions of minutes, two edits, one crash, failure or
  cancellation: a job, an edit, a job that stops anywhere, and a job after it.
  `stale_artifact` has two answers of the integrating model.
* Integration: two or three recordings of each of three sources (talk over each
  other, silence, blank text, voices told apart or not), three clock offsets,
  two changes, so that rows are cached, changed, and changed back.
* Chunk plan: chunks of 2 samples, tracks of 0, 1 and 3, at most 3 chunks and 5
  samples, so that a track is empty, fits, spills over, and breaks a limit;
  two runs, two upsets.
* Text: prompts of 9 characters with numbers that take a second digit from 3
  on, so that a long line is split, the room shrinks as the count grows, and
  two reductions happen or are refused.
* Catalog: two meetings, two scopes, three events among writes, rebuilds and
  crashes: a rebuild overtaken by a writer, a crash between save and upsert,
  and a read after both.
* `Limit`, `Drop` (replay): 4096 and 2048 in the code. Two and one keep their
  shape: the new key makes the registry overflow and an old key goes. `MaxCalls`
  = 4 is enough to look a key up, overflow with two others, and look it up
  again.
* `MaxJobs`, `MaxCrashes`, `MaxFaults` (jobs): a second job of the meeting after,
  or beside, a first one; a failed write before and after a death.
* Providers: one connection, two threads that wait for its provider, three
  requests (an update, a probe and a deletion, or a retry), two starts of the
  server, one failure of a store; two preparations and two servers; one Claude
  call and two servers, two mishaps; one Codex turn with its two
  sessions; one request of each of the six HTTP kinds, repeated once by its
  thread, with a resolver that may be abandoned.
* Sign-ins: `signin` has one handler, which may be the closing one, against the
  workers of two operations, one failure (a read, a write or a removal, at work
  or at a start) and one death; what a handler waits for is the worker's. Handlers
  meet each other in `signout_overtaken` and in the theorem, which is about any
  number of both. The second and third operation of `signout_overtaken` are the
  later session, and what takes its generation away.

`CHECK_DEADLOCK FALSE` is set where the model stops at a bound (attempts, ids,
calls, events) and in `minutes_wedge`, where the meeting really stops. `jobs`
checks deadlock.

### 3.2 Fairness

Weak fairness of a started call, run or process: its thread is scheduled, and
everything it waits for has a deadline (HTTP deadlines, the lock timeout of five
seconds, recorder events, process exit, the watchdogs' limits). Nobody has to
start, stop, cancel, close or restart anything, and no crash, answer or reply is
fair: a peer may stay silent for ever, and the deadline is what ends the wait.
A job waits for the meeting lock without a timeout; weak fairness is enough
because a handler only reaches the lock if it passed the busy check before the
job was accepted, and there are finitely many such handlers. Python's locks are
not fair either, and the same argument makes that harmless.

`HandlersReturn` says that a handler returns whatever the worker it waits for does.
`ProvidersSettle` states of the parts of `MCProviders` that what begins ends: `Begun(n) ~>
Ended(n)`. Three of the ends have an alternative that the code has too: a release
whose recovery thread died with its server waits for the next start; a watchdog
that was killed from outside can end nothing (`OrphanEnded`); a stopped process
stays stopped if the system calls that would kill it fail twice (`StoppedKilled`).

### 3.3 Where the code and its own words differ

* `wrong_meeting`: a stop that read the active meeting and then waited for its
  lock stops whatever recording is active by then, and marks the meeting it
  waited for.
* `close_race`: shutdown aborts a recording that started after it looked.
* `minutes_wedge`: a crash between the checkpoint's receipt and the guard's makes
  the inventory refuse every later generation, under any epoch.
* `stale_artifact`: settings never change in this run. A job forced to integrate
  again gets another answer, writes the merged file in place of the recorded one
  and fails before the record is saved; in the next job `run_stage` skips, since a
  file exists and the old record matches, although it is not the file recorded.
  What is made of it is recorded under the old hash.
* `signout_overtaken`: `logout` of the backend reads which generation is registered
  and deletes the credential later (`P/providers/codex/backend.py:425-448`). If the
  sign-out is cancelled in between, a sign-in succeeds and a further one is
  withdrawn before it began, there is again "no generation", and the stalled
  worker deletes the credential of the session that the record goes on showing.
  The handler of a sign-out is as late when it cancels the sign-in it took over
  from (`P/providers/_codex_auth.py:371-383`). The design
  (`docs/superpowers/specs/2026-08-28-provider-workflow-contracts.md:37`) says that
  `credential_present` tells whether there is a secret.

`PROJECT.json` quotes the lines. The passing runs state what holds instead:
`ReceiptsAccount`, `MadeOfItsInputs` with its
`misread`, and `ShownSessionExists`, which excepts a cancelled sign-out
(`SignOutCancelled`) and a record written without a look at the file (`assumed`),
which `AssumedForAReason` allows only after a failure or such a sign-out.

### 3.4 What the models show besides

These follow from the code as modelled; no run shows them by itself.

* A crash between the first plan file and the first ledger leaves a plan although
  nothing was attempted; `_initialize` then refuses the meeting's ledger
  (`StorageError`), while `P/transcribe/checkpoints.py:95-96` says that a plan proves
  the namespace is not fresh.
* A cleanup of the lock registry between a call's lookup and its acquire lets two
  calls of one blocking key run at once, which `S/idempotency.py:5-6` excludes:
  that is the exception in `SerializedUnlessEvicted`.
* Only a generation recovers a release of its lease that failed; a connection
  test, a probe or a transcription leaves it until the next start.
* A replacement or deletion of a key that is cut short leaves a receipt that the
  next start calls unknown. `_reject_duplicate_unknown_probe` reads it as a probe
  of an earlier version (`P/providers/catalog.py:456-465`) and refuses every later
  probe, of any connection (`ProbeInDoubt`).
* A server that starts while an orphan watchdog still cleans up finds its lock
  taken: its Claude backend stays unusable until the next start. Two last calls
  that leave a closed backend together each see the other and release neither
  the image nor the lease.
* A Codex watchdog that is killed while it starts leaves no process the session
  knows of, so the connection is not poisoned (`UnnoticedStart`).
* A worker's poll of the registry that fails counts as a withdrawal
  (`P/providers/_codex_auth.py:228-237`), and what it then records need not be so.
  While a Codex session closes, the new credential is passed over and the sign-in
  is recorded as succeeded, without a credential; in the queue or at the start of
  a sign-out, the operation is recorded as cancelled without a credential, while
  an earlier one stays in its file. Both need that one read to fail and the write
  after it to succeed. `conn.assumed` marks such records.
* A start that cannot remove crash copies records `credential_present` TRUE, with
  `auth_state` "unknown", whatever there is (`P/providers/service.py:317-320`).
* A resolver that its request abandoned keeps its slot until the system answers.
* A crash after `discard_tracks` unlinked and before it saved makes processing
  fail until the discard is repeated; a playback whose record was not saved is
  not deleted with its tracks.
* Slide images removed by a forced run that failed make later minutes fail until
  slides are forced again.
* A manifest that is saved, or a meeting that is deleted, between a rebuild's
  open and its upsert leaves a stale row until the next write or rebuild; so does
  a crash between a save and its upsert. Nothing resyncs at a start.
* A cached row keeps the order of its sources; comparing that order as well
  would make `ReusedIsFresh` fail.
* A server killed during a recording leaves the manifest `recording`.

## 4. The proofs

### 4.1 The ledger

`TranscriptionLedgerProofs` proves, for any finite or infinite sets of
processes, plans, chunks and tracks, any epochs and any number of attempts:

| Theorem | Property |
|---|---|
| `TypeCorrect` | `TypeOK` |
| `LeaseIsExclusive` | `LeaseExclusive` |
| `DoubtNeverLost` | `DoubtIsKept` |
| `ResendsAreConfirmed` | `ResendIsConfirmed` |
| `ConfirmationsAreSpentOnce` | `ConfirmationSpentOnce` |
| `SuccessesHaveResults` | `SuccessHasResult` |
| `SuccessesAreFinal` | `SuccessIsFinal` |
| `TranscriptsAreProven` | `PublishedIsProven` |
| `LedgerImplementsDelivery` | `ImplementsDelivery` |

The assumptions are `LedgerAssumption`: plans are nonempty sequences of distinct
chunks (`_plan_fingerprint` hashes ordered, distinct chunk fingerprints), each
chunk has a track, and the null values are none of the others; and
`TracksAreTogether`: a plan goes through one track after the other, as
`run_api_transcribe` plans them in its loop over the tracks. Without it a
transcript could be published before its track is complete. TLC evaluates both
in every run of the module.

None of these properties is inductive. The inductive invariant has two parts.

* `Control` = `TypeOK` /\ `LeaseInv` /\ `PositionInv`: a run is past the lease
  exactly when the lease names it, and stands at a chunk of its plan. It gives
  `Alone`: while the holder works, no other run has an attempt in hand. That
  makes each receipt the business of one process, so the second part can be
  stated per process.
* `Data`: what is on disk against what is in hand. `ReceiptInv`: an attempt in
  hand is the pending entry, and a confirmed one has a newer epoch than the one
  it confirms. `AttemptsInv`, `UploadInv`: attempt numbers only grow, and every
  upload that counts (not certainly refused) leaves its entry in doubt or done,
  under an epoch at least its own; without it a confirmation that names the entry's epoch
  would say nothing of the uploads. `PhaseInv`: what is known of earlier uploads
  of the chunk in hand, step by step, in particular that a failure may be
  recorded as known only if no upload counts. `SavingInv`: the result file is
  there before the entry that claims it.

`Control` is proved inductive by itself, `Data` relative to it: one lemma per
group of actions, `QuietSteps` for all that touch neither entries nor uploads.
The safety theorems then follow with `PTL`; `SuccessesAreFinal` is a step
property under the invariant.

`PublishedIsProven` relates a manifest to what a loop put together over many
steps. Its invariant (`AssemblyInv`, `PublishedInv`) says at every place which
part of a plan a run has assembled: the chunks of the track at hand before its
position (`PartOf`), each with the result the ledger keeps. Four lemmas about
`PartOf` (it starts empty, grows by the chunk at hand, continues on the same
track, and is the whole track after its last chunk) carry the loop. It also
covers what a run has only loaded (`view`), since it saves that with its own.

The refinement is proved step by step for the mapping `D`: `Acquire` and every
step that touches no entry and no upload stutters; `BeginAttempt` is a grant,
`SendAudio` an upload, `RecordFailure` with no outcome known keeps doubt, and so
on. It needs, beyond `Control` and `Data`, that a request in flight or answered
is among the uploads (`SentInv`) and that an absent entry is the initial one
(`AbsentInv`).

### 4.2 The checkpoints

`PipelineProofs` proves, for any sets of selections, provenances and
prompts, any budget and any number of epochs:

| Theorem | Property |
|---|---|
| `TypeCorrect` | `TypeOK` |
| `DoubtStaysGuarded` | `DoubtIsGuarded` |
| `ReceiptsAlwaysAccount` | `ReceiptsAccount` |
| `NothingIsPaidTwice` | `NothingPaidTwice` |

The assumption is `CheckpointAssumption`: natural bounds, and null values that
are no path and no prompt. `IInv` strengthens the promises by what every step
knows: `EntryAtStep` and `GuardAtStep` (what the receipt and the guard of the
prompt at work say), `NewestDoubt` (all other doubt of its selection is of an
earlier epoch: `Unblocked` gives it when the receipt is saved, and it stays
until the outcome is recorded), `SendsCounted` (a request is counted before it
is sent), `OwnersExist`, `BlocksAreGuarded` and `ResolutionsHold` (what a guard
entry claims of the checkpoint it names). `DoubtIsGuarded` alone is not
inductive: `SaveGuard` takes an entry over, and only `NewestDoubt` says that no
request in doubt is under it. One lemma per action that changes a file
(`SaveReceiptInv`, `SaveGuardInv`, `DispatchInv`, `OutcomeInv`, `ResolvedInv`,
`ReuseInv`), `RestInv` and `ProviderInv` for the others. `PipelineRunsMinutes`
says that the composed pipeline refines `MinutesCheckpoints`: every run of
`MCPipeline` is one of it, so all of this holds where the checkpoints are used.

### 4.3 The recorder

`RecordingSessionProofs` proves, for any sets of meetings, of threads that start
and of threads that stop:

| Theorem | Property |
|---|---|
| `TypeCorrect` | `TypeOK` |
| `RecordersAreNeverStray` | `NoStrayRecorder` |
| `BundlesMatchCaptures` | `BundlesAreOfCaptures` |

`SessionAssumption`: a starter, a stopper and the closer are different threads,
and the null values are no meeting and no thread. `NoStrayRecorder` says what an
idle gate means; to keep it, `IInv` says who may write what at every place of a
call: the gate has one start (`GateIsHeld`), a start owns its meeting's lock
(`StartOwnsMeeting`) and knows how far its manifest and recorder are
(`StartAtStep`), the controller's lock is held only across a launch
(`ControlIsLaunching`), a recorder at work is the controller's
(`RecordersAreKnown`), and a stop, under its lock, writes a manifest only once
its meeting is not the active one (`StopAtStep`).

### 4.4 Replay by `request_id`

`IdempotencyProofs` proves `TypeOK` (`TypeCorrect`), `SerializedUnlessEvicted`
(`CallsAreSerialized`) and `TakesEffectOnce` (`EffectsHappenOnce`) for any number
of callers and keys and any size of the lock registry, from `StoreAssumption`
(permission keys are keys, `Drop` is at most `Limit`). `HoldersExclude` (calls
that hold a lock hold different ones) and `CallsHaveLocks` (the lock a call waits
for is still the registry's, unless its key was dropped) make two calls of a key
exclude each other; `RunsUnsaved` and `EffectsAreSaved` make the second replay
what the first saved. `LockForGives` is the lemma about a lookup and the cleanup
it may do.

### 4.5 Jobs

`MeetingJobsProofs` proves, for any number of meetings, handlers, jobs, deaths
and failed writes:

| Theorem | Property |
|---|---|
| `TypeCorrect` | `TypeOK` |
| `AcceptedJobsStand` | `AcceptedJobStands` |
| `ShownWorkIsAlwaysReal` | `ShownWorkIsReal` |
| `FinishedRowsAreFinal` | `FinishedIsFinal` |

`JobsAssumption`: handlers and jobs are different owners of locks, and the null
values are none of the others. That a configuration is not written under an
accepted job rests on what a handler knows between the second check and its
write (`WritersAreAlone`), that on the lock being its own (`Locks`), and on the
worker being in a stage only under the same lock (`Steps`). `WorkHasRow` and
`Ends` relate a future to its row; `Interrupted` says that a cancelled job brings
"processing" back only where a death had left it.

### 4.6 The provider layer

Two modules prove, about `MCProviders`, where each part moves as in its own
module, every promise the run `providers` checks, and a third, about `MCSignIn`,
the promise of `signin`, for any values of the constants:

| Theorem | Property | Module |
|---|---|---|
| `RegistryIsSafe` | `RegistrySafe` | `ProviderRequestProofs` |
| `ExchangesAreSafe` | `ExchangeSafe` | `ProviderRequestProofs` |
| `RuntimesAreSafe` | `RuntimeSafe` | `ProviderRuntimeProofs` |
| `ClaudeCallsAreSafe` | `ClaudeSafe` | `ProviderRuntimeProofs` |
| `CodexGenerationsAreSafe` | `CodexSafe` | `ProviderRuntimeProofs` |
| `SignInsAreSafe` | `SignInSafe` | `ProviderSignInProofs` |
| `RequestTypes`, `ProcessTypes`, `TypeCorrect` | the parts' `TypeOK` | each of the three |

from `ProvidersAssumption`, of which each uses its own conjunct, and
`SignInsAssumption`: natural bounds, and null values (`None`, `Nobody`) that are
no identity and no record. The parts share no variable, so each part has an invariant of its own, which a step of
another part keeps (`RegistryStutterKeeps` and so on). Each has one lemma per action, named for it
(`RegistryStoreKeyKeeps`, `ClaudeWriteRequestKeeps`).

*Requests.* `ExchangeInv` says of every request that what the provider has of it
follows its thread (`SentAsMarked`: before the mark no byte is out), that a reply
comes of what was done (`ReplyIsOfDone`), that a verdict stays true however late
the provider acts (`VerdictStands`) and that a pinned request has an approved
peer (`PeerIsApproved`). `SlotsCounted` needs cardinalities: the free slots, the
detached ones and the running lookups are all the slots there are, with one
lemma each for a lookup that begins and one that ends.

*Registry.* `KeysAreNamed` and `ShownKeyExists` relate two stores that no
transaction spans. `RegistryInv` makes an account the business of one request and
of one connection (`AccountsInv`), and says at every step of a swap what is
stored, what is still to be deleted, and that the record names all of it
(`KeySwapInv`). `RegistryLeaseInv` keeps apart a thread that works and a release
that is remembered. `ProbePaidOnce` is inductive only with `ProbeInv`: a probe
under way is the only one and holds the lease, and no unknown outcome is of its
key. `RegistryModeInv` says what a start may rely on: a server that is down left no
thread and no swap, and receipts that it settles are older than itself.

*Runtimes.* `RuntimeInv` has ten parts. `ReadyIsVerified` and `WriterHoldsLock`
relate a job's thread, the registry's file, the files of the runtime and the
system's lock, of which any may be behind the others: `PrepareInv` (a prepare
call owns the lock of its request until it hands it over), `RuntimeFileInv` (what
the file says while a preparation is under way), `SetupsInv` (a request with a job,
or past the gate, was written down), `OneAtWork`, `WriterInv` (whoever writes is
the registry's active request and holds the lock), `CopyInv` (what was copied and
verified is what was accepted) and `RuntimeLockInv` (a held lock has a job that
will give it back).

*Claude.* `OutcomeHonest` compares what a thread told with what processes
may still do. `ClaudeInv` says of each call where its processes can be at each
of its steps (`CallAtStep`), that nothing is read or submitted before the request
is whole (`CallProcesses`), that an answer is given once no process of the group
lives (`CallVerdict`), which steps need the work space (`CallWorkspace`), and who
has the lock (`CallLock`, `ClaudeLockInv`): a worker that outlived its server has
it instead of the next server, and that is why a sweep spares its work space.

*Codex.* `CodexInv`: `TurnIsTold` follows the turn and its answer through the
thread's steps. `SessionInv` says what the thread, its transport, the termination
under way and the watchdog know of each other, `DogInv` that a watchdog that ended
well left nothing, `LeftoversCost` that one that did not start left a process
only at the price of a failure; together they give `NothingLeft`.

*Sign-ins.* `SignInInv` holds whatever reads, writes and removals fail. `OpInv` says
of each operation where its worker can be (`OpAt`), that a pending one is the
connection's and has the lease (`OpPending`), and what its worker has inside the
backend: the slot, the generation and its phase (`OpSlot`, `OpPhase`), what the
record says meanwhile (`OpPresent`) and whether the file can hold something
(`OpFile`); `OpLeaves` is about the worker of a sign-out and the generation it
read. `HandlerInv` says the like of each handler that clears an operation away:
what it marked in the registry (`HandlerMarks`), which lease it has, what it will
find in the backend, what the file may hold. `PairInv` lets no two handlers do so
for one operation. `SlotInv` and `DownInv` say who may hold the slot and that
nothing survives a server. `FileInv` has the promises about the credential; they
are kept since every step that writes the file or takes it out of the record is
of a worker or a handler whose place says who accounts for it. In this proof
`ShownSessionExists` turned out to be false without its exceptions: the step that
failed is the run `signout_overtaken`.

### 4.7 The catalog

`PipelineProofs` proves `CatalogIsSafe` (`CatalogSafe`) about `MCPipeline`, for any
sets of meetings, scopes and words and any number of events, from
`PipelineAssumption`, of which it uses the catalog's conjunct. `CatalogSafe` says what
a search finds once everything is at rest. `CatalogInv` says it of every moment:
of each meeting, what its writer is about (`WriterInv`), what of its row and of
its words is still owed (`RowInv`, `WordInv`: by the writer before its sync, by
the rebuild that holds it or has it to do, or by an error that was reported), and
what may be told because it is logged (`LogInv`); of the rebuild, that what it
holds is what the files are unless a writer overtook it (`RebuildInv`).
`CatalogNoticeTakes` says what overtaking does; `CatalogOthersRest` that an action on one
meeting keeps the parts of every other, so that each action is proved for its own
meeting only.

### 4.8 The bundle

`PipelineProofs` also proves `BundleIsSafe` (`BundleSafe`) about `MCPipeline`, for any
settings, any answers of the model and any number of versions, edits, failures
and deaths. The manifest and the files move apart whenever a job ends between a
stage's write and its save. `BundleInv` says what holds between the two all the same:
`BundleShape` (the places of a job or call, and that what it holds is a bundle's),
`FixedInv` (a record of a stage is at the stage's own path, with nothing but the
stages it reads among its inputs), `WordsInv` (who discarded the audio had seen
the transcript; nothing unlinks either), `ExtInv` (the external transcripts
recorded), `PlaybackInv` (which files a discard has still to unlink), `ProgressInv`
(the stages a job has passed are up to date with what it holds, so that the last
one leaves `ReadyIsCurrent`), `ReadyInv` (and they stay so until something is
edited). `BundleOrder` is the reason why a stage that is written disturbs no
stage before it: no stage reads a later one. `BundleFrame` says which parts of
the bundle's description depend on which files and records.

### 4.9 What is only model-checked

Liveness (`RunsEnd`, `CallsEnd`, `CallsReturn`, `WorkEnds`,
`ProvidersSettle`, `HandlersReturn`) and
everything about ENABLED: the prover has no rule for fairness. What a recursive
definition computes for every input (`ChunkLines`, `Clusters`, folds over
sequences): its induction theorems take an operator as a parameter, which the
installed provers cannot instantiate. That rules out `Integration` and `MinutesText`, whose promises are about what
recursive functions make of sequences, and the numbers of `ChunkPlan`, which are
sums over them. The type invariant of `BundleStages` has no theorem. Types are the other way round for the provider layer: `RequestTypes`,
`ProcessTypes` and `TypeCorrect` (of the sign-ins) prove the `TypeOK` of its
modules, and no run repeats them.

## 5. Not modelled

* Formatting, wording of prompts, parsing of documents, numerical work, ffmpeg:
  data without control, or pure I/O. So the exporters, the local engines, the
  estimation of offsets, the comparison of slides.
* Migration of registries of earlier versions; digests in which requests are
  compared; checks of owners and modes of files.
* Export, playback and context jobs as jobs: same submission and lock as the
  modelled job, without status bookkeeping. Their effect on the bundle and the
  catalog is in `BundleStages` and `Catalog`.
* `regenerate_meeting` of the command line, a refresh without the stages before
  alignment.
* A second process on the data root (`narumi --in-process` beside a server): a
  hazard listed without a property; the ledger alone is modelled across
  processes, and the in-process mode cannot take provider leases.
* Of the sign-ins: `auth_state` (only `credential_present` is modelled), the device
  code, tests and model lists of a signed-in connection, which take the same
  `slot`, and a second `close` with a fresh backend.
* Changes of a connection's endpoint, authentication method, surface or model:
  two probes are equivalent here when they spend the same key.
* Single outcomes: a registry write of a runtime's preparation that took effect
  although it raised, an unclean start of a Claude worker that leaves its leader
  alive, the pinned transport of a listing, the lookup's own limit of 10 s.
* The check of a process group's identity and the signal that follows are one
  step: the race with a reused number is the operating system's.
* Fsync semantics below the rename: a rename that returned is durable, as
  `_storage.py` syncs the directory.
* Python's and Swift's user interfaces; the app's state machines (planned).
* Each other part with its reason under `components` in `PROJECT.json`.

## 6. Plan

1. Proofs: the types of `BundleStages` and of the compositions in
   `PipelineProofs`.
2. An abstract gate (an identity is free, or in doubt at an epoch) that
   `MinutesCheckpoints` implements, like `ConfirmedDelivery` for the ledger.
3. The app's state machines with stale callbacks (`DesktopUpdateGate`,
   `TranscriptionRetryStore`, `OwnedServerRecovery`), permission setup.
4. Two processes on one data root, export and context jobs.
