------------------------------- MODULE ChunkPlan -------------------------------
(***************************************************************************)
(* The audio chunks that an API transcription uploads                      *)
(* (pipeline/src/narumi/transcribe/chunks.py, _wav.py, _storage.py).       *)
(*                                                                         *)
(* Under the execution lease of TranscriptionLedger a run cuts each track  *)
(* into chunks: every chunk is written under a staging name while the      *)
(* source is hashed, and installed under its fingerprint once the whole    *)
(* track was read and found unchanged.  The audio may be replaced, the run *)
(* cancelled, or the process die, between any two steps.  A hash is what   *)
(* it was computed of.                                                     *)
(***************************************************************************)
EXTENDS Integers, Sequences, SequencesExt, FiniteSets, TLC

CONSTANTS
  ChunkSamples, \* CHUNK_SAMPLES
  MaxChunks,    \* MAX_CHUNKS
  MaxTotal,     \* MAX_TOTAL_SAMPLES
  Lengths,      \* lengths a track may have
  Params,       \* the parameters of the transcription, hashed with each chunk
  MaxRuns,      \* bound on runs
  MaxUpsets     \* bound on replaced audio, cancellations, I/O errors and crashes

PlanAssumption ==
  /\ ChunkSamples \in Nat \ {0} /\ MaxChunks \in Nat /\ MaxTotal \in Nat
  /\ Lengths \subseteq Nat /\ Params # {} /\ MaxRuns \in Nat /\ MaxUpsets \in Nat

AudioTracks == <<"mic", "system">>
NoPlan == << >>

VARIABLES
  audio,   \* the files: track |-> [len, data, sig]; sig changes with every write
  hashes,  \* the hashes that the manifest has of them
  chunks,  \* preprocess/transcription/chunks: fingerprint |-> audio
  staged,  \* ... and the staging files there: set of [track, start, audio]
  run,     \* the run that holds the lease
  plans,   \* history: the plans returned, with what they are plans of
  tidy,    \* no crash left anything behind since the last run began
  runs, upsets

hvars == <<audio, hashes, chunks, staged, run, plans, tidy, runs, upsets>>

Idle == [pc |-> "idle"]
At(pc) == run.pc = pc

-----------------------------------------------------------------------------
(* What is computed *)

Whole(a) == [data |-> a.data, from |-> 0, to |-> a.len]
Slice(a, start, end) == [data |-> a.data, from |-> start, to |-> end]
Until(start, len) == IF start + ChunkSamples < len THEN start + ChunkSamples ELSE len

ChunkFingerprint(c, p) ==
  [track |-> c.track, start |-> c.start, end |-> c.end, source |-> c.source,
   audio |-> c.audio, params |-> p]

Sum(lengths) == FoldLeft(LAMBDA a, b : a + b, 0, lengths)
Opened(tracks) == [i \in DOMAIN tracks |-> audio[tracks[i]].len]
Count(tracks) ==
  Sum([i \in DOMAIN tracks |-> (Opened(tracks)[i] + ChunkSamples - 1) \div ChunkSamples])

\* The total of the samples and the number of chunks, before anything is written.
WithinLimits(tracks) == Sum(Opened(tracks)) <= MaxTotal /\ Count(tracks) <= MaxChunks

\* TranscriptionPlan.validate: consecutive chunks of mic, then of system.
Follows(c, previous) ==
  /\ c.start = previous.end /\ c.source = previous.source
  /\ previous.end - previous.start = ChunkSamples
StartsTrack(c, i) == c.start = 0 /\ (i = 1 \/ c.track = "system")
Valid(plan, p) ==
  /\ Len(plan) \in 1 .. MaxChunks
  /\ Sum([i \in DOMAIN plan |-> plan[i].end - plan[i].start]) \in 1 .. MaxTotal
  /\ \A i \in DOMAIN plan :
       /\ plan[i].end - plan[i].start \in 1 .. ChunkSamples
       /\ plan[i].fingerprint = ChunkFingerprint(plan[i], p)
       /\ IF i > 1 /\ plan[i - 1].track = plan[i].track
          THEN Follows(plan[i], plan[i - 1]) ELSE StartsTrack(plan[i], i)

-----------------------------------------------------------------------------
Init ==
  /\ \E len \in [Range(AudioTracks) -> Lengths] :
       audio = [t \in Range(AudioTracks) |-> [len |-> len[t], data |-> 0, sig |-> 0]]
  /\ hashes = [t \in Range(AudioTracks) |-> Whole(audio[t])]
  /\ chunks = << >> /\ staged = {} /\ run = Idle /\ plans = {} /\ tidy = TRUE
  /\ runs = 0 /\ upsets = 0

Upset == upsets < MaxUpsets /\ upsets' = upsets + 1

\* transcription_execution_lock: what a crash left behind is removed.
Begin(tracks, p) ==
  /\ At("idle") /\ runs < MaxRuns /\ runs' = runs + 1
  /\ staged' = {} /\ tidy' = TRUE
  /\ run' = [pc |-> "open", tracks |-> tracks, params |-> p, plan |-> NoPlan]
  /\ UNCHANGED <<audio, hashes, chunks, plans, upsets>>

\* open_wave_source: complete, not empty, and its signature remembered; then
\* the limits.
Open ==
  /\ At("open")
  /\ IF (\A t \in Range(run.tracks) : audio[t].len > 0) /\ WithinLimits(run.tracks)
     THEN run' = [pc |-> "stream", tracks |-> run.tracks, params |-> run.params, plan |-> NoPlan,
                  opened |-> [t \in Range(run.tracks) |-> audio[t]],
                  n |-> 1, at |-> 0, pending |-> << >>, hashed |-> {}]
     ELSE run' = [run EXCEPT !.pc = "cleanup", !.plan = NoPlan]
  /\ UNCHANGED <<audio, hashes, chunks, staged, plans, tidy, runs, upsets>>

T == run.tracks[run.n]
Unchanged(t) == audio[t].sig = run.opened[t].sig
FailRun == run' = [run EXCEPT !.pc = "cleanup", !.plan = NoPlan]

\* stream_wave: the samples are hashed as they are copied to a staging file.
StreamChunk ==
  /\ At("stream") /\ run.at < run.opened[T].len
  /\ IF (run.at = 0 /\ ~Unchanged(T)) \/ audio[T].len < Until(run.at, run.opened[T].len)
     THEN FailRun /\ UNCHANGED staged
     ELSE LET end == Until(run.at, run.opened[T].len)
              file == [track |-> T, start |-> run.at, end |-> end,
                       audio |-> Slice(audio[T], run.at, end)]
          IN /\ staged' = staged \cup {file}
             /\ run' = [run EXCEPT !.at = end, !.pending = Append(@, file),
                                   !.hashed = @ \cup {audio[T].data}]
  /\ UNCHANGED <<audio, hashes, chunks, plans, tidy, runs, upsets>>

EndOfTrackUnhashed ==  \* a plausible bug: the hash of the manifest is taken on trust
  /\ At("stream") /\ run.at = run.opened[T].len
  /\ IF Unchanged(T) THEN run' = [run EXCEPT !.pc = "install"] ELSE FailRun
  /\ UNCHANGED <<audio, hashes, chunks, staged, plans, tidy, runs, upsets>>

\* The end of a track: it did not change while it was read, and it is the
\* audio that the manifest names.
EndOfTrack ==
  /\ At("stream") /\ run.at = run.opened[T].len
  /\ IF Unchanged(T) /\ \A d \in run.hashed : [Whole(audio[T]) EXCEPT !.data = d] = hashes[T]
     THEN run' = [run EXCEPT !.pc = "install"] ELSE FailRun
  /\ UNCHANGED <<audio, hashes, chunks, staged, plans, tidy, runs, upsets>>

\* _finish_track, one chunk at a time: installed under its fingerprint, where
\* another file may not be, and only then unlinked under its staging name.
InstallChunk ==
  /\ At("install") /\ run.pending # << >>
  /\ LET file == Head(run.pending)
         chunk == [track |-> T, start |-> file.start, end |-> file.end,
                   source |-> hashes[T], audio |-> file.audio]
         fp == ChunkFingerprint(chunk, run.params)
     IN IF fp \in DOMAIN chunks /\ chunks[fp] # file.audio
        THEN FailRun /\ UNCHANGED <<chunks, staged>>
        ELSE /\ chunks' = (fp :> file.audio) @@ chunks
             /\ staged' = staged \ {file}
             /\ run' = [run EXCEPT !.pending = Tail(@),
                                   !.plan = Append(@, chunk @@ [fingerprint |-> fp])]
  /\ UNCHANGED <<audio, hashes, plans, tidy, runs, upsets>>

NextTrack ==
  /\ At("install") /\ run.pending = << >>
  /\ run' = IF run.n < Len(run.tracks)
            THEN [run EXCEPT !.pc = "stream", !.n = @ + 1, !.at = 0, !.hashed = {}]
            ELSE [run EXCEPT !.pc = "check"]
  /\ UNCHANGED <<audio, hashes, chunks, staged, plans, tidy, runs, upsets>>

\* All sources once more: a track read first may have changed since.
CheckSources ==
  /\ At("check")
  /\ IF \A t \in Range(run.tracks) : Unchanged(t)
     THEN run' = [run EXCEPT !.pc = "cleanup"] ELSE FailRun
  /\ UNCHANGED <<audio, hashes, chunks, staged, plans, tidy, runs, upsets>>

\* The staging files go whatever happened; a plan that is left is returned.
Return ==
  /\ At("cleanup") /\ staged' = {} /\ run' = Idle
  /\ plans' = IF run.plan # NoPlan /\ Valid(run.plan, run.params)
              THEN plans \cup {[plan |-> run.plan, params |-> run.params,
                                of |-> [i \in DOMAIN run.tracks |->
                                          [track |-> run.tracks[i],
                                           hash |-> hashes[run.tracks[i]]]]]}
              ELSE plans
  /\ UNCHANGED <<audio, hashes, chunks, tidy, runs, upsets>>

\* A cancellation or an I/O error.
Interrupt ==
  /\ run.pc \notin {"idle", "cleanup"} /\ Upset /\ FailRun
  /\ UNCHANGED <<audio, hashes, chunks, staged, plans, tidy, runs>>

Crash ==
  /\ ~At("idle") /\ Upset /\ run' = Idle /\ tidy' = FALSE
  /\ UNCHANGED <<audio, hashes, chunks, staged, plans, runs>>

\* The audio is replaced by something else, or preprocessed again between
\* runs, which the manifest then says.
ReplaceAudio(t, len) ==
  /\ Upset
  /\ audio' = [audio EXCEPT ![t] = [len |-> len, data |-> @.data + 1, sig |-> @.sig + 1]]
  /\ \/ UNCHANGED hashes
     \/ At("idle") /\ hashes' = [hashes EXCEPT ![t] = Whole(audio'[t])]
  /\ UNCHANGED <<chunks, staged, run, plans, tidy, runs>>

RunStep ==
  Open \/ StreamChunk \/ EndOfTrack \/ InstallChunk \/ NextTrack \/ CheckSources \/ Return

Next ==
  \/ \E tracks \in {AudioTracks, <<"mic">>, <<"system">>}, p \in Params : Begin(tracks, p)
  \/ RunStep \/ Interrupt \/ Crash
  \/ \E t \in Range(AudioTracks), len \in Lengths : ReplaceAudio(t, len)

Spec == Init /\ [][Next]_hvars

-----------------------------------------------------------------------------
(* Properties *)

\* Types.
TypeOK ==
  /\ audio \in [Range(AudioTracks) -> [len : Lengths, data : Nat, sig : Nat]]
  /\ DOMAIN hashes = Range(AudioTracks) /\ tidy \in BOOLEAN
  /\ runs \in 0 .. MaxRuns /\ upsets \in 0 .. MaxUpsets
  /\ run.pc \in {"idle", "open", "stream", "install", "check", "cleanup"}

\* A plan is of the audio that the manifest named when it was returned: the
\* chunks of a track, laid end to end, are that audio and nothing else, and the
\* file of each chunk still holds its part of it, whatever ran or crashed since.
PlansCoverTheAudio ==
  \A r \in plans :
    /\ \A i \in DOMAIN r.of :
         LET part == SelectSeq(r.plan, LAMBDA c : c.track = r.of[i].track)
             hash == r.of[i].hash
         IN /\ part # << >> /\ part[1].start = 0 /\ Last(part).end = hash.to
            /\ \A j \in 1 .. Len(part) - 1 : part[j].end = part[j + 1].start
            /\ \A j \in DOMAIN part :
                 chunks[part[j].fingerprint] =
                   [data |-> hash.data, from |-> part[j].start, to |-> part[j].end]
    /\ \A j \in DOMAIN r.plan : r.plan[j].track \in {r.of[i].track : i \in DOMAIN r.of}

\* The same audio and parameters give the same plan, so that the receipts of an
\* earlier run are found again.
PlansAreStable ==
  \A r, q \in plans : r.of = q.of /\ r.params = q.params => r.plan = q.plan

\* The builder never makes a plan that `validate' rejects.
BuiltIsValid ==
  At("cleanup") /\ run.plan # NoPlan => Valid(run.plan, run.params)

\* No staging file outlives its run, except after a crash.
NothingStaged == At("idle") /\ tidy => staged = {}

\* All of these, checked together.
PlanSafe ==
  PlansCoverTheAudio /\ PlansAreStable /\ BuiltIsValid /\ NothingStaged
=============================================================================
