----------------------------- MODULE BundleStages -----------------------------
(***************************************************************************)
(* One meeting's bundle (pipeline/src/narumi/pipeline.py,                  *)
(* bundle/session.py, the run_* function of each stage, playback/stage.py; *)
(* server handlers processing.py, playback.py, contexts.py, lifecycle.py). *)
(*                                                                         *)
(* A job brings the stages up to date in order.  A stage is skipped when   *)
(* the manifest records an artifact of the same inputs, parameters and     *)
(* path and the file exists; otherwise its function writes its files and   *)
(* the manifest is saved with a new record.  The process may die, a step   *)
(* may fail, and a job may be cancelled, between any two writes.  Calls    *)
(* that hold the meeting's lock (configuration, external transcripts,      *)
(* discarding tracks, playback) run between the jobs.                      *)
(*                                                                         *)
(* A file's content, and so its sha256, is what it was made of: the        *)
(* contents read, the parameters, and `roll' for an answer that a model    *)
(* may give differently each time.  Microphone and system audio are one    *)
(* track here.                                                             *)
(***************************************************************************)
EXTENDS Integers, Sequences, Functions

CONSTANTS
  Settings,     \* meeting configurations: [engine, diar, provider, hints]
  Rolls,        \* answers of the model that integrates
  MaxVersions,  \* bound: no job once there are so many versions of the minutes
  MaxEdits,     \* bound on the calls that edit the bundle
  MaxStops      \* bound on crashes, failures and cancellations

BundleAssumption ==
  /\ Settings # {} /\ Rolls # {}
  /\ \A s \in Settings : DOMAIN s = {"engine", "diar", "provider", "hints"}
  /\ MaxVersions \in Nat /\ MaxEdits \in Nat /\ MaxStops \in Nat

VARIABLES
  saved,    \* manifest.json
  files,    \* the files of the bundle, by path
  media,    \* the recorded tracks that exist
  work,     \* the job or call that holds the meeting's lock
  misread,  \* the stages skipped although a file of theirs was not the recorded one
  upToDate, \* the last job ended well and nothing was edited since
  edits, stops

bvars == <<saved, files, media, work, misread, upToDate, edits, stops>>

Stages == <<"audio", "brief", "own", "layer1", "layer2", "layer4", "slides", "align",
            "layer3", "merged", "minutes">>
Tracks == {<<"system">>, <<"screen">>}

Absent == [key |-> "absent"]
Origin(x) == [key |-> x]
NoRecord == [made |-> Absent]

-----------------------------------------------------------------------------
(* What a stage reads, and where it writes *)

\* A record is added, or takes the place of the one there was.
Put(records, key, rec) ==
  [x \in DOMAIN records \cup {key} |-> IF x = key THEN rec ELSE records[x]]
RecordOf(m, key) == IF key \in DOMAIN m.records THEN m.records[key] ELSE NoRecord
Recorded(m, k) == <<k>> \in DOMAIN m.records
External(m) == {key \in DOMAIN m.records : key[1] = "ext"}

\* latest_minutes_version, next_minutes_version
Latest(m) == Len(m.versions)
Minutes(v) == <<"minutes", v>>

KeyOf(m, k) == IF k = "minutes" THEN Minutes(Latest(m) + 1) ELSE <<k>>
PathOf(m, k) == IF k = "layer2" THEN <<"layer2", m.settings.diar>> ELSE KeyOf(m, k)

\* What a stage's function does to the files, in order.  The images of the
\* slides are removed before they are copied again.
Written(m, k) ==
  CASE k = "slides" -> <<<<"images">>, <<"images">>, <<"slides">>>>
    [] k = "layer3" -> <<<<"layer3">>, <<"names">>>>
    [] OTHER -> <<PathOf(m, k)>>

\* The artifacts a stage is made of.
Among(m, ks) == {<<s>> : s \in {t \in ks : Recorded(m, t)}}
Transcripts(m) == Among(m, {"own"}) \cup External(m)
Diarizations(m) == Among(m, {"layer1", "layer2", "layer3", "layer4"})
Integrated(m) == Among(m, {"align"}) \cup Transcripts(m) \cup Diarizations(m)
Summarized(m) == Among(m, {"merged", "slides", "brief"})
Named == {<<"layer2">>, <<"slides">>}

Sources(m, k) ==
  CASE k \in {"own", "layer2"} -> {<<"audio">>}
    [] k = "layer1" -> {<<"own">>}
    [] k = "layer4" -> External(m)
    [] k = "layer3" -> Named
    [] k = "align" -> Transcripts(m)
    [] k = "merged" -> Integrated(m)
    [] k = "minutes" -> Summarized(m)
    [] OTHER -> {}

\* The configuration and the registered sources that a brief is of.
BriefInputs(m) == [x \in {<<"config">>, <<"contexts">>} |->
                     IF x = <<"config">> THEN Origin(m.settings.hints) ELSE [of |-> m.contexts]]

\* What is not an artifact.
Outside(m, k) ==
  CASE k = "audio" -> [x \in {<<"system">>} |-> Origin("track")]
    [] k = "slides" -> [x \in {<<"screen">>} |-> Origin("track")]
    [] k = "brief" -> BriefInputs(m)

HasOutside(k) == k \in {"audio", "slides", "brief"}

\* The inputs of a record, and what the function finds in the files.
Inputs(m, k) == IF HasOutside(k) THEN Outside(m, k)
                ELSE [s \in Sources(m, k) |-> RecordOf(m, s).made]
Found(m, k) == IF HasOutside(k) THEN Outside(m, k)
               ELSE [s \in Sources(m, k) |-> files[RecordOf(m, s).path]]

\* load_brief: transcription and integration take their hints from its file.
Hints(m) == IF Recorded(m, "brief") /\ files[<<"brief">>] # Absent
            THEN files[<<"brief">>].from[<<"config">>] ELSE Origin(m.settings.hints)

Parameters(m, k) ==
  CASE k = "own" -> [engine |-> m.settings.engine, hints |-> Hints(m)]
    [] k = "layer2" -> [engine |-> m.settings.diar]
    [] k = "merged" -> [provider |-> m.settings.provider, hints |-> Hints(m)]
    [] k \in {"layer3", "minutes"} -> [provider |-> m.settings.provider]
    [] OTHER -> [version |-> 1]

\* Integration also reads the names written with layer 3, of which no record
\* has the hash (load_layer3_names).
Names(m, k) == IF k = "merged" /\ Recorded(m, "layer3") THEN files[<<"names">>] ELSE Absent

Content(m, k, roll) ==
  [key |-> k, from |-> Found(m, k), params |-> Parameters(m, k), names |-> Names(m, k),
   roll |-> roll]

\* The stages without an artifact, which drop the one there was.
NamesSpeakers(m) == m.settings.provider = "vision" /\ \A s \in Named : s \in DOMAIN m.records
NotWanted(m, k) ==
  \/ k = "layer2" /\ m.settings.diar = "none"
  \/ k = "layer4" /\ External(m) = {}
  \/ k = "layer3" /\ ~NamesSpeakers(m)

\* Of a discarded track what there is, is kept.
Kept(m, k) == \/ k = "audio" /\ <<"system">> \in m.discarded
              \/ k = "slides" /\ <<"screen">> \in m.discarded

\* A file or an artifact to read that is not there, found before it is decided
\* whether to skip (artifact_path, read_json, load_transcripts, is_file) ...
Readable(m, s) == s \in DOMAIN m.records /\ files[m.records[s].path] # Absent
AllReadable(m, k) == \A s \in Sources(m, k) : Readable(m, s)
AudioReadable(m) == IF Kept(m, "audio") THEN Readable(m, <<"audio">>) ELSE <<"system">> \in media
MergeReadable(m) == /\ Recorded(m, "align") /\ AllReadable(m, "merged")
                    /\ Recorded(m, "layer3") => files[<<"names">>] # Absent

HasSources(m, k) ==
  CASE k = "audio" -> AudioReadable(m)
    [] k = "slides" -> Kept(m, k) \/ <<"screen">> \in media
    [] k = "align" -> Transcripts(m) # {} /\ AllReadable(m, k)
    [] k = "merged" -> MergeReadable(m)
    [] k = "minutes" -> Recorded(m, "merged")
    [] OTHER -> AllReadable(m, k)
MissingEarly(m, k) == ~NotWanted(m, k) /\ ~HasSources(m, k)

\* ... or by the function (load_merged, copy_slides_to_minutes).
SlidesCopied(m) == Recorded(m, "slides") => Absent \notin {files[<<"slides">>], files[<<"images">>]}
MissingLate(m, k) ==
  k = "minutes" /\ (files[m.records[<<"merged">>].path] = Absent \/ ~SlidesCopied(m))

-----------------------------------------------------------------------------
Free == [op |-> "none"]
Idle == work.op = "none"
Job == work.op = "job"
AtEnd == work.stage > Len(Stages)
K == Stages[work.stage]
Mem == work.mem

Init ==
  /\ \E s \in Settings :
       saved = [records |-> << >>, versions |-> << >>, settings |-> s,
                status |-> "recorded", discarded |-> {}, contexts |-> {}]
  /\ files = [p \in {<<k>> : k \in Range(Stages) \cup {"images", "names", "playback"}}
                    \cup {<<"ext", i>> : i \in 1 .. MaxEdits}
                    \cup {<<"layer2", s.diar>> : s \in Settings}
                    \cup {Minutes(v) : v \in 1 .. MaxVersions} |-> Absent]
  /\ media = Tracks /\ work = Free
  /\ misread = {} /\ upToDate = FALSE /\ edits = 0 /\ stops = 0

Edit == edits < MaxEdits /\ edits' = edits + 1
Stop == stops < MaxStops /\ stops' = stops + 1
Bounds == UNCHANGED <<edits, stops>>

-----------------------------------------------------------------------------
(* A job *)

\* run_pipeline_job and what it runs, up to the stages.
StartJob(force) ==
  /\ Idle /\ Latest(saved) < MaxVersions
  /\ LET m == [saved EXCEPT !.status = "processing"] IN
       /\ saved' = m
       /\ work' = [op |-> "job", force |-> force, stage |-> 1, phase |-> "decide", n |-> 0,
                   mem |-> m, prior |-> saved.status, old |-> <<"none">>]
  /\ upToDate' = FALSE
  /\ UNCHANGED <<files, media, misread>> /\ Bounds

\* A forced processing makes every stage, a refresh those from alignment on.
Process == StartJob({}) \/ StartJob(Range(Stages))
Refresh == StartJob({"align", "merged", "minutes"})

Forced(k) == k \in work.force

\* run_stage; run_generate asks the same of the latest version.
Same(m, k, key, path) ==
  LET rec == RecordOf(m, key) IN
  /\ rec # NoRecord /\ rec.path = path
  /\ rec.inputs = Inputs(m, k) /\ rec.params = Parameters(m, k) /\ files[path] # Absent

LatestSame(m) ==
  Latest(m) > 0 /\ Same(m, "minutes", Minutes(Latest(m)), Minutes(Latest(m)))
StageSame(m, k) == Same(m, k, KeyOf(m, k), PathOf(m, k))

\* Whether the files of a stage are those its record was made with.
Identical(m, k) ==
  LET rec == RecordOf(m, KeyOf(m, k)) IN
  /\ files[rec.path] = rec.made
  /\ k = "slides" => files[<<"images">>] # Absent
  /\ k = "layer3" => files[<<"names">>].from = rec.made.from

Goto(phase, n, m) == work' = [work EXCEPT !.phase = phase, !.n = n, !.mem = m]
Advance(m) == work' = [work EXCEPT !.stage = @ + 1, !.phase = "decide", !.n = 0, !.mem = m]

Deciding == Job /\ ~AtEnd /\ work.phase = "decide" /\ ~MissingEarly(Mem, K)

\* Skipped: a kept or unwanted stage, the latest version of the minutes, or
\* the artifact under the stage's key.  Minutes that were recorded but not
\* listed before a crash are listed now.
Skip ==
  /\ Deciding /\ UNCHANGED <<files, saved, media, upToDate>> /\ Bounds
  /\ \/ /\ Kept(Mem, K) \/ (NotWanted(Mem, K) /\ ~Recorded(Mem, K))
        /\ Advance(Mem) /\ UNCHANGED misread
     \/ /\ K = "minutes" /\ ~Forced(K) /\ LatestSame(Mem)
        /\ misread' = IF files[Minutes(Latest(Mem))] = RecordOf(Mem, Minutes(Latest(Mem))).made
                      THEN misread ELSE misread \cup {K}
        /\ Advance(Mem)
     \/ /\ ~Kept(Mem, K) /\ ~NotWanted(Mem, K) /\ ~Forced(K) /\ StageSame(Mem, K)
        /\ ~(K = "minutes" /\ LatestSame(Mem))
        /\ misread' = IF Identical(Mem, K) THEN misread ELSE misread \cup {K}
        /\ IF K = "minutes" THEN Goto("publish", 0, Mem) ELSE Advance(Mem)

\* drop_layer2, drop_layer3, drop_layer4: the record leaves the manifest in
\* memory, the files go, and the manifest is saved.
Doomed(k) == IF k = "layer3" THEN <<<<"layer3">>, <<"names">>>>
             ELSE <<saved.records[<<k>>].path>>
Drop ==
  /\ Deciding /\ NotWanted(Mem, K) /\ Recorded(Mem, K)
  /\ Goto("drop", 0, [Mem EXCEPT !.records = Restrict(@, DOMAIN @ \ {<<K>>})])
  /\ UNCHANGED <<files, saved, media, misread, upToDate>> /\ Bounds

DropFile ==
  /\ Job /\ work.phase = "drop" /\ UNCHANGED <<media, misread, upToDate>> /\ Bounds
  /\ IF work.n < Len(Doomed(K))
     THEN /\ files' = [files EXCEPT ![Doomed(K)[work.n + 1]] = Absent]
          /\ Goto("drop", work.n + 1, Mem) /\ UNCHANGED saved
     ELSE saved' = Mem /\ Advance(Mem) /\ UNCHANGED files

\* The stage's function, one file at a time.
Wanted(m, k) ==
  /\ ~Kept(m, k) /\ ~NotWanted(m, k)
  /\ Forced(k) \/ ~(StageSame(m, k) \/ (k = "minutes" /\ LatestSame(m)))

Write ==
  /\ \/ Deciding /\ Wanted(Mem, K) /\ ~MissingLate(Mem, K)
     \/ Job /\ work.phase = "write"
  /\ \E roll \in IF K = "merged" THEN Rolls ELSE {0} :
       LET i == work.n + 1
           removed == K = "slides" /\ i = 1
       IN files' = [files EXCEPT ![Written(Mem, K)[i]] =
                      IF removed THEN Absent ELSE Content(Mem, K, roll)]
  /\ Goto(IF work.n + 1 = Len(Written(Mem, K)) THEN "record" ELSE "write", work.n + 1, Mem)
  /\ UNCHANGED <<saved, media, misread, upToDate>> /\ Bounds

\* The record, its hash taken from the file, and the manifest saved with it.
NewRecord(m, k) == [inputs |-> Inputs(m, k), params |-> Parameters(m, k), path |-> PathOf(m, k),
                    made |-> files[PathOf(m, k)]]
Save ==
  /\ Job /\ work.phase = "record"
  /\ LET m == [Mem EXCEPT !.records = Put(@, KeyOf(Mem, K), NewRecord(Mem, K))]
         before == RecordOf(Mem, <<"layer2">>)
     IN /\ saved' = m
        /\ CASE K = "minutes" -> Goto("publish", 0, m)
             [] K = "layer2" /\ before # NoRecord /\ before.path # PathOf(m, K) ->
                  work' = [work EXCEPT !.phase = "unlink", !.mem = m, !.old = before.path]
             [] OTHER -> Advance(m)
  /\ UNCHANGED <<files, media, misread, upToDate>> /\ Bounds

\* run_diarize: the file of another engine must not linger.
Unlink ==
  /\ Job /\ work.phase = "unlink"
  /\ files' = [files EXCEPT ![work.old] = Absent]
  /\ Advance(Mem)
  /\ UNCHANGED <<saved, media, misread, upToDate>> /\ Bounds

\* run_generate: the version is listed.
Publish ==
  /\ Job /\ work.phase = "publish"
  /\ LET m == [Mem EXCEPT !.versions = Append(@, files[Minutes(Latest(Mem) + 1)])] IN
       saved' = m /\ Advance(m)
  /\ UNCHANGED <<files, media, misread, upToDate>> /\ Bounds

\* "ready", and for a refresh a RegenerationRecord.
Finish ==
  /\ Job /\ AtEnd
  /\ saved' = [Mem EXCEPT !.status = "ready"] /\ work' = Free /\ upToDate' = TRUE
  /\ UNCHANGED <<files, media, misread>> /\ Bounds

EndJob(status) ==
  /\ saved' = [Mem EXCEPT !.status = status] /\ work' = Free
  /\ UNCHANGED <<files, media, misread, upToDate>>

\* A stage that cannot be made, or any other exception.
Fail ==
  \/ /\ Job /\ ~AtEnd /\ work.phase = "decide"
     /\ MissingEarly(Mem, K) \/ (Wanted(Mem, K) /\ MissingLate(Mem, K))
     /\ EndJob("failed") /\ Bounds
  \/ Job /\ ~AtEnd /\ Stop /\ EndJob("failed") /\ UNCHANGED edits
\* The progress hook after each stage, and the checks before anything is
\* written.
Cancel ==
  /\ Job /\ work.phase = "decide"
  /\ Stop /\ EndJob(work.prior) /\ UNCHANGED edits

-----------------------------------------------------------------------------
(* The calls between the jobs, and the playback job *)

\* set_meeting_config
SetConfig(s) ==
  /\ Idle /\ Edit /\ s # saved.settings
  /\ saved' = [saved EXCEPT !.settings = s] /\ upToDate' = FALSE
  /\ UNCHANGED <<files, media, work, misread, stops>>

\* register_context: the parsed transcript becomes an artifact before the
\* source it comes from is listed.
RegisterContext ==
  /\ Idle /\ Edit
  /\ work' = [op |-> "context", phase |-> "write", id |-> edits + 1] /\ upToDate' = FALSE
  /\ UNCHANGED <<saved, files, media, misread, stops>>

ContextStep ==
  /\ work.op = "context" /\ UNCHANGED <<media, misread, upToDate>> /\ Bounds
  /\ LET key == <<"ext", work.id>> IN
     CASE work.phase = "write" ->
            /\ files' = [files EXCEPT ![key] = [key |-> "ext", from |-> work.id]]
            /\ work' = [work EXCEPT !.phase = "record"] /\ UNCHANGED saved
       [] work.phase = "record" ->
            /\ saved' = [saved EXCEPT !.records =
                 Put(@, key, [inputs |-> Origin("source"), params |-> Origin("parser"),
                              path |-> key, made |-> files[key]])]
            /\ work' = [work EXCEPT !.phase = "list"] /\ UNCHANGED files
       [] work.phase = "list" ->
            /\ saved' = [saved EXCEPT !.contexts = @ \cup {work.id}]
            /\ work' = Free /\ UNCHANGED files

DiscardUnheard(asked) ==  \* a plausible bug: whether there is a transcript is not asked
  /\ Idle /\ Edit /\ asked \ saved.discarded # {}
  /\ work' = [op |-> "discard", phase |-> "playback", left |-> asked \ saved.discarded,
              tracks |-> asked \ saved.discarded]
  /\ upToDate' = FALSE
  /\ UNCHANGED <<saved, files, media, misread, stops>>

\* discard_tracks: everything is validated, then the playback and the tracks
\* are deleted, then the manifest says so.
DiscardTracks(asked) ==
  /\ Idle /\ Edit /\ asked \ saved.discarded # {}
  /\ <<"system">> \in asked \ saved.discarded =>
       Recorded(saved, "own") /\ files[<<"own">>] # Absent
  /\ work' = [op |-> "discard", phase |-> "playback", left |-> asked \ saved.discarded,
              tracks |-> asked \ saved.discarded]
  /\ upToDate' = FALSE
  /\ UNCHANGED <<saved, files, media, misread, stops>>

DiscardStep ==
  /\ work.op = "discard" /\ UNCHANGED <<misread, upToDate>> /\ Bounds
  /\ \/ /\ work.phase = "playback" \* discard_playback
        /\ files' = IF Recorded(saved, "playback")
                    THEN [files EXCEPT ![<<"playback">>] = Absent] ELSE files
        /\ work' = [work EXCEPT !.phase = "unlink"] /\ UNCHANGED <<saved, media>>
     \/ /\ work.phase = "unlink" /\ work.left # {}
        /\ \E t \in work.left : media' = media \ {t} /\ work' = [work EXCEPT !.left = @ \ {t}]
        /\ UNCHANGED <<saved, files>>
     \/ /\ work.phase = "unlink" /\ work.left = {}
        /\ saved' = [saved EXCEPT !.discarded = @ \cup work.tracks,
                                  !.records = Restrict(@, DOMAIN @ \ {<<"playback">>})]
        /\ work' = Free /\ UNCHANGED <<files, media>>

\* run_playback: unlike run_stage it hashes the output before it reuses it.
PlaybackInputs == [t \in Tracks |-> Origin("track")]
PreparePlayback ==
  /\ Idle /\ edits < MaxEdits
  /\ saved.discarded = {} /\ media = Tracks
  /\ LET rec == RecordOf(saved, <<"playback">>) IN
       ~(rec # NoRecord /\ rec.inputs = PlaybackInputs /\ files[<<"playback">>] = rec.made)
  /\ work' = [op |-> "playback", phase |-> "write"]
  /\ UNCHANGED <<saved, files, media, misread, upToDate>> /\ Bounds

PlaybackStep ==
  /\ work.op = "playback" /\ UNCHANGED <<media, misread, upToDate>> /\ Bounds
  /\ \/ /\ work.phase = "write"
        /\ files' = [files EXCEPT ![<<"playback">>] = [key |-> "playback", from |-> PlaybackInputs]]
        /\ work' = [work EXCEPT !.phase = "record"] /\ UNCHANGED saved
     \/ /\ work.phase = "record"
        /\ saved' = [saved EXCEPT !.records =
             Put(@, <<"playback">>, [inputs |-> PlaybackInputs, params |-> Origin("recipe"),
                                     path |-> <<"playback">>, made |-> files[<<"playback">>]])]
        /\ work' = Free /\ UNCHANGED files

\* The process dies, or a call fails where nothing undoes what it did.
Crash ==
  /\ ~Idle /\ Stop /\ work' = Free
  /\ UNCHANGED <<saved, files, media, misread, upToDate, edits>>

JobStep == Skip \/ Drop \/ DropFile \/ Write \/ Save \/ Unlink \/ Publish \/ Finish \/ Fail

Next ==
  \/ Process \/ Refresh
  \/ JobStep \/ Cancel \/ Crash
  \/ \E s \in Settings : SetConfig(s)
  \/ RegisterContext \/ ContextStep
  \/ \E asked \in SUBSET Tracks : DiscardTracks(asked)
  \/ DiscardStep \/ PreparePlayback \/ PlaybackStep

Spec == Init /\ [][Next]_bvars

-----------------------------------------------------------------------------
(* Properties *)

\* Types.
TypeOK ==
  /\ saved.settings \in Settings /\ saved.discarded \subseteq Tracks
  /\ saved.status \in {"recorded", "processing", "ready", "failed"}
  /\ saved.contexts \subseteq 1 .. MaxEdits /\ Len(saved.versions) <= MaxVersions
  /\ \A key \in DOMAIN saved.records : saved.records[key].path \in DOMAIN files
  /\ media \subseteq Tracks /\ misread \subseteq Range(Stages) /\ upToDate \in BOOLEAN
  /\ edits \in 0 .. MaxEdits /\ stops \in 0 .. MaxStops

\* "The pair is what makes "same inputs -> same version" hold" (run_stage):
\* what an artifact was made of is what its record says it was made of, the
\* names that go with layer 3 included; unless a stage was ever skipped whose
\* file is not the recorded one.
MadeOfItsInputs ==
  misread = {} => \A key \in DOMAIN saved.records :
    LET rec == saved.records[key] IN
    key[1] \notin {"ext", "playback"} =>
      /\ rec.made.from = rec.inputs
      /\ (key[1] = "merged" /\ <<"layer3">> \in DOMAIN rec.inputs)
           => rec.made.names.from = rec.inputs[<<"layer3">>].from

\* A job that ended well leaves what a first run would make of the meeting as
\* it is now: every stage recorded with the inputs and parameters it would
\* have today and with the file that is there, nothing recorded of a stage that
\* is switched off, and the minutes made of it the latest version.
ReadyIsCurrent ==
  upToDate /\ misread = {} =>
    /\ \A k \in Range(Stages) \ {"minutes"} :
         IF NotWanted(saved, k) THEN ~Recorded(saved, k)
         ELSE \/ Kept(saved, k)
              \/ RecordOf(saved, <<k>>) = NewRecord(saved, k) /\ Identical(saved, k)
    /\ Latest(saved) > 0
    /\ LET rec == RecordOf(saved, Minutes(Latest(saved))) IN
       /\ rec.inputs = Inputs(saved, "minutes") /\ rec.params = Parameters(saved, "minutes")
       /\ rec.made = files[Minutes(Latest(saved))]

\* "Existing versions are never overwritten" (run_generate), through every
\* crash and every job after it.
VersionsStay ==
  \A v \in 1 .. Latest(saved) : files[Minutes(v)] = saved.versions[v]

\* The audio of a meeting is only gone when it was transcribed, and both the
\* transcript and the audio it was made from stay.
WordsOutliveAudio ==
  <<"system">> \notin media =>
    /\ Recorded(saved, "own") /\ files[<<"own">>] # Absent
    /\ Recorded(saved, "audio") /\ files[<<"audio">>] # Absent

\* discard_playback: no playback is recorded of a discarded track, and none is
\* left unless a crash or failure ever left one without a record.
NoPlaybackOfDiscarded ==
  saved.discarded # {} =>
    /\ ~Recorded(saved, "playback")
    /\ stops = 0 => files[<<"playback">>] = Absent

\* All of these, checked together.
BundleSafe ==
  /\ MadeOfItsInputs /\ ReadyIsCurrent /\ VersionsStay /\ WordsOutliveAudio
  /\ NoPlaybackOfDiscarded

\* run_stage: "Run fn(output_path) unless an identical artifact already exists."
\* (slides and layer 3 have further files that no record knows.)
SkippedIsIdentical == misread \subseteq {"slides", "layer3"}
=============================================================================
