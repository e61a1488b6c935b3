------------------------------ MODULE MCPipeline ------------------------------
(***************************************************************************)
(* The parts of the processing pipeline, checked in one run: `focus' picks *)
(* the part that moves, the others rest in an initial state.  They share   *)
(* no variable: to the stages of a bundle, a transcript, minutes or a plan *)
(* of chunks is one write; what is written is the matter of Integration,   *)
(* MinutesText with MinutesCheckpoints, and ChunkPlan, and what is listed  *)
(* and found of it that of Catalog.                                        *)
(***************************************************************************)
EXTENDS MinutesCheckpoints, TLC

CONSTANTS
  Settings, FirstSettings, Rolls, MaxVersions, MaxEdits, MaxStops,   \* BundleStages
  SourceOrder, Versions, Offsets, Layer2, Gap, MaxChanges,           \* Integration
  ChunkSamples, MaxChunks, MaxTotal, Lengths, Params, MaxRuns, MaxUpsets, \* ChunkPlan
  Given, InputChars, PromptBudget, MaxReductions, Template, OneDigit, MinRoom,
  AnswerLengths, MaxFaults,                                          \* MinutesText
  Meeting, Scope, Word, MaxEvents                                    \* Catalog

VARIABLES
  focus,
  saved, files, media, work, misread, upToDate, edits, stops,
  heard, offset, layer2, onScreen, setup, cache, merged, current, changes,
  audio, hashes, chunks, staged, run, plans, tidy, runs, upsets,
  given, phase, parts, summaries, depth, answers, tries, faults,
  bundle, words, rows, entries, found, jobRow, logged, writer, rebuild, doubted, told, events

Bundle == INSTANCE BundleStages
Merge == INSTANCE Integration
Chunking == INSTANCE ChunkPlan
Text == INSTANCE MinutesText WITH MaxRequests <- PromptBudget
Index == INSTANCE Catalog

bvars == <<saved, files, media, work, misread, upToDate, edits, stops>>
ivars == <<heard, offset, layer2, onScreen, setup, cache, merged, current, changes>>
hvars == <<audio, hashes, chunks, staged, run, plans, tidy, runs, upsets>>
tvars == <<given, phase, parts, summaries, depth, answers, tries, faults>>
cvars == <<bundle, words, rows, entries, found, jobRow, logged, writer, rebuild, doubted, told,
           events>>

PipelineInit ==
  /\ focus \in {"minutes", "bundle", "integration", "chunks", "text", "catalog"}
  /\ Init /\ Bundle!Init /\ Merge!Init /\ Chunking!Init /\ Text!Init /\ Index!Init
  /\ \* Every bundle starts with one configuration and may be given the others.
     saved.settings = FirstSettings
  /\ focus # "chunks" => \A t \in DOMAIN audio : audio[t].len = 1
  /\ focus # "text" => given = [lens |-> << >>, brief |-> 0, bounded |-> TRUE]

PipelineNext ==
  /\ UNCHANGED focus
  /\ \/ focus = "minutes" /\ Next /\ UNCHANGED <<bvars, ivars, hvars, tvars, cvars>>
     \/ focus = "bundle" /\ Bundle!Next /\ UNCHANGED <<vars, ivars, hvars, tvars, cvars>>
     \/ focus = "integration" /\ Merge!Next /\ UNCHANGED <<vars, bvars, hvars, tvars, cvars>>
     \/ focus = "chunks" /\ Chunking!Next /\ UNCHANGED <<vars, bvars, ivars, tvars, cvars>>
     \/ focus = "text" /\ Text!Next /\ UNCHANGED <<vars, bvars, ivars, hvars, cvars>>
     \/ focus = "catalog" /\ Index!Next /\ UNCHANGED <<vars, bvars, ivars, hvars, tvars>>

PipelineSpec ==
  PipelineInit /\ [][PipelineNext]_<<focus, vars, bvars, ivars, hvars, tvars, cvars>>

\* The types of the part that moves.
PipelineTypeOK ==
  CASE focus = "minutes" -> TypeOK
    [] focus = "bundle" -> Bundle!TypeOK
    [] focus = "integration" -> Merge!TypeOK
    [] focus = "chunks" -> Chunking!TypeOK
    [] focus = "text" -> Text!TypeOK
    [] focus = "catalog" -> Index!TypeOK

\* What an artifact was made of is what its record says; a job that ended well
\* leaves what a first run would make; published minutes stay; audio goes only
\* when its words are kept, and playbacks with their tracks.  See BundleStages
\* (pipeline.py, bundle/session.py, handlers/lifecycle.py).
BundleSafe == focus = "bundle" => Bundle!BundleSafe

\* A merged transcript that reuses rows of an earlier run is the one made from
\* nothing, with every word once, in order, under unambiguous names.  See
\* Integration (generate/integrate.py, cache.py, speakers.py).
IntegrationSafe == focus = "integration" => Merge!IntegrationSafe

\* A plan of chunks covers the audio that the manifest names, and the same
\* audio has the same plan, whatever was replaced meanwhile.  See ChunkPlan
\* (transcribe/_wav.py, chunks.py).
PlanSafe == focus = "chunks" => Chunking!PlanSafe

\* Every prompt of minutes fits, and together they tell of all that was said.
\* See MinutesText (generate/bounded.py, minutes.py).
TextSafe == focus = "text" => Text!TextSafe

\* Lists and searches say of a meeting what its bundle says, whatever rebuilds,
\* writers and crashes met.  See Catalog (catalog/db.py, rebuild.py).
CatalogSafe == focus = "catalog" => Index!CatalogSafe

-----------------------------------------------------------------------------
(* What TLC gives the constants.  Minutes: one selection at two epochs, two *)
(* provenances and two prompts.                                             *)

CONSTANTS i1, r1, r2, q1, q2, nopath, noprompt, m1, m2, s1, s2, w1

Symmetry == Permutations({r1, r2}) \cup Permutations({q1, q2})

\* The configurations of a meeting.
st(d, p, h) == [engine |-> "e", diar |-> d, provider |-> p, hints |-> h]
FirstSettingsDef == st("d1", "vision", "h1")
SettingsDef == {st("d1", "vision", "h1"), st("d2", "plain", "h2"), st("none", "vision", "h1")}

\* Transcripts of the two tracks and of an external tool: talk over each
\* other, silence, blank text, one or two voices, or none told apart.
sg(a, b, x, p) == [start |-> a, end |-> b, text |-> x, speaker |-> p]
SourceOrderDef == <<"ext-a", "own-mic", "own-system">>
OwnMicVersions ==
  {<<sg(0, 2, "w1", "nobody"), sg(6, 7, "w2", "nobody")>>, <<sg(1, 2, "w1", "nobody")>>,
   <<sg(0, 1, "w1", "nobody"), sg(2, 3, "w3", "nobody")>>}
OwnSystemVersions ==
  {<<sg(1, 3, "u1", "v1"), sg(4, 6, "u2", "v2")>>,
   <<sg(1, 3, "u1", "nobody"), sg(3, 5, "blank", "nobody")>>}
ExternalVersions ==
  {<<sg(0, 2, "x1", "bob"), sg(4, 6, "x2", "eve")>>, <<sg(1, 2, "x1", "nobody")>>}
VersionsDef ==
  [s \in {"ext-a", "own-mic", "own-system"} |->
     CASE s = "ext-a" -> ExternalVersions [] s = "own-mic" -> OwnMicVersions
       [] s = "own-system" -> OwnSystemVersions]
OffsetsDef == {-1, 0, 2}
Layer2Def ==
  {{}, {[start |-> 1, end |-> 4, speaker |-> "s0", layer |-> 2, source |-> "none"]}}

\* Transcripts of no, one, several and very long lines.
GivenDef ==
  [lens : {<< >>, <<3>>, <<1, 1, 1>>, <<0, 5, 1>>, <<2, 2, 2, 2>>}, brief : {0, 1, 6},
   bounded : BOOLEAN]

ASSUME PipelineAssumption ==
  /\ Bundle!BundleAssumption /\ Merge!IntegrationAssumption /\ Chunking!PlanAssumption
  /\ Text!TextAssumption /\ Index!CatalogAssumption
=============================================================================
