------------------------------ MODULE Integration ------------------------------
(***************************************************************************)
(* Alignment and integration of a meeting's transcripts                    *)
(* (pipeline/src/narumi/align/intervals.py, generate/integrate.py,         *)
(* generate/cache.py, generate/speakers.py, generate/asr_speakers.py,      *)
(* diarize/layer1.py, diarize/layer4.py).                                  *)
(*                                                                         *)
(* Segments of all sources are clustered into intervals on a common clock. *)
(* Each interval becomes one or more rows: its words, by a model when one  *)
(* is configured, and a speaker label voted from the turns of the layers.  *)
(* Rows are cached under a fingerprint of the interval, so that a later    *)
(* run only asks the model about the intervals that changed.               *)
(*                                                                         *)
(* A model's answer is its prompt.  The corrections of the clocks, which   *)
(* come from shared n-grams, are any of Offsets; times are whole seconds.  *)
(***************************************************************************)
EXTENDS Integers, Sequences, SequencesExt, FiniteSets, TLC

CONSTANTS
  SourceOrder, \* source ids in their lexical order
  Versions,    \* what each source may be transcribed as: seqs of [start, end, text, speaker]
  Offsets,     \* corrections of a clock against own-system
  Layer2,      \* what the selected engine may return: sets of turns
  Gap,         \* seconds that still join segments
  MaxChanges   \* bound on the changes between runs

Sources == Range(SourceOrder)
Own == {"own-mic", "own-system"}
Blank == "blank"
Nobody == "nobody"
Me == "me"
Other == "other"

IntegrationAssumption ==
  /\ Own \subseteq Sources /\ Gap \in Nat /\ MaxChanges \in Nat
  /\ \A s \in Sources : s \in DOMAIN Versions

VARIABLES
  heard,    \* the transcripts: source |-> segments
  offset,   \* alignment.offsets
  layer2,   \* the turns of layer 2
  onScreen, \* layer-3 names: label |-> name
  setup,    \* [llm, hints]
  cache,    \* merged/integrate_cache.json: fingerprint |-> rows
  merged,   \* merged/merged.json: rows with names, or none
  current,  \* merged was made of all this, and so was the cache
  changes

ivars == <<heard, offset, layer2, onScreen, setup, cache, merged, current, changes>>

-----------------------------------------------------------------------------
(* The common clock, and intervals *)

Rank(s) == CHOOSE i \in DOMAIN SourceOrder : SourceOrder[i] = s
Largest(S) == CHOOSE x \in S : \A y \in S : y <= x
Smallest(S) == CHOOSE x \in S : \A y \in S : x <= y
From(t) == IF t < 0 THEN 0 ELSE t
Until(start, t) == IF t < start THEN start ELSE t

Shift(s) == IF s = "own-system" THEN 0 ELSE offset[s]
Segments == UNION {{<<s, i>> : i \in DOMAIN heard[s]} : s \in DOMAIN heard}
Seg(id) == heard[id[1]][id[2]]
Start(id) == From(Seg(id).start + Shift(id[1]))
End(id) == Until(Start(id), Seg(id).end + Shift(id[1]))

Lexical(a, b) == \* a before b, the first difference deciding
  \E i \in DOMAIN a : a[i] < b[i] /\ \A j \in 1 .. i - 1 : a[j] = b[j]

PlaceKey(id) == <<Start(id), End(id), Rank(id[1]), id[2]>>
Placed == SetToSortSeq(Segments, LAMBDA a, b : Lexical(PlaceKey(a), PlaceKey(b)))

ColumnsEnd(cluster) == Largest({End(id) : id \in Range(cluster)})
TouchesOtherSource(id, cluster) ==
  \E other \in Range(cluster) : other[1] # id[1] /\ Start(id) <= End(other) + Gap

\* build_intervals: a segment joins the cluster it is near, when one of
\* another source there is near as well.
Joins(id, cluster) ==
  /\ cluster # << >> /\ Start(id) <= ColumnsEnd(cluster) + Gap
  /\ TouchesOtherSource(id, cluster)

Clusters ==
  FoldLeft(LAMBDA cs, id : IF cs # << >> /\ Joins(id, Last(cs))
                           THEN Front(cs) \o <<Append(Last(cs), id)>>
                           ELSE Append(cs, <<id>>),
           << >>, Placed)

Interval(cluster) ==
  [start |-> Smallest({Start(id) : id \in Range(cluster)}), end |-> ColumnsEnd(cluster),
   columns |-> [s \in {id[1] : id \in Range(cluster)} |->
                  SelectSeq(cluster, LAMBDA id : id[1] = s)]]

Intervals == LET all == Clusters IN [i \in DOMAIN all |-> Interval(all[i])]

-----------------------------------------------------------------------------
(* Speaker turns *)

TurnOf(id, speaker, layer) ==
  [start |-> Start(id), end |-> End(id), speaker |-> speaker, layer |-> layer, source |-> id[1]]

TrackSpeaker(s) == IF s = "own-mic" THEN Me ELSE Other
OwnSegments == {id \in Segments : id[1] \in Own}
Spoken(ids) == {id \in ids : Seg(id).speaker # Nobody}

Layer1 == {TurnOf(id, TrackSpeaker(id[1]), 1) : id \in OwnSegments}
AsrTurns == {TurnOf(id, Seg(id).speaker, 2) : id \in Spoken(OwnSegments)}
Layer4 == {TurnOf(id, Seg(id).speaker, 4) : id \in Spoken(Segments \ OwnSegments)}
AllTurns == Layer1 \cup layer2 \cup AsrTurns \cup Layer4

Overlap(start, end, t) ==
  From(Smallest({end, t.end}) - Largest({start, t.start}))
Overlapping(start, end, turns) == {t \in turns : Overlap(start, end, t) > 0}

Amount(start, end, turns, speaker) ==
  FoldLeft(LAMBDA sum, t : sum + Overlap(start, end, t), 0,
           SetToSeq({t \in turns : t.speaker = speaker}))

\* Nobody when nothing overlaps; a tie goes to a fixed one of them.
AssignByOverlap(start, end, turns) ==
  LET speakers == {t.speaker : t \in Overlapping(start, end, turns)} IN
  IF speakers = {} THEN Nobody
  ELSE CHOOSE s \in speakers : \A other \in speakers :
         Amount(start, end, turns, other) <= Amount(start, end, turns, s)

-----------------------------------------------------------------------------
(* The rows of one interval *)

ColumnTexts(iv, s) ==
  SelectSeq([i \in DOMAIN iv.columns[s] |-> Seg(iv.columns[s][i]).text], LAMBDA x : x # Blank)

ColumnSpan(iv, s) ==
  <<Smallest({Start(id) : id \in Range(iv.columns[s])}),
    Largest({End(id) : id \in Range(iv.columns[s])})>>

Draft(start, end, text, columns) ==
  [start |-> start, end |-> end, text |-> text, columns |-> columns]

PreferredSource(candidates) ==
  IF "own-system" \in candidates THEN "own-system"
  ELSE IF "own-mic" \in candidates THEN "own-mic"
  ELSE CHOOSE s \in candidates : \A other \in candidates : Rank(s) <= Rank(other)

Answer(iv) ==
  <<[start |-> iv.start, end |-> iv.end, hints |-> setup.hints,
     columns |-> [s \in DOMAIN iv.columns |-> ColumnTexts(iv, s)]]>>

\* Own tracks are different people: without a model each keeps its words.
IntervalDrafts(iv) ==
  LET contributing == DOMAIN iv.columns
      own == contributing \cap Own
      whole(s) == Draft(iv.start, iv.end, ColumnTexts(iv, s), {s})
      part(s) == Draft(ColumnSpan(iv, s)[1], ColumnSpan(iv, s)[2], ColumnTexts(iv, s), {s})
  IN CASE Cardinality(contributing) = 1 -> {whole(s) : s \in contributing}
       [] Cardinality(contributing) > 1 /\ setup.llm ->
            {Draft(iv.start, iv.end, Answer(iv), contributing)}
       [] Cardinality(contributing) > 1 /\ ~setup.llm ->
            IF own = {} THEN {whole(PreferredSource(contributing))} ELSE {part(s) : s \in own}

TrackLabel(own) ==
  CASE own = {"own-mic"} -> Me [] own = {"own-system"} -> Other [] OTHER -> Nobody

VotedLabel(draft) ==
  LET own == draft.columns \cap Own
      vote == AssignByOverlap(draft.start, draft.end, Layer1)
  IN IF (Cardinality(draft.columns) = 1 /\ own # {}) \/ vote = Nobody
     THEN TrackLabel(own) ELSE vote

MatchingAsrTurns(draft) ==
  {t \in Overlapping(draft.start, draft.end, AsrTurns) : t.source \in draft.columns}

\* `other' is refined by layer 2, or else by the one voice that the engine
\* heard; several voices are no majority.
DraftLabel(draft) ==
  LET refined == AssignByOverlap(draft.start, draft.end, layer2)
      voices == {t.speaker : t \in MatchingAsrTurns(draft)}
  IN CASE VotedLabel(draft) # Other -> VotedLabel(draft)
       [] VotedLabel(draft) = Other /\ refined \notin {Nobody, Other} -> refined
       [] OTHER -> IF Cardinality(voices) = 1 THEN CHOOSE v \in voices : TRUE ELSE Other

DraftKey(d) == <<d.start, d.end, Smallest({Rank(s) : s \in d.columns})>>
SegmentKey(id) == <<Seg(id).start + Shift(id[1]), Rank(id[1]), id[2]>>

Row(iv, d) ==
  [start |-> d.start, end |-> d.end, text |-> d.text, label |-> DraftLabel(d),
   sources |-> SetToSortSeq(UNION {Range(iv.columns[s]) : s \in d.columns},
                            LAMBDA a, b : Lexical(SegmentKey(a), SegmentKey(b)))]

IntervalRows(iv) ==
  LET drafts == SetToSortSeq({d \in IntervalDrafts(iv) : d.text # << >>},
                             LAMBDA a, b : Lexical(DraftKey(a), DraftKey(b)))
  IN [i \in DOMAIN drafts |-> Row(iv, drafts[i])]

FingerprintUnvoiced(iv) ==  \* a plausible bug: the speakers are left out
  [llm |-> setup.llm, hints |-> setup.hints, span |-> <<iv.start, iv.end>>,
   columns |-> UNION {{<<id, Seg(id).text>> : id \in Range(iv.columns[s])} :
                        s \in DOMAIN iv.columns}]

\* interval_fingerprint
Fingerprint(iv) ==
  [llm |-> setup.llm, hints |-> setup.hints, span |-> <<iv.start, iv.end>>,
   columns |-> UNION {{<<id, Seg(id).text>> : id \in Range(iv.columns[s])} :
                        s \in DOMAIN iv.columns},
   speakers |-> Overlapping(iv.start, iv.end, AllTurns)]

-----------------------------------------------------------------------------
(* Names, resolved afresh by every run *)

Named4(row) == IF row.label = Me THEN {}
               ELSE {t.speaker : t \in Overlapping(row.start, row.end, Layer4)}

\* The name on the screen for `other' holds for the voices refined from it.
Screen ==
  LET refined == {t.speaker : t \in {u \in AsrTurns : u.source = "own-system"}} IN
  onScreen @@ (IF Other \in DOMAIN onScreen THEN [v \in refined |-> onScreen[Other]] ELSE << >>)

LabelName(rows, label) ==
  LET names == UNION {Named4(rows[i]) : i \in {j \in DOMAIN rows : rows[j].label = label}} IN
  CASE label = Me -> "self"
    [] label = Nobody -> Nobody
    [] label \notin {Me, Nobody} /\ Cardinality(names) = 1 -> CHOOSE n \in names : TRUE
    [] OTHER -> IF label \in DOMAIN Screen THEN Screen[label] ELSE Nobody

RowName(rows, i) ==
  LET name == LabelName(rows, rows[i].label) IN
  IF name = Nobody /\ Cardinality(Named4(rows[i])) = 1
  THEN CHOOSE n \in Named4(rows[i]) : TRUE ELSE name

Naming(rows) == [i \in DOMAIN rows |-> [row |-> rows[i], name |-> RowName(rows, i)]]

-----------------------------------------------------------------------------
(* Runs, and what changes between them *)

Cached(entries, iv) ==
  IF Fingerprint(iv) \in DOMAIN entries THEN entries[Fingerprint(iv)] ELSE IntervalRows(iv)
Rows(entries) ==
  LET ivs == Intervals IN FlattenSeq([i \in DOMAIN ivs |-> Cached(entries, ivs[i])])
Live(entries) ==
  LET ivs == Range(Intervals) IN
  [fp \in {Fingerprint(iv) : iv \in ivs} |->
     Cached(entries, CHOOSE iv \in ivs : Fingerprint(iv) = fp)]

Init ==
  /\ heard = [s \in Own |-> CHOOSE v \in Versions[s] : TRUE]
  /\ offset = [s \in Sources |-> 0]
  /\ layer2 = {} /\ onScreen = << >> /\ setup = [llm |-> FALSE, hints |-> "h1"]
  /\ cache = << >> /\ merged = << >> /\ current = FALSE /\ changes = 0

\* run_integrate; the process may die between the cache and the transcript.
RunIntegrate(force, dies) ==
  LET entries == IF force THEN << >> ELSE cache IN
  /\ force \/ ~current
  /\ cache' = Live(entries)
  /\ IF dies THEN current' = FALSE /\ UNCHANGED merged
     ELSE merged' = Naming(Rows(entries)) /\ current' = TRUE
  /\ UNCHANGED <<heard, offset, layer2, onScreen, setup, changes>>

Change == changes < MaxChanges /\ changes' = changes + 1 /\ current' = FALSE
Outputs == <<cache, merged>>

\* A track transcribed again or an external transcript added, and the clocks
\* compared with it.
Compared(s) == IF s = "own-system" THEN Sources \ {s} ELSE {s}
Transcribe(s, v, o) ==
  /\ Change /\ (s \in Own \/ s \notin DOMAIN heard)
  /\ heard' = (s :> v) @@ heard /\ offset' = o @@ offset
  /\ UNCHANGED <<layer2, onScreen, setup, Outputs>>

Diarize(turns, screen) ==
  /\ Change /\ layer2' = turns /\ onScreen' = screen
  /\ UNCHANGED <<heard, offset, setup, Outputs>>

Configure(llm, hints) ==
  /\ Change /\ setup' = [llm |-> llm, hints |-> hints]
  /\ UNCHANGED <<heard, offset, layer2, onScreen, Outputs>>

Next ==
  \/ \E force, dies \in BOOLEAN : RunIntegrate(force, dies)
  \/ \E s \in Sources : \E v \in Versions[s], o \in [Compared(s) -> Offsets] :
       Transcribe(s, v, o)
  \/ \E turns \in Layer2, screen \in {<< >>, Other :> "ann"} : Diarize(turns, screen)
  \/ \E llm \in BOOLEAN, hints \in {"h1", "h2"} : Configure(llm, hints)

Spec == Init /\ [][Next]_ivars

-----------------------------------------------------------------------------
(* Properties *)

\* Types.
TypeOK ==
  /\ Own \subseteq DOMAIN heard /\ DOMAIN heard \subseteq Sources
  /\ offset \in [Sources -> Offsets \cup {0}] /\ layer2 \in Layer2 \cup {{}}
  /\ setup \in [llm : BOOLEAN, hints : {"h1", "h2"}]
  /\ current \in BOOLEAN /\ changes \in 0 .. MaxChanges

\* The order of a row's sources is presentation only.
Unordered(named) ==
  [i \in DOMAIN named |-> [named[i] EXCEPT !.row.sources = Range(@)]]

\* interval_fingerprint is "everything that can change the interval's merged
\* rows": after any sequence of runs and changes, a run that reuses cached rows
\* writes the transcript that a run from nothing would write.
ReusedIsFresh ==
  current => Unordered(merged) = Unordered(Naming(Rows(<< >>)))

\* "the file always mirrors the latest merged.json" (save): it holds the rows of
\* the transcript and nothing of intervals that no longer exist.
CacheMirrorsMerged ==
  current => UNION {Range(cache[fp]) : fp \in DOMAIN cache} = {r.row : r \in Range(merged)}

\* Lossless: the words of an own track are in the row that names the segment,
\* and no segment is in two rows; with a model no segment is in none.
EveryWordOnce ==
  current =>
    /\ \A id \in Segments :
         LET rows == {i \in DOMAIN merged : id \in Range(merged[i].row.sources)} IN
         /\ Cardinality(rows) <= 1
         /\ (id[1] \in Own \/ setup.llm) /\ Seg(id).text # Blank => Cardinality(rows) = 1
         /\ ~setup.llm /\ Seg(id).text # Blank =>
              \A i \in rows : Seg(id).text \in Range(merged[i].row.text)

\* The rows read in the order in which they were spoken.
RowsInOrder ==
  current => \A i, j \in DOMAIN merged : i < j => merged[i].row.start <= merged[j].row.start

\* The microphone is never named after somebody else, and a name heard by an
\* external tool is not given to a label that it heard two names for.
NamesAreUnambiguous ==
  current => \A i \in DOMAIN merged :
    /\ merged[i].row.label = Me => merged[i].name = "self"
    /\ merged[i].name \notin {Nobody, "self"} \cup Range(onScreen) =>
         merged[i].name \in Named4(merged[i].row) \/
           \A j \in DOMAIN merged : merged[j].row.label = merged[i].row.label =>
             Named4(merged[j].row) \subseteq {merged[i].name}

\* All of these, checked together.
IntegrationSafe ==
  /\ ReusedIsFresh /\ CacheMirrorsMerged /\ EveryWordOnce /\ RowsInOrder
  /\ NamesAreUnambiguous
=============================================================================
