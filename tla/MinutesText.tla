------------------------------- MODULE MinutesText -------------------------------
(***************************************************************************)
(* The prompts of a generation of minutes, and the transcript below them   *)
(* (pipeline/src/narumi/generate/minutes.py, bounded.py, slides/embed.py). *)
(*                                                                         *)
(* The lines of the transcript are cut into chunks, each chunk is          *)
(* summarised, and the summaries become minutes.  With a connected model   *)
(* every prompt has a limit, so that lines may be split and summaries      *)
(* summarised again, until they fit.  A generation that failed resumes     *)
(* with the answers that MinutesCheckpoints kept.                          *)
(*                                                                         *)
(* A text is a sequence of characters; of a character it matters whether   *)
(* it ends a line, and which lines of the transcript it tells of.          *)
(***************************************************************************)
EXTENDS Integers, Sequences, SequencesExt, FiniteSets, TLC

CONSTANTS
  Given,         \* what may be written of: [lens, brief, bounded]; see Init
  InputChars,    \* MinutesLimits.input_chars; the chunk budget without a connection
  MaxRequests, MaxReductions, \* ... max_requests, max_reductions
  Template,      \* length of a prompt without numbers, brief and text
  OneDigit,      \* numbers from here on take another digit
  MinRoom,       \* a smaller room for text is refused
  AnswerLengths, \* lengths of an answer
  MaxFaults      \* bound on requests that fail

TextAssumption ==
  /\ {InputChars, MaxRequests, MaxReductions, Template, OneDigit, MaxFaults} \subseteq Nat
  /\ MinRoom \in Nat \ {0} /\ AnswerLengths \subseteq Nat \ {0}

VARIABLES
  given,
  phase,     \* where the generation is
  parts,     \* the chunks, or the groups of notes, to be summarised
  summaries, \* ... the summaries of those before
  depth,     \* reductions so far
  answers,   \* the checkpoint: prompt |-> answer
  tries,     \* ... and its attempts
  faults

tvars == <<given, phase, parts, summaries, depth, answers, tries, faults>>

-----------------------------------------------------------------------------
(* Texts *)

Char(of, ends) == [of |-> of, ends |-> ends]
LineText(n, len) == [i \in 1 .. len |-> Char({n}, FALSE)]

\* "\n".join of the lines.
Transcript ==
  FlattenSeq([n \in DOMAIN given.lens |->
                LineText(n, given.lens[n]) \o
                  (IF n < Len(given.lens) THEN <<Char({n}, TRUE)>> ELSE << >>)])

Tells(text) == UNION {text[i].of : i \in DOMAIN text}

\* splitlines(keepends=True)
KeepEnds(text) ==
  LET put(lines, c) == IF lines = << >> \/ Last(Last(lines)).ends
                       THEN Append(lines, <<c>>)
                       ELSE Front(lines) \o <<Append(Last(lines), c)>>
  IN FoldLeft(put, << >>, text)

\* split_text: at ends of lines where it can, within a line where it must.
SplitText(text, budget) ==
  LET put(acc, line) ==
        LET flush == acc.pending # << >> /\ Len(acc.pending) + Len(line) > budget
            cut == IF Len(line) > budget THEN (Len(line) - 1) \div budget ELSE 0
            whole == [k \in 1 .. cut |-> SubSeq(line, (k - 1) * budget + 1, k * budget)]
            rest == SubSeq(line, cut * budget + 1, Len(line))
        IN [parts |-> acc.parts \o (IF flush THEN <<acc.pending>> ELSE << >>) \o whole,
            pending |-> IF flush THEN rest ELSE acc.pending \o rest]
      all == FoldLeft(put, [parts |-> << >>, pending |-> << >>], KeepEnds(text))
  IN IF all.pending = << >> THEN all.parts ELSE Append(all.parts, all.pending)

\* chunk_lines: never within a line, which may exceed the budget.
ChunkLines(lens, budget) ==
  LET put(acc, n) ==
        IF acc.current # << >> /\ acc.size + lens[n] + 1 > budget
        THEN [chunks |-> Append(acc.chunks, acc.current), current |-> <<n>>, size |-> lens[n] + 1]
        ELSE [acc EXCEPT !.current = Append(@, n), !.size = @ + lens[n] + 1]
      all == FoldLeft(put, [chunks |-> << >>, current |-> << >>, size |-> 0],
                      [n \in DOMAIN lens |-> n])
  IN IF all.current = << >> THEN all.chunks ELSE Append(all.chunks, all.current)

\* The notes: a heading for each summary, which stands for what it tells.
Notes(texts) ==
  FlattenSeq([i \in DOMAIN texts |-> <<Char(Tells(texts[i]), TRUE)>> \o texts[i]])

-----------------------------------------------------------------------------
(* Prompts *)

Digits(n) == IF n < OneDigit THEN 1 ELSE 2
PromptLength(numbers, text) ==
  Template + given.brief + FoldLeft(LAMBDA sum, n : sum + Digits(n), 0, numbers) + Len(text)

\* _available: the widest numbers are reserved.
Room(numbers) == InputChars - PromptLength(numbers, << >>)
ChunkRoomNarrow == Room(<<1, 1>>)  \* a plausible bug: room for the first number only

ChunkRoom == Room(<<MaxRequests, MaxRequests>>)
ReduceRoom == Room(<< >>)

PromptOf(kind, numbers, text) == [kind |-> kind, numbers |-> numbers, text |-> text]
Fits(p) == PromptLength(p.numbers, p.text) <= InputChars

FinalPrompt == PromptOf("final", <<parts.chunks>>, Notes(summaries))

\* The prompt that is next in this phase.
NextPrompt ==
  LET i == Len(parts.done) + 1 IN
  CASE phase = "chunks" -> PromptOf("chunk", <<i, Len(parts.todo)>>, parts.todo[i])
    [] phase = "reduce" -> PromptOf("reduce", << >>, parts.todo[i])
    [] phase = "final" -> FinalPrompt

-----------------------------------------------------------------------------
Init ==
  /\ given \in Given /\ phase = "start" /\ parts = << >> /\ summaries = << >> /\ depth = 0
  /\ answers = << >> /\ tries = 0 /\ faults = 0

Refuse == phase' = "refused" /\ UNCHANGED <<parts, summaries, depth>>

\* _llm_sections, bounded_minutes: an empty transcript is one empty chunk.
Start ==
  /\ phase = "start"
  /\ LET lines(chunk) ==
           FlattenSeq([i \in DOMAIN chunk |-> LineText(chunk[i], given.lens[chunk[i]])])
         whole == ChunkLines(given.lens, InputChars)
         chunks == IF given.bounded THEN SplitText(Transcript, ChunkRoom)
                   ELSE [i \in DOMAIN whole |-> lines(whole[i])]
         some == IF chunks = << >> THEN << << >> >> ELSE chunks
     IN IF given.bounded /\ ChunkRoom < MinRoom THEN Refuse
        ELSE IF given.bounded /\ Len(some) + 1 > MaxRequests THEN Refuse
        ELSE /\ phase' = "chunks" /\ UNCHANGED <<summaries, depth>>
             /\ parts' = [todo |-> some, done |-> << >>, chunks |-> Len(some)]
  /\ UNCHANGED <<given, answers, tries, faults>>

\* complete: an answer that is kept costs nothing.
Take(answer) ==
  IF phase = "final" THEN phase' = "done" /\ summaries' = <<answer>> /\ UNCHANGED parts
  ELSE LET done == Append(parts.done, answer) IN
       IF Len(done) < Len(parts.todo)
       THEN parts' = [parts EXCEPT !.done = done] /\ UNCHANGED <<phase, summaries>>
       ELSE /\ parts' = [parts EXCEPT !.done = done] /\ UNCHANGED summaries
            /\ phase' = IF phase = "chunks" THEN "noted" ELSE "shrunk"

Asking == phase \in {"chunks", "reduce", "final"}
Answer(p, len) == [i \in 1 .. len |-> Char(Tells(p.text), FALSE)]

Recall ==
  /\ Asking /\ given.bounded /\ NextPrompt \in DOMAIN answers
  /\ Take(answers[NextPrompt]) /\ UNCHANGED <<given, depth, answers, tries, faults>>

Complete(len) ==
  /\ Asking /\ NextPrompt \notin DOMAIN answers
  /\ given.bounded => tries < MaxRequests /\ Fits(NextPrompt)
  /\ Take(Answer(NextPrompt, len)) /\ tries' = tries + 1
  /\ answers' = (NextPrompt :> Answer(NextPrompt, len)) @@ answers
  /\ UNCHANGED <<given, depth, faults>>

\* The request fails, and with it the generation, which may be started again.
FailRequest ==
  /\ Asking /\ NextPrompt \notin DOMAIN answers /\ faults < MaxFaults
  /\ given.bounded => tries < MaxRequests /\ Fits(NextPrompt)
  /\ faults' = faults + 1 /\ tries' = tries + 1
  /\ phase' = "start" /\ parts' = << >> /\ summaries' = << >> /\ depth' = 0
  /\ answers' = IF given.bounded THEN answers ELSE << >>
  /\ UNCHANGED given

OutOfBudget ==
  /\ Asking /\ given.bounded /\ NextPrompt \notin DOMAIN answers
  /\ ~(tries < MaxRequests /\ Fits(NextPrompt))
  /\ Refuse /\ UNCHANGED <<given, answers, tries, faults>>

\* The summaries of the chunks, or shorter ones of those.
Collect ==
  /\ phase \in {"noted", "shrunk"}
  /\ IF phase = "shrunk" /\ Len(Notes(parts.done)) >= Len(Notes(summaries)) THEN Refuse
     ELSE /\ phase' = "fit" /\ summaries' = parts.done /\ UNCHANGED parts
          /\ depth' = IF phase = "shrunk" THEN depth + 1 ELSE depth
  /\ UNCHANGED <<given, answers, tries, faults>>

Reduce ==
  /\ phase = "fit"
  /\ IF ~given.bounded \/ Fits(FinalPrompt) THEN phase' = "final" /\ UNCHANGED parts
     ELSE IF depth = MaxReductions \/ ReduceRoom < MinRoom
          THEN phase' = "refused" /\ UNCHANGED parts
          ELSE /\ phase' = "reduce"
               /\ parts' = [parts EXCEPT !.todo = SplitText(Notes(summaries), ReduceRoom),
                                         !.done = << >>]
  /\ UNCHANGED <<given, summaries, depth, answers, tries, faults>>

Next ==
  \/ Start \/ Recall \/ FailRequest \/ OutOfBudget \/ Collect \/ Reduce
  \/ \E len \in AnswerLengths : Complete(len)

Spec == Init /\ [][Next]_tvars

-----------------------------------------------------------------------------
(* The transcript below the minutes: line n starts at n, slides when they may *)

SlideTimes == {<< >>, <<0>>, <<1, 1>>, <<2, 0>>, <<9, 1, 2>>}

\* select_slides_for_minutes: in order of time, each after the last line that
\* started before it, or before all lines.
Anchored(slides) ==
  LET order == SetToSortSeq(DOMAIN slides, LAMBDA a, b : slides[a] < slides[b] \/
                                             (slides[a] = slides[b] /\ a < b))
      anchor(s) == Cardinality({n \in DOMAIN given.lens : n <= slides[s]})
  IN [i \in DOMAIN order |-> <<order[i], anchor(order[i])>>]

\* transcript_lines_with_slides: only slides whose image was copied.
LinesWithSlides(slides, copied) ==
  LET images(n) == SelectSeq(Anchored(slides), LAMBDA a : a[2] = n /\ a[1] \in copied)
      shown(n) == [i \in DOMAIN images(n) |-> <<"slide", images(n)[i][1]>>]
  IN shown(0) \o FlattenSeq([n \in DOMAIN given.lens |-> <<<<"line", n>>>> \o shown(n)])

-----------------------------------------------------------------------------
(* Properties *)

\* Types.
TypeOK ==
  /\ given \in Given /\ depth \in 0 .. MaxReductions /\ tries \in Nat /\ faults \in 0 .. MaxFaults
  /\ phase \in {"start", "chunks", "noted", "shrunk", "fit", "reduce", "final", "done", "refused"}

\* With a connected model no prompt that is next exceeds its limit, whatever the
\* numbers in it, the brief, and the length of the summaries: requests that are
\* paid for are never followed by one that cannot be sent.  What one attempt
\* sends is bounded over all its resumptions.
PromptsFit ==
  given.bounded => /\ Asking => Fits(NextPrompt)
                   /\ tries <= MaxRequests /\ Cardinality(DOMAIN answers) <= tries

\* Nothing of the transcript is lost or told twice on its way into the prompts:
\* the chunks laid end to end are the transcript, groups of notes are the notes,
\* and the last prompt tells of every line that has words.
NothingDropped ==
  /\ phase = "chunks" /\ given.bounded => FlattenSeq(parts.todo) = Transcript
  /\ phase = "chunks" =>
       {n \in DOMAIN given.lens : given.lens[n] > 0} \subseteq Tells(FlattenSeq(parts.todo))
  /\ phase = "reduce" => FlattenSeq(parts.todo) = Notes(summaries)
  /\ phase = "final" => {n \in DOMAIN given.lens : given.lens[n] > 0} \subseteq
                          Tells(FinalPrompt.text)

\* A budget that the prompt allows is used: a chunk could not have taken the
\* next line as well.
ChunksAreFull ==
  phase = "chunks" /\ given.bounded => \A i \in 1 .. Len(parts.todo) - 1 :
    Len(parts.todo[i]) + Len(KeepEnds(parts.todo[i + 1])[1]) > ChunkRoom

\* Every line is written once and in its order; every slide with an image once,
\* none before it was shown, and slides in the order in which they were.
SlidesInPlace ==
  phase = "start" => \A slides \in SlideTimes : \A copied \in SUBSET DOMAIN slides :
    LET body == LinesWithSlides(slides, copied)
        kind(k) == SelectSeq(body, LAMBDA x : x[1] = k)
    IN /\ kind("line") = [n \in DOMAIN given.lens |-> <<"line", n>>]
       /\ {x[2] : x \in Range(kind("slide"))} = copied
       /\ Len(kind("slide")) = Cardinality(copied)
       /\ \A i, j \in DOMAIN body : i < j /\ body[i][1] = "slide" =>
            CASE body[j][1] = "line" -> slides[body[i][2]] < body[j][2]
              [] body[j][1] = "slide" -> slides[body[i][2]] <= slides[body[j][2]]

\* All of these, checked together.
TextSafe == PromptsFit /\ NothingDropped /\ ChunksAreFull /\ SlidesInPlace
=============================================================================
