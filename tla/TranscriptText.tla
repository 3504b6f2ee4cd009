--------------------------- MODULE TranscriptText ---------------------------
(***************************************************************************)
(* The text of a transcript: once the speaker turns of a window are known, *)
(* each segment of speech is cut between the tokens where the speaker      *)
(* changes (refine_segments_with_turns) and the pieces are appended to the *)
(* text of the meeting (_append_without_overlap, batch_jobs.py).           *)
(*                                                                         *)
(* A text is a sequence of characters, each a letter or a space.           *)
(***************************************************************************)
EXTENDS SpeakerTurns

CONSTANTS
  Letters,         \* characters that are not space
  Blank, Break,    \* " " and "\n"
  MaxOverlap,      \* longest repetition that is looked for
  TokenLengths,    \* extents of tokens
  Pauses,          \* between a token and the one before, or the region's start
  MaxLetters,      \* bound on the letters of a window
  MaxWorded        \* bound on the length of a window with words

ASSUME TextAssumption ==
  /\ Blank # Break /\ {Blank, Break} \cap Letters = {}
  /\ MaxOverlap \in Nat /\ MaxLetters \in Nat /\ MaxWorded \in Nat
  /\ TokenLengths \subseteq Nat /\ Pauses \subseteq Nat

VARIABLES
  worded,   \* regions whose text is in the transcript, 0 while there are none
  words,    \* text of the segment of the next region
  tokens,   \* its aligned tokens: start, end and text
  text,     \* text of the transcript
  said      \* history: the number of letters in the segments so far

textVars == <<worded, words, tokens, text, said>>
vars == <<turnVars, textVars>>

-----------------------------------------------------------------------------
(* Characters *)

IsSpace(character) == character \in {Blank, Break}

\* The text without its spaces.
Compact(string) ==
  LET compact[i \in 0 .. Len(string)] ==
        IF i = 0 THEN <<>>
        ELSE IF IsSpace(string[i]) THEN compact[i - 1]
        ELSE Append(compact[i - 1], string[i])
  IN compact[Len(string)]

\* The number of letters among the first i characters.
LetterCount(string, i) == Len(Compact(SubSeq(string, 1, i)))

StripLeft(string) ==
  LET inked == {i \in DOMAIN string : ~IsSpace(string[i])} IN
  IF inked = {} THEN <<>>
  ELSE SubSeq(string, CHOOSE i \in inked : \A j \in inked : i <= j, Len(string))

Strip(string) == Reverse(StripLeft(Reverse(StripLeft(string))))

\* Mutant of SurfaceIndexForCount: spaces are counted too.
SurfaceIndexForAll(string, count) == Lesser(count, Len(string))

\* The position of the letter that makes up the count.
SurfaceIndexForCount(string, count) ==
  CHOOSE i \in DOMAIN string : ~IsSpace(string[i]) /\ LetterCount(string, i) = count

-----------------------------------------------------------------------------
(* Cutting a segment *)

\* Letters of the first i tokens
Cumulative(list, i) == Len(FlattenSeq([j \in 1..i |-> list[j].text]))

\* The tokens reproduce the text, and each has a speaker.
Splits(string, list, speakers) ==
  /\ list # <<>> /\ turns # <<>>
  /\ FlattenSeq([i \in DOMAIN list |-> list[i].text]) = Compact(string)
  /\ \A i \in DOMAIN list : speakers[i] # NoSpeaker

\* A piece ends at the last letter of each token whose speaker is not the
\* next one's, and the last piece at the end of the text: it begins where the
\* piece before it ended.
Pieces(string, list, speakers) ==
  LET n == Len(list)
      surface(i) == IF i = n THEN Len(string)
                    ELSE SurfaceIndexForCount(string, Cumulative(list, i))
      pieces[i \in 0 .. n] ==
        IF i = 0 THEN <<>>
        ELSE IF i < n /\ speakers[i] = speakers[i + 1] THEN pieces[i - 1]
        ELSE LET before == pieces[i - 1] IN
             Append(before, [start |-> IF before = <<>> THEN 0 ELSE Last(before).end,
                             end |-> surface(i), speaker |-> speakers[i]])
  IN pieces[n]

\* _split_segment, or the segment as it is when that has nothing to say
Refine(string, list, fallback) ==
  LET smooth == SmoothTurns(turns)
      speakers == [i \in DOMAIN list |-> SpeakerForToken(list[i], smooth, fallback)] IN
  IF Splits(string, list, speakers)
    THEN Pieces(string, list, speakers)
    ELSE <<[start |-> 0, end |-> Len(string), speaker |-> fallback]>>

TextOf(string, piece) == SubSeq(string, piece.start + 1, piece.end)

-----------------------------------------------------------------------------
(* Appending to the transcript *)

\* Lengths of the ends of one text that the other begins with
Overlaps(output, next) ==
  {n \in 0 .. Lesser(Lesser(Len(output), Len(next)), MaxOverlap) :
     SubSeq(output, Len(output) - n + 1, Len(output)) = SubSeq(next, 1, n)}

\* What the text ends with is not said again, and a line is broken otherwise.
AppendWithoutOverlap(output, next) ==
  LET stripped == Strip(next)
      overlaps == Overlaps(output, stripped)
      overlap == CHOOSE n \in overlaps : \A k \in overlaps : k <= n
      remainder == StripLeft(SubSeq(stripped, overlap + 1, Len(stripped))) IN
  IF remainder = <<>> THEN output
  ELSE IF output = <<>> THEN stripped
  ELSE output \o (IF overlap > 0 THEN <<>> ELSE <<Break>>) \o remainder

-----------------------------------------------------------------------------
Init ==
  /\ TurnsInit
  /\ worded = 0
  /\ words = <<>>
  /\ tokens = <<>>
  /\ text = <<>>
  /\ said = 0

\* The window is cut into chunks before its segments are refined.
Cut ==
  /\ worded = 0 /\ words = <<>>
  /\ TurnsNext
  /\ UNCHANGED textVars

Wording == ~MoreChunks /\ worded < Len(regions) /\ Region.end <= MaxWorded

\* The model hears a letter, after a space or not,
Hear(letter, spaced) ==
  /\ Wording
  /\ said + Len(Compact(words)) < MaxLetters
  /\ words' = words \o (IF spaced /\ words # <<>> THEN <<Blank>> ELSE <<>>) \o <<letter>>
  /\ UNCHANGED <<turnVars, worded, text, said>>

\* and returns an aligned token for it, within the region
HearToken(letter, spaced, pause, length) ==
  LET region == regions[worded + 1]
      start == (IF tokens = <<>> THEN 2 * region.start ELSE Last(tokens).end) + pause IN
  /\ Hear(letter, spaced)
  /\ start + length <= 2 * region.end
  /\ tokens' = Append(tokens, [start |-> start, end |-> start + length, text |-> <<letter>>])

\* or does not.
HearUntimed(letter, spaced) == Hear(letter, spaced) /\ UNCHANGED tokens

\* The segment of a region is complete: its pieces go into the transcript.
CloseSegment(fallback) ==
  /\ Wording
  /\ LET pieces == IF words = <<>> THEN <<>> ELSE Refine(words, tokens, fallback)
         joined[k \in 0 .. Len(pieces)] ==
           IF k = 0 THEN text ELSE AppendWithoutOverlap(joined[k - 1], TextOf(words, pieces[k])) IN
     text' = joined[Len(pieces)]
  /\ worded' = worded + 1
  /\ words' = <<>>
  /\ tokens' = <<>>
  /\ said' = said + Len(Compact(words))
  /\ UNCHANGED turnVars

Next ==
  \/ Cut
  \/ \E letter \in Letters, spaced \in BOOLEAN :
       \/ HearUntimed(letter, spaced)
       \/ \E pause \in Pauses, length \in TokenLengths : HearToken(letter, spaced, pause, length)
  \/ \E fallback \in Speakers \cup {NoSpeaker} : CloseSegment(fallback)

Spec == Init /\ [][Next]_vars

-----------------------------------------------------------------------------
(* Properties *)

Tokens == [start : Nat, end : Nat, text : Seq(Letters)]

\* Texts are made of characters, tokens are in order within their region.
TypeOK ==
  /\ TurnsTypeOK
  /\ worded \in 0 .. Len(regions)
  /\ words \in Seq(Letters \cup {Blank})
  /\ tokens \in Seq(Tokens)
  /\ text \in Seq(Letters \cup {Blank, Break})
  /\ said \in 0 .. MaxLetters

\* The earliest of the turns a token shares most time with, or one it lies in.
SpokenIn(token, list, speaker) ==
  LET shared == [k \in DOMAIN list |-> Overlap(token, list[k])]
      longest == {k \in DOMAIN list : \A j \in DOMAIN list : shared[j] <= shared[k]} IN
  IF \E k \in DOMAIN list : shared[k] > 0
    THEN speaker = list[CHOOSE k \in longest : \A j \in longest : k <= j].speaker
    ELSE \E k \in DOMAIN list :
           speaker = list[k].speaker /\ list[k].start <= token.start /\ token.end <= list[k].end

\* Cutting a segment at its tokens neither loses, repeats nor moves a
\* character, and each letter of a token is in a piece of the speaker whose
\* turn the token was spoken in: the cut is found by counting letters, in a
\* text that has spaces where the tokens have none (_surface_index_for_count),
\* and the clause for tokens without extent must not override a turn already
\* found (_speaker_for_token).
PiecesReproduce ==
  words # <<>> =>
    \A fallback \in Speakers \cup {NoSpeaker} :
      LET pieces == Refine(words, tokens, fallback) IN
      /\ FlattenSeq([k \in DOMAIN pieces |-> TextOf(words, pieces[k])]) = words
      /\ Len(tokens) = Len(Compact(words)) =>
           \A i \in DOMAIN tokens :
             \E k \in DOMAIN pieces :
               /\ LetterCount(words, pieces[k].start) < i /\ i <= LetterCount(words, pieces[k].end)
               /\ SpokenIn(tokens[i], SmoothTurns(turns), pieces[k].speaker)
=============================================================================
