--------------------------- MODULE SpeakerSamples ---------------------------
(***************************************************************************)
(* What analyze() of SpeakerEmbeddingBackend accepts of candidate voice    *)
(* samples once CAM++ has grouped the clips and compared each window with  *)
(* its clip.  Times are multiples of 25 milliseconds; a clip is its        *)
(* duration.                                                               *)
(***************************************************************************)
EXTENDS Integers, SequencesExt

ChunkTime == 60        \* SPEAKER_SAMPLE_CHUNK_SECONDS
ChunkShift == 30       \* SPEAKER_SAMPLE_CHUNK_SHIFT_SECONDS
BoundaryMargin == 20   \* SPEAKER_SAMPLE_BOUNDARY_MARGIN_SECONDS
EdgeMargin == 10       \* SPEAKER_SAMPLE_EDGE_MARGIN_SECONDS
ShortTurn == 28        \* minimum_duration of _smooth_short_turns
MinCleanRange == 120   \* SPEAKER_SAMPLE_MIN_CLEAN_RANGE_SECONDS
MinAccepted == 200     \* SPEAKER_SAMPLE_MIN_ACCEPTED_SECONDS
MaxPreview == 320      \* SPEAKER_SAMPLE_MAX_PREVIEW_SECONDS

Least(a, b) == IF a <= b THEN a ELSE b
Most(a, b) == IF a >= b THEN a ELSE b

-----------------------------------------------------------------------------
(* The windows of a clip, from 0 on *)

WindowEnd(k, clip) == Least(k * ChunkShift + ChunkTime, clip)
WindowStart(k, clip) == Most(0, WindowEnd(k, clip) - ChunkTime)

\* A window that would end where the one before did is not made.
WindowsOf(clip) ==
  {k \in 0 .. clip \div ChunkShift : k = 0 \/ WindowEnd(k - 1, clip) < clip}

-----------------------------------------------------------------------------
(* Turns: who speaks where, as far as the windows tell.  A turn is known by  *)
(* its first window, and sounds like the clip or does not.                   *)

Starts(label) == {k \in DOMAIN label : k = 0 \/ label[k] # label[k - 1]}

Later(starts, k) == {j \in starts : k < j}

\* A turn begins half way between the end of the window before it and the
\* start of its first one, and ends where the next begins.
Begin(k, clip) ==
  IF k = 0 THEN 0 ELSE (WindowEnd(k - 1, clip) + WindowStart(k, clip)) \div 2

End(starts, k, clip) ==
  IF Later(starts, k) = {} THEN clip ELSE Begin(Min(Later(starts, k)), clip)

\* A short turn takes the label of the turn before it, as smoothed already;
\* the first takes that of the second.  label[k] is that of the turn of window k.
SmoothShortTurns(heard, clip) ==
  LET starts == Starts(heard)
      Stays(k) == End(starts, k, clip) - Begin(k, clip) >= ShortTurn \/ starts = {0}
      label[k \in DOMAIN heard] ==
        IF k \in starts /\ Stays(k) THEN heard[k]
        ELSE IF k = 0 THEN heard[Min(Later(starts, 0))] ELSE label[k - 1]
  IN label

-----------------------------------------------------------------------------
(* What is left of the turns *)

Turn(file, start, end, stable) ==
  [file |-> file, start |-> start, end |-> end, stable |-> stable]
Length(turn) == turn.end - turn.start

\* Mutant of Margin: every end of a turn is taken for an edge of the clip.
EdgeOnly(atEdge) == EdgeMargin

Margin(atEdge) == IF atEdge THEN EdgeMargin ELSE BoundaryMargin

\* What remains of each turn between its margins, which may be nothing, once
\* turns of one label are merged.  match[k + 1] says that window k sounds like
\* its clip.
CleanTurns(file, clip, match) ==
  LET label == SmoothShortTurns([k \in 0 .. Len(match) - 1 |-> match[k + 1]], clip)
      starts == Starts(label)
      Start(k) == Least(End(starts, k, clip), Begin(k, clip) + Margin(k = 0))
  IN {Turn(file, Start(k),
           Most(Start(k), End(starts, k, clip) - Margin(Later(starts, k) = {})),
           label[k]) : k \in starts}

Total(turns) == FoldSet(LAMBDA turn, sum : sum + Length(turn), 0, turns)

\* The group with most audio, then most clips, then the least label.
DominantGroup(clips, group) ==
  LET Members(g) == {i \in DOMAIN clips : group[i] = g}
      Audio(g) ==
        LET sum[i \in 0 .. Len(clips)] ==
              IF i = 0 THEN 0 ELSE sum[i - 1] + (IF group[i] = g THEN clips[i] ELSE 0)
        IN sum[Len(clips)]
      Rank(g) == <<Audio(g), Cardinality(Members(g)), -g>>
      Above(r, s) == \E j \in 1..3 : r[j] > s[j] /\ \A i \in 1..(j - 1) : r[i] = s[i]
      groups == {group[i] : i \in DOMAIN clips}
  IN CHOOSE g \in groups : \A h \in groups \ {g} : Above(Rank(g), Rank(h))

Selected(clips, group) == {i \in DOMAIN clips : group[i] = DominantGroup(clips, group)}

Before(r, s) == r.file < s.file \/ (r.file = s.file /\ r.start < s.start)

\* Mutant of Longest: the first one will do.
FirstOf(turns) == CHOOSE r \in turns : \A s \in turns \ {r} : Before(r, s)

\* max() by duration keeps the first of several.
Longest(turns) ==
  CHOOSE r \in turns :
    \A s \in turns \ {r} :
      Length(s) < Length(r) \/ (Length(s) = Length(r) /\ Before(r, s))

Preview(source) ==
  [source EXCEPT !.end = Least(source.end, source.start + MaxPreview)]

\* Without a stable turn, the longest clip of the group is played.
Fallback(clips, selected) ==
  LET file == Longest({Turn(i, 0, clips[i], FALSE) : i \in selected}).file
      start == Least(EdgeMargin, clips[file])
  IN Turn(file, start, Most(start, clips[file] - EdgeMargin), FALSE)

\* The ranges of which the voiceprint is made, none if it is not enrollable,
\* and the preview.
Analysis(clips, group, match) ==
  LET selected == Selected(clips, group)
      turns == UNION {CleanTurns(i, clips[i], match[i]) : i \in selected}
      stable == {turn \in turns : turn.stable /\ Length(turn) > 0}
      accepted == {turn \in stable : Length(turn) >= MinCleanRange}
      enrollable ==
        /\ 10 * Total(stable) >= 7 * Total(turns) /\ Total(turns) > 0
        /\ accepted # {} /\ Total(accepted) >= MinAccepted
  IN [ranges |-> IF enrollable THEN accepted ELSE {},
      preview |-> Preview(IF stable # {} THEN Longest(stable) ELSE Fallback(clips, selected))]
=============================================================================
