---------------------------- MODULE SpeakerTurns ----------------------------
(***************************************************************************)
(* Who speaks when in one processing window (backends/turn_alignment.py).  *)
(* CAM++ embeds overlapping chunks of each region of speech; each chunk is *)
(* labelled with a speaker of the meeting, the labelled chunks are merged  *)
(* into turns, short turns are smoothed away, and a token belongs to the   *)
(* speaker of the turn it is spoken in.                                    *)
(*                                                                         *)
(* Regions and chunks lie on whole ticks.  The merge halves the overlap of *)
(* two chunks, so the positions of chunks, turns and tokens are doubled.   *)
(***************************************************************************)
EXTENDS Integers, Sequences, SequencesExt

CONSTANTS
  Speakers,      \* clusters of the meeting
  NoSpeaker,     \* None in place of a cluster
  ChunkLength,   \* CAMPLUS_CHUNK_SECONDS
  Shift,         \* CAMPLUS_SHIFT_SECONDS
  MinTurn,       \* MIN_SPEAKER_TURN_SECONDS, rounded up to a tick
  Lengths,       \* lengths of regions of speech
  Gaps,          \* silences before a region
  MaxRegions     \* bound on the regions of a window

\* A region's last chunk ends with it and begins before the one it follows ends.
ASSUME TurnsAssumption ==
  /\ NoSpeaker \notin Speakers
  /\ ChunkLength \in Nat /\ Shift \in Nat /\ MinTurn \in Nat
  /\ 0 < Shift /\ Shift < ChunkLength /\ 0 < MinTurn
  /\ Lengths \subseteq Nat \ {0}
  /\ Gaps \subseteq Nat
  /\ MaxRegions \in Nat

VARIABLES
  regions,     \* regions of speech so far, in ticks
  candidate,   \* candidate_start of the next chunk in the last region
  lastEnd,     \* last_chunk_end in that region
  labeled,     \* the labelled chunks
  turns        \* the turns merged from them

turnVars == <<regions, candidate, lastEnd, labeled, turns>>

-----------------------------------------------------------------------------
(* Chunks *)

Lesser(a, b) == IF a <= b THEN a ELSE b
Greater(a, b) == IF a >= b THEN a ELSE b

Region == IF regions = <<>> THEN [start |-> 0, end |-> 0] ELSE Last(regions)
RegionLength == Region.end - Region.start

\* chunk_end, relative to the region
ChunkEnd == Lesser(candidate + ChunkLength, RegionLength)

\* Mutant of MoreChunks: the tail that does not fill a chunk is forgotten.
MoreWholeChunks ==
  candidate < RegionLength /\ (candidate = 0 \/ candidate + ChunkLength <= RegionLength)

\* The loop over candidate_start goes on.
MoreChunks == candidate < RegionLength /\ ChunkEnd > lastEnd

\* The last chunk is moved back to end with the region.
Chunk(speaker) ==
  [start |-> 2 * (Region.start + Greater(0, ChunkEnd - ChunkLength)),
   end |-> 2 * (Region.start + ChunkEnd),
   speaker |-> speaker]

-----------------------------------------------------------------------------
(* Merging *)

\* Where two overlapping turns of different speakers are cut.
Middle(earlier, later) == (earlier.end + later.start) \div 2

\* Mutants of MergeTurn: overlapping turns are not cut, or cut at the start of
\* the later one.
MergeTurnUncut(merged, turn) ==
  IF merged # <<>> /\ Last(merged).speaker = turn.speaker /\ turn.start <= Last(merged).end
    THEN [merged EXCEPT ![Len(merged)].end = Greater(@, turn.end)]
    ELSE Append(merged, turn)

MergeTurnLate(merged, turn) ==
  IF merged = <<>> THEN <<turn>>
  ELSE IF Last(merged).speaker = turn.speaker /\ turn.start <= Last(merged).end
    THEN [merged EXCEPT ![Len(merged)].end = Greater(@, turn.end)]
    ELSE Append([merged EXCEPT ![Len(merged)].end = Lesser(@, turn.start)], turn)

\* The body of the loop of _merge_turns.
MergeTurn(merged, turn) ==
  IF merged = <<>> THEN <<turn>>
  ELSE LET last == Last(merged)
           n == Len(merged)
           cut == Middle(last, turn) IN
    IF last.speaker # turn.speaker
      THEN IF last.end > turn.start
             THEN Append([merged EXCEPT ![n].end = cut], [turn EXCEPT !.start = cut])
             ELSE Append(merged, turn)
      ELSE IF turn.start <= last.end
             THEN [merged EXCEPT ![n].end = Greater(@, turn.end)]
             ELSE Append(merged, turn)

MergeTurns(list) ==
  LET merged[i \in 0 .. Len(list)] == IF i = 0 THEN <<>> ELSE MergeTurn(merged[i - 1], list[i])
  IN merged[Len(list)]

-----------------------------------------------------------------------------
(* Smoothing *)

IsShort(turn) == turn.end - turn.start < 2 * MinTurn

\* Mutant of Successor: the farther neighbour is taken.
SuccessorFarther(list, i) ==
  IF i = 1 THEN 2
  ELSE IF i = Len(list) \/ list[i].start - list[i-1].end > list[i+1].start - list[i].end
    THEN i - 1
    ELSE i + 1

\* The neighbour of a short turn that takes it over.
Successor(list, i) ==
  IF i = 1 THEN 2
  ELSE IF i = Len(list) \/ list[i].start - list[i-1].end <= list[i+1].start - list[i].end
    THEN i - 1
    ELSE i + 1

\* All neighbours are looked up in the turns as they were merged.
Adjusted(list) ==
  [i \in DOMAIN list |->
     IF IsShort(list[i]) /\ Len(list) > 1
       THEN [list[i] EXCEPT !.speaker = list[Successor(list, i)].speaker]
       ELSE list[i]]

SmoothTurns(list) == MergeTurns(Adjusted(list))

-----------------------------------------------------------------------------
(* Tokens *)

Overlap(token, turn) ==
  Greater(Lesser(token.end, turn.end) - Greater(token.start, turn.start), 0)

\* One pass over the turns keeps the best overlap so far; a token without
\* extent goes to the turn around its midpoint.
SpeakerForToken(token, list, fallback) ==
  LET middle == token.start + token.end
      best[i \in 0 .. Len(list)] ==
        IF i = 0 THEN [overlap |-> 0, speaker |-> fallback]
        ELSE LET overlap == Overlap(token, list[i]) IN
          IF overlap > best[i - 1].overlap
            THEN [overlap |-> overlap, speaker |-> list[i].speaker]
          ELSE IF overlap = 0 /\ 2 * list[i].start <= middle /\ middle <= 2 * list[i].end
            THEN [best[i - 1] EXCEPT !.speaker = list[i].speaker]
            ELSE best[i - 1]
  IN best[Len(list)].speaker

-----------------------------------------------------------------------------
(* Building the turns of a window, chunk after chunk *)

TurnsInit ==
  /\ regions = <<>>
  /\ candidate = 0
  /\ lastEnd = 0
  /\ labeled = <<>>
  /\ turns = <<>>

\* The next interval of the voice activity detector: after the last one.
OpenRegion(gap, length) ==
  /\ ~MoreChunks
  /\ Len(regions) < MaxRegions
  /\ regions' = Append(regions, [start |-> Region.end + gap, end |-> Region.end + gap + length])
  /\ candidate' = 0
  /\ lastEnd' = 0
  /\ UNCHANGED <<labeled, turns>>

\* The next chunk gets the cluster of its local speaker, or the prototype it is
\* closer to: any speaker.
LabelChunk(speaker) ==
  /\ MoreChunks
  /\ labeled' = Append(labeled, Chunk(speaker))
  /\ turns' = MergeTurn(turns, Chunk(speaker))
  /\ candidate' = candidate + Shift
  /\ lastEnd' = ChunkEnd
  /\ UNCHANGED regions

TurnsNext ==
  \/ \E gap \in Gaps, length \in Lengths : OpenRegion(gap, length)
  \/ \E speaker \in Speakers : LabelChunk(speaker)

TurnsSpec == TurnsInit /\ [][TurnsNext]_turnVars

-----------------------------------------------------------------------------
(* Properties *)

TurnRecords == [start : Nat, end : Nat, speaker : Speakers]

\* Positions are ticks, and the speaker of a turn is a cluster of the meeting.
TurnsTypeOK ==
  /\ regions \in Seq([start : Nat, end : Nat])
  /\ candidate \in Nat /\ lastEnd \in Nat
  /\ labeled \in Seq(TurnRecords)
  /\ turns \in Seq(TurnRecords)

\* Turns have an extent and follow one another without overlap.
Ordered(list) ==
  /\ \A i \in DOMAIN list : list[i].start < list[i].end
  /\ \A i, j \in DOMAIN list : i < j => list[i].end <= list[j].start

\* However the chunks overlap and whoever they are given to, cutting, joining
\* and smoothing them leaves turns in order, none of them empty or reversed
\* (_merge_turns moves ends and starts it compared before).
TurnsOrdered == Ordered(turns) /\ Ordered(SmoothTurns(turns))

\* The half ticks of the window so far, and who speaks at one of them.
Moments == 0 .. 2 * Region.end - 1
During(x, span) == span.start <= x /\ x < span.end
Speaking(list, x) ==
  IF \E i \in DOMAIN list : During(x, list[i])
    THEN list[CHOOSE i \in DOMAIN list : During(x, list[i])].speaker
    ELSE NoSpeaker

\* All speech is given to somebody and no silence is: the chunks of a region
\* reach its end (_camplus_chunk_intervals), and merging and smoothing neither
\* lose a moment nor bridge a silence.
SpeechHasSpeaker ==
  ~MoreChunks =>
    LET smooth == SmoothTurns(turns) IN
    \A x \in Moments :
      LET spoken == \E i \in DOMAIN regions :
                      2 * regions[i].start <= x /\ x < 2 * regions[i].end IN
      /\ Speaking(turns, x) \in Speakers <=> spoken
      /\ Speaking(smooth, x) \in Speakers <=> spoken

\* The one pass over the chunks that cuts each overlap in the middle gives
\* every moment to the chunk whose centre is nearest, of all the chunks that
\* heard it: also where a region's last chunk, moved back, overlaps the last
\* but one and the one before.
OffCentre(x, span) == LET d == 2 * x + 1 - (span.start + span.end) IN IF d < 0 THEN -d ELSE d

NearestChunkSpeaks ==
  \A x \in Moments :
    LET heard == {i \in DOMAIN labeled : During(x, labeled[i])} IN
    heard # {} =>
      \E i \in heard :
        /\ \A j \in heard : OffCentre(x, labeled[i]) <= OffCentre(x, labeled[j])
        /\ Speaking(turns, x) = labeled[i].speaker

\* Smoothing leaves stable turns alone and gives a short one between stable
\* turns to the neighbour across the shorter silence (_smooth_turns).  Nothing
\* of the kind holds of a short turn next to another.
Neighbours(i) == DOMAIN turns \cap {i - 1, i + 1}
Silence(i, j) == IF j < i THEN turns[i].start - turns[j].end ELSE turns[j].start - turns[i].end

AbsorbedByNearest ==
  LET smooth == SmoothTurns(turns) IN
  \A i \in DOMAIN turns : \A x \in turns[i].start .. turns[i].end - 1 :
    LET speaker == Speaking(smooth, x) IN
    IF IsShort(turns[i]) /\ Neighbours(i) # {}
      THEN (\A j \in Neighbours(i) : ~IsShort(turns[j])) =>
             \E j \in Neighbours(i) :
               /\ \A k \in Neighbours(i) : Silence(i, j) <= Silence(i, k)
               /\ speaker = turns[j].speaker
      ELSE speaker = turns[i].speaker
=============================================================================
